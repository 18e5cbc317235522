SPECIFICATION FairSpec
CONSTANTS
    Users = {u1, u2, u3}
    Groups = {g1}
    NoGroup = NoGroup
    MaxMembers = 2
    MaxRequests = 2
    MaxFailures = 1
    MaxCrashes = 1
INVARIANTS
    TypeOK
    
    OnlyMembersTold
PROPERTIES
    NoMessageAfterRemoval
    RemovedIsTold
    NothingStaysPending
CHECK_DEADLOCK FALSE
