SPECIFICATION FairSpec
CONSTANTS
    Users = {u1, u2}
    Conns = {1, 2, 3}
    Messages = {1, 2}
    Notices = {n1}
    MaxCrashes = 1
    NoUser = NoUser
    NoConn = NoConn
    Primary = u1
CONSTRAINT Scope
INVARIANTS
    TypeOK
    LossOnlyByDuplicateRule
    
    
    FirstReceivedInOrder
 
CHECK_DEADLOCK FALSE
