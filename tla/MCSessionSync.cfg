SPECIFICATION MCSpec
VIEW View
CONSTRAINT Overlap
CONSTANTS
    Users = {u1, u2}
    Groups = {g1}
    NoGroup = NoGroup
    NoUser = NoUser
    Self = u1
    MaxMembers = 2
    MaxRequests = 2
    MaxFailures = 1
    MaxCrashes = 1
    MaxLogins = 2
INVARIANTS SyncTypeOK  
