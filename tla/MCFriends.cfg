SPECIFICATION Spec
CONSTANTS
    Users = {u1, u2}
    NoUser = NoUser
    MaxOps = 2
    MaxLogins = 3
    MaxFailures = 1
    MaxCrashes = 1
SYMMETRY Symmetry
CONSTRAINT Scope
INVARIANTS TypeOK 
PROPERTY FollowsTheRules
CHECK_DEADLOCK FALSE
