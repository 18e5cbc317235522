SPECIFICATION Spec
CONSTANTS
    Users = {u1, u2}
    NoUser = NoUser
    MaxOps = 2
    MaxLogins = 2
    MaxFailures = 0
    MaxCrashes = 0
PROPERTY HandledStaysHandled
CHECK_DEADLOCK FALSE
