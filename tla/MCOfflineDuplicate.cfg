SPECIFICATION Spec
CONSTANTS
    Users = {u1}
    Conns = {c1, c2}
    Messages = {m1}
    Notices = {}
    MaxCrashes = 1
    NoUser = NoUser
    NoConn = NoConn
    Primary = u1
INVARIANT KeptUntilReceived
CHECK_DEADLOCK FALSE
