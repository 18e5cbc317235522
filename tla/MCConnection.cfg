SPECIFICATION FairSpec
CONSTANTS
    Users = {u1, u2}
    Conns = {1, 2, 3}
    NoUser = NoUser
    NoConn = NoConn
    NoToken = NoToken
    NoPacket = NoPacket
    MaxAttempts = 2
    MaxEpoch = 2
CONSTRAINT InOrder
INVARIANTS
    ConnectionTypeOK
    ReadyIsLoggedIn
    LoginWasAsked
    
    NeverStuck
 
CHECK_DEADLOCK FALSE
