SPECIFICATION FairSpec
CONSTRAINT Scope
CONSTANTS
    Messages = {m1, m2}
    Sessions = {s1}
    Home = s1
    SessionOf <- SessionOfDef
    NoSession = NoSession
    MaxSends = 2
    MaxRestarts = 1
INVARIANTS
    TypeOK
    DeliveredWasAccepted
    
    
 
