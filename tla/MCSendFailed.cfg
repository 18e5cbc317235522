SPECIFICATION Spec
CONSTANTS
    Messages = {m1}
    Sessions = {s1}
    Home = s1
    SessionOf <- SessionOfDef
    NoSession = NoSession
    MaxSends = 3
    MaxRestarts = 1
PROPERTY FailedOnlyFromSending
