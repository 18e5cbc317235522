SPECIFICATION Spec
CONSTANTS
    Messages = {1, 2, 3, 4}
    Outgoing = {2}
    Private = p1
    Group = g1
    Sessions = {p1, g1}
    Groups = {g1}
    SessionOf <- SessionOfDef
    NoSession = NoSession
    Limit = 2
    MaxFaults = 2
INVARIANTS TypeOK ViewsMirrorTables ReadWasShown 
