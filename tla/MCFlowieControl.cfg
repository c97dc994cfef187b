CONSTANTS
    MaxRevision = 100
    MaxGroups = 2
    MaxRoles = 2
    MaxDepth = 2
    Workers = {w1, w2}
    Tokens = {"t1", "t2", "t3"}
    Databases <- MCDatabases
    Scenarios <- MCScenarios
    Source <- Exporter
    SessionCapacity = 2
    SessionsPerPrincipal = 1
    Ttl = 1
SPECIFICATION Spec
SYMMETRY Symmetry
CHECK_DEADLOCK FALSE
INVARIANTS  DatabaseIntegrity  SessionsAccountedFor
 
