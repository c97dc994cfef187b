SPECIFICATION MCSpec
CONSTANTS
    MaxRevision = 100
    MaxGroups = 2
    MaxRoles = 2
    MaxDepth = 2
    Threads = {w1, w2, w3}
    Start <- MCStart
    Scenarios <- MCScenarios
    CacheCapacity = 1
    CacheTtl = 1
    CallerBurst = 3
    CallerRate = 1
    CallerCapacity = 1
    IdentityBurst = 2
    IdentityRate = 1
    IdentityCapacity = 1
    PrincipalCapacity = 1
    TokenUnits = 2
    Dollar = {"$s"}
    Plain = {"d", "a", "x", "ann", "k"}
    Alternatives <- MCAlternatives
    RolePlaceholders <- MCRolePlaceholders
    ClientRoles <- MCClientRoles
    NotSegments = {"", "+"}
    Documents <- MCDocuments
    MaxPattern = 3
    MaxEntries = 2
    MaxAlternatives = 2
    MaxPolicyRules = 8
    PrincipalTtl = 1
    PolicyScenarios <- MCPolicyScenarios
SYMMETRY Symmetry
INVARIANTS GrantsCurrent NoRequestStranded AdmissionBounded  DryRunHonest
CHECK_DEADLOCK FALSE
