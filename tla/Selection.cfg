SPECIFICATION SpecOperations
CONSTANTS
    MaxRanked = 4
    Rates = {0, 10, 20, 30}
    Verify = 3
    Explicit = None
    None = None
    Default = 25
    AcceptPct = 100
    MinMbps = 5
INVARIANTS
    TypeOK
    SettlesOnFastest
PROPERTIES
    RequestAsAssumed
