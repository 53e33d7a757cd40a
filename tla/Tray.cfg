SPECIFICATION FairSpec
CONSTANTS
    s1 = s1
    s2 = s2
    Servers <- MCServers
    NoServer = NoServer
    Unknown = Unknown
    Filters <- MCFilters
    Countries <- MCCountries
    Answering <- MCAnswering
    Platforms = {"linux", "windows"}
    MaxQueue = 2
    MaxUpdates = 1
    MaxMoves = 2
INVARIANTS
    TypeOK
    ClicksUnderstood
PROPERTIES
    SettlesOnTruth
    ClicksServed
