SPECIFICATION Spec
CONSTANTS
    s1 = s1
    s2 = s2
    s3 = s3
    NoServer = NoServer
    None = None
    Servers <- MCServers
    Countries <- MCCountries
    Configs <- MCConfigs
    Rtts = {1, 9}
    Scores = {1, 2}
    MaxLatency = 5
    Threshold = 25
INVARIANT
    BaselineRestorable
