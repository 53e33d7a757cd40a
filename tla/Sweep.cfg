SPECIFICATION FairSpec
CONSTANTS
    Unset = Unset
    Servers = {1, 2, 3}
    Entries = {1, 3}
    Listed <- MCListed
    Country <- MCCountry
    LoadOf <- MCLoad
    Headroom <- MCHeadroom
    Healthy = {1, 2}
    Addresses = {1}
    Files <- MCFiles
    Rtts = {1, 2}
    RttScore <- MCRttScore
    LoadScore <- MCLoadScore
    HeadroomScore <- MCHeadroomScore
    None = None
INVARIANTS
    TypeOK
    HandshakesContained
    UsableIffTimed
    RankingHonest
PROPERTIES
    SweepEnds
CHECK_DEADLOCK FALSE
