SPECIFICATION Spec
SYMMETRY Symmetry
CONSTANTS
    Servers = {s1, s2}
    NoServer = NoServer
    Ports = {p1, p2, p3}
    NoPort = NoPort
    Bypassable = {d1}
    Lan = {l1}
    Link = {k1}
    Internet = Internet
    MaxRules = 3
INVARIANTS
    TypeOK
    RuleNeverMissing
    KillswitchConfines
    NoResidue
PROPERTIES
    EndpointOnlyByCaller
    ForeignRoutesKept
    KeepsContract
