SPECIFICATION Spec
SYMMETRY Symmetry
CONSTANTS
    Servers = {s1, s2}
    NoServer = NoServer
    Torn = Torn
    Bypassable = {d1}
    Lan = {l1}
    Needed = {n1}
    Internet = Internet
INVARIANTS
    TypeOK
    KillswitchConfines
    ConfFollows
    BypassPermitted
    NoResidue
PROPERTIES
    EndpointSettled
    RecordTruthful
