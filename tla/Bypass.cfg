SPECIFICATION Spec
CONSTANTS
    eth = eth
    tun = tun
    wg = wg
    Width = 2
    Private <- MCPrivate
    Never <- MCNever
    Links = {eth}
    Vpns = {tun, wg}
    NoLink = NoLink
    Settings <- MCSettings
    Clients <- MCClients
    Answers <- MCAnswers
    Served <- MCServed
    Attached <- MCAttached
    MaxMoves = 2
SYMMETRY Interchangeable
INVARIANTS
    TypeOK
    
