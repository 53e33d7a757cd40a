SPECIFICATION FairSpec
CONSTANTS
    Clients = {c1, c2}
    Scheduler = Scheduler
    Main = Main
    Nobody = Nobody
    Modes = {"signal", "service"}
    Intervals = {2, 3}
    Stagger = 1
    Horizon = 4
INVARIANTS
    TypeOK
    TornDownForGood
PROPERTIES
    NoRedundantPass
    DuePassRuns
    ShutdownCompletes
