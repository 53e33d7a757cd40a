SPECIFICATION FairSpec
CONSTANTS
    Clients = {c1}
    Scheduler = Scheduler
    Main = Main
    Nobody = Nobody
    Modes = {"signal", "service"}
    Intervals = {2, 3}
    Stagger = 1
    Horizon = 4
PROPERTIES
    FirstPassRuns
