CONSTANTS
    Loops = {l1}
    NoLoop = NoLoop
    Supervisor = Supervisor
    Clients = {}
    Slots = 1
    FailureLimit = 1
    Compose = FALSE
    Operations = {"connect", "repair"}
    Faults = {"link", "tunnel"}
    MaxHostEvents = 1
SPECIFICATION FairSpec
PROPERTY RequestServed
PROPERTY StoppedLoopEnds
