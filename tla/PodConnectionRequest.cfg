CONSTANTS
    Loops = {l1}
    NoLoop = NoLoop
    Supervisor = Supervisor
    Clients = {}
    Slots = 1
    FailureLimit = 1
    Compose = TRUE
    Operations = {"enter"}
    Faults = {}
    MaxHostEvents = 1
SPECIFICATION Spec
PROPERTY RequestKept
