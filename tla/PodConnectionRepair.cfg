CONSTANTS
    Loops = {l1}
    NoLoop = NoLoop
    Supervisor = Supervisor
    Clients = {}
    Slots = 1
    FailureLimit = 2
    Compose = FALSE
    Operations = {"enter", "recreate", "remove", "repair"}
    Faults = {"host", "link", "tunnel"}
    MaxHostEvents = 1
SPECIFICATION Spec
INVARIANT RemovedKeepsNothing
INVARIANT RequestNotPaused
PROPERTY LateRepairRejected
