CONSTANTS
    Loops = {l1, l2}
    NoLoop = NoLoop
    Supervisor = Supervisor
    Clients = {c1}
    Slots = 1
    FailureLimit = 1
    Compose = FALSE
    Operations = {"connect", "stop", "remove", "subscribe"}
    Faults = {"pod", "server"}
    MaxHostEvents = 1
SYMMETRY LoopSymmetry
SPECIFICATION Spec
INVARIANT OneLiveLoop
INVARIANT GreetedByCurrentLoop
INVARIANT StoppedIsQuiet
INVARIANT NoneLeftWaiting
