CONSTANTS
    Streams = {1, 2}
    Workloads <- TunnelWorkloads
    PipeRoom = 1
    ChannelRoom = 1
    Servers = {1, 2}
    LeaseTicks = 1
    Users = {"u1", "u2"}
    Generations = 2
    BroadcastRoom = 1
    Scenarios <- PtyScenarios
    OutputChunks = 2
    InputChunks = 1
    FrameRoom = 1
    ControlRoom = 1
    SignalLimit = 1
    Viewers = {"v1", "v2"}
    Plans <- LifecyclePlans
    RestartLimit = 1
    VisitLimit = 1
    Branches = {"n", "b"}
    Primary = "n"
    HookSlots = {"h1", "h2"}
    SyncLoads <- SyncBounds
    Requests = {"r1", "r2"}
    HostLoads <- HostBounds
SPECIFICATION Spec
CHECK_DEADLOCK FALSE
INVARIANTS NoNeedMeansPublished NoStrayFrontend NothingMissed ExecFaithful SetupIsHonest EventsFollowStatus
PROPERTIES TunnelIsPipes ServicesRecover
