CONSTANTS
    Sessions = {"s1"}
    Subagents = {"a1"}
    Threads = {"t1", "t2"}
    StatusLoads <- StatusBounds
    StreamRoom = 2
    Launches = {1, 2}
    Wishes <- ImageWishes
    Bases <- ImageBases
    Versions <- CliVersions
    Machines <- ImageMachines
    UpgradeLimit = 1
    Pods = {"p", "q"}
    MaxPort = 4
    Ephemeral = {3, 4}
    Near = 2
    Declared <- PortsDeclared
    Adders = {1, 2}
    AddTargets = {2}
    PortLoads <- PortBounds
    HomePods = {"p", "q"}
    Commands = {1, 2}
    HomeLoads <- HomeBounds
    Modules <- RepoModules
    Gitlinks = {"lib", "deep"}
    PodName = "n"
    SourceName = "s"
    GitScenarios <- GitBounds
    Sockets = {"a", "b", "c"}
    MaxAmbient = 2
    AgentAsks = {1, 2}
    AgentTasks = {1, 2}
    SshLoads <- SshBounds
    LfsPods = {"p", "q"}
    Payloads = {"x", "y"}
    LfsLoads <- LfsBounds
    EnvPods = {"p", "q", "r"}
    Configs <- EnvConfigs
    Shells <- UserShells
    EnvFiles <- UserEnvFiles
    Profiles <- PodProfiles
    ImageEnv <- EnvOfImage
    BackendSet <- BackendSets
    BackendUnset = {"D"}
    EnvLoads <- EnvBounds
    ComposePods = {"p", "q"}
    Files <- ComposeFiles
    ComposeLoads <- ComposeBounds
SPECIFICATION Spec
CHECK_DEADLOCK FALSE
INVARIANTS StatusFollows PreparedFits PortsAsPromised HomesAreOwn  GatewayUrlsCurrent
INVARIANTS AgentsServe PayloadsFollow EnvSurvives ComposeAsAsked
