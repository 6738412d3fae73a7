SPECIFICATION LimitsSpec
CONSTANTS
    Limited = {"director", "spending", "bus", "plan", "dangers"}
    Alpha = Alpha
    Rex = Rex
    Vera = Vera
    Talk = Talk
    Build = Build
    Alarm = Alarm
    Speakers = {Alpha, Rex, Vera}
    Topics = {Talk, Build, Alarm}
    Kind <- MCKind
    BuildIntent <- MCBuildIntent
    Mentions <- MCMentions
    Planners = {Alpha}
    Allowlist = {Rex, Vera}
    Rescuers = {Alpha}
    Scenes = {x1, x2}
    ClaimSets <- MCClaimSets
    Audiences <- MCAudiences
    BlockTurns = 2
    SilentTurns = 3
    SceneCap = 2
    BuildCap = 1
    BuildWindow = 2
    DecisionTtl = 1
    MaxCached = 2
    MaxClock = 3
    MaxVerdicts = 4
    Callers = {Rex, Vera}
    Cap = 2
    Prices = {1, 2}
    Window = 2
    MaxTime = 3
    MaxCosts = 3
    MaxPosts = 2
    MaxAttempts = 2
    Sockets = {Rex, Vera}
    Emitters = {x1, x2}
    MaxConnections = 1
    HistorySize = 1
    MaxEvents = 3
    Builders = {Rex, Vera}
    Objectives = {x1, x2}
    Bar = 2
    Ratios = {1, 2}
    Requested = {"blocked", "completed"}
    MaxUpdates = 4
    Writers = {Rex, Vera}
    Villagers = {Alpha}
    MaxListed = 2
    MaxReports = 2
    MaxCancelled = 1
INVARIANT FloorIsShared
INVARIANT CostsKept
INVARIANT BusSound
INVARIANT DangerListSound
PROPERTY LatchKept
SYMMETRY Symmetry
CHECK_DEADLOCK FALSE
