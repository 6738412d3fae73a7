SPECIFICATION ServicesSpec
CONSTANTS
    Services = {"board", "bridge", "dangers", "stream", "health", "proxy", "accounts", "scenes"}
    Agents = {Alpha, Rex}
    Nobody = Nobody
    Requests = {r1, r2}
    Tasks = {t1, t2}
    NoTask = NoTask
    MaxCompleted = 1
    Statuses = {}
    Origins = {"open"}
    MaxFailures = 0
    Bots = {b1, b2}
    Errands = {t1}
    NoErrand = NoErrand
    Verbs = {"errand.poll", "errand.complete"}
    Ttl = 2
    MaxNow = 1
    MaxDispatch = 1
    MaxMemories = 2
    MaxMishaps = 1
    Writers = {w1, w2}
    Villagers = {Vera}
    MaxListed = 1
    MaxReports = 2
    MaxCancelled = 0
    Setups = {"holding card", "cut", "cut and restore"}
    MaxUpsets = 3
    DownThreshold = 2
    Cooldown = 2
    CrashLoopLimit = 3
    TailLines = 2
    MaxSinkFailures = 2
    ProxyJobs = {j1, j2}
    ChatJobs = {j1}
    Workers = {w1, w2}
    RetryAttempts = 1
    MaxWriteErrors = 2
    Payers = {Alpha, Rex}
    Sessions = {c1, c2}
    Share = 2
    Amounts = {2}
    MaxPayments = 2
    MaxWeeks = 1
    MaxAborts = 1
    Players = {Alpha}
    Places = {p1}
    Happenings = {"move", "danger"}
    SceneWindow = 1
    DedupeWindow = 1
    MaxOpen = 1
    Delays = {0, 1}
    MaxHappenings = 2
    MaxSpoiled = 1
    MaxTicks = 1
INVARIANT JobsAccounted
INVARIANT AccountsBalance
PROPERTY SwitchObeyed
PROPERTY RequestsServed
PROPERTY StreamSettles
CHECK_DEADLOCK FALSE
