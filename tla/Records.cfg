SPECIFICATION RecordsSpec
CONSTANTS
    Recorded = {"board", "bridge", "alliances", "scenes"}
    Alpha = Alpha
    Rex = Rex
    Vera = Vera
    Agents = {Rex, Vera}
    Nobody = Nobody
    Requests = {r1, r2}
    Tasks = {t1, t2}
    NoTask = NoTask
    MaxCompleted = 1
    Statuses = {"done"}
    Origins = {"open", "owned"}
    MaxFailures = 1
    Bots = {Rex, Vera}
    Errands = {e1}
    NoErrand = NoErrand
    Verbs = {"errand.poll", "errand.complete", "perception.report", "action.result"}
    Ttl = 2
    MaxNow = 3
    MaxDispatch = 2
    MaxMemories = 2
    MaxMishaps = 1
    Allies = {Alpha, Rex, Vera}
    Invitations = {{Rex, Vera}}
    MaxPerAgent = 2
    MaxProposals = 1
    MaxVotes = 3
    MaxFormed = 2
    MaxLeaves = 2
    MaxLosses = 1
    Players = {Rex, Vera}
    Places = {p1}
    Happenings = {"talk", "move", "danger"}
    SceneWindow = 1
    DedupeWindow = 1
    MaxOpen = 1
    Delays = {0, 1}
    MaxHappenings = 3
    MaxSpoiled = 1
    MaxTicks = 1
INVARIANT OneWinner
INVARIANT LoserToldWinner
INVARIANT KillHonoured
INVARIANT ErrandsOnce
INVARIANT ExtraMemoryNeedsFault
INVARIANT AlliancesSound
INVARIANT ScenesKept
SYMMETRY Symmetry
CHECK_DEADLOCK FALSE
