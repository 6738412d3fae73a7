SPECIFICATION RunsSpec
CONSTANTS
    Modes = {"seeded", "autonomous", "persistent"}
    Rounds = 1
    MaxCost = 1
    Bills = {0, 1}
    MaxSpent = 2
    MaxStarts = 2
    MaxErrors = 1
    Helpers = {h1, h2}
    MaxRetries = 2
    MaxManual = 1
    MaxDeaths = 1
    Supervisors = {s1, s2}
    EmbodiedModes = {"single", "persistent"}
    MaxExits = 1
    MaxAwaitErrors = 1
INVARIANT RecordFollowsTotal
INVARIANT OvershootIsOneRound
INVARIANT DetachedSound
PROPERTY AllEnds
CHECK_DEADLOCK FALSE
