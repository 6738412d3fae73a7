SPECIFICATION MCSpec
CONSTANTS
    Agents = {Alpha, Rex}
    Engine = Engine
    BotReviewers = {b1}
    Policies = {"enforce", "shadow", "off"}
    BreakerThreshold = 2
    MaxRaised = 1
    Drivers = {"loop", "phase"}
    MinimumTurns = 2
    MaximumTurns = 3
    PhaseTurns = 3
    Attempts = 2
    MaxTalks = 1
INVARIANT TalkSound
PROPERTY TalksSettle
CHECK_DEADLOCK FALSE
