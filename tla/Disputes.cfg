SPECIFICATION Spec
CONSTANTS
    Ann = Ann
    Ben = Ben
    Raid = Raid
    Prowl = Prowl
    Agents = {Ann, Ben}
    Plots = {Farm}
    Attempts = {Raid, Prowl}
    EmptyHanded = {Prowl}
    ThiefOf <- MCThiefOf
    Treaties = {Pact}
    MaxClaims = 2
    MaxDisputes = 1
    MaxOffers = 2
    MaxEvidence = 2
    Plaintiffs = {Ann}
    DisputeTypes = {"territorial", "theft", "treaty_violation"}
    FragileLogs = {"con"}
    MaxLosses = 1
    MaxFaults = 1
INVARIANT VerdictsSound
INVARIANT IdleIsDurable
INVARIANT JudgementCarriedOut
PROPERTY VerdictsStand
CHECK_DEADLOCK FALSE
