SPECIFICATION Spec
CONSTANTS
    Ann = Ann
    Ben = Ben
    Cyd = Cyd
    Dee = Dee
    Agents = {Ann, Ben, Cyd, Dee}
    FactionOrder <- TwoFactions
    Seeds <- ThreeToOne
    TermSets <- AnyTerms
    MaxTreaties = 2
    MaxWars = 1
    MaxDefections = 1
    MaxFaults = 1
INVARIANT FactionsSound
INVARIANT ActiveHasQuorum
INVARIANT LogsRebuildLedgers
PROPERTY NothingComesBack
SYMMETRY EmberSymmetry
