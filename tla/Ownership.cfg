SPECIFICATION Spec
CONSTANTS
    Alice = Alice
    Bob = Bob
    Camp = Camp
    Farm = Farm
    Mine = Mine
    Chest = Chest
    Nobody = Nobody
    Agents <- MCAgents
    Targets <- MCTargets
    Regions <- MCRegions
    Overlaps <- MCOverlaps
    Ref <- MCRef
    Coords = {0, 1, 2}
    Dims = {"overworld", "nether"}
    MaxClaims = 3
    MaxFaults = 2
INVARIANT IndexSound
INVARIANT LogRebuildsIndex
INVARIANT ReplayInventsNothing
INVARIANT OneOwnerPerColumn
PROPERTY ImplementsRegistry
