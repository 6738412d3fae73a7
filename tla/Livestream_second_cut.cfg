SPECIFICATION StreamSpec
CONSTANTS
    Setups = {"cut and restore"}
    MaxUpsets = 0
INVARIANT KilledIsOffAir
