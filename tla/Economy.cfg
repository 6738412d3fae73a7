SPECIFICATION MCSpec
CONSTANTS
    Alice = Alice
    Bob = Bob
    Carol = Carol
    Wood = Wood
    Stone = Stone
    Chest = Chest
    Agents = {Alice, Bob, Carol}
    Materials = {Wood, Stone}
    Chests = {Chest}
    OfferTerms <- MCOfferTerms
    Loots <- MCLoots
    Stocks = {2}
    MaxOffers = 2
    MaxClaims = 3
    MaxThefts = 1
    MaxSeeds = 2
    MaxFaults = 1
INVARIANT GoodsConserved
INVARIANT BooksBalance
INVARIANT IdleIsDurable
PROPERTY ChestsMoveOnlyByTrade
SYMMETRY AgentSymmetry
