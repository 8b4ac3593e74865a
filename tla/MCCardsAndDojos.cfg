SPECIFICATION MCSpec
CONSTANTS
    apple = apple
    berry = berry
    cherry = cherry
    damson = damson
    orchard = orchard
    garden = garden
    Stranger = Stranger
    alice = alice
    bob = bob
    carol = carol
    Nobody = Nobody
    NoCard = NoCard
    None = None
    OffLadder = OffLadder
    FieldsOf <- MCFieldsOf
    GameOf <- MCGameOf
    TierOf <- MCTierOf
    CostOf <- MCCostOf
    BaseSupply <- MCBaseSupply
    Games <- MCGames
    Setups <- MCSetups
    Catalogues <- MCCatalogues
    MaxChanges = 2
    MaxInterruptions = 2
    ROWS_PER_CHUNK = 2
INVARIANTS
    BinderMirrorsCatalogue
    RowsKeepTheirCards
    ExamplesGiveNothingAway
    ModsKeepLabelsTrue
    PassDealsEachRowOnce
    ContrastivePairsAreSound
    DecksDriftByTheUnseen
    LabelsAreOfTheirTurn
CHECK_DEADLOCK FALSE
