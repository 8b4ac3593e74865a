SPECIFICATION FairSpec
CONSTANTS
    cards_a = cards_a
    cards_b = cards_b
    cards_c = cards_c
    None = None
    Malformed = Malformed
    CardLists <- MCCardLists
    DeckIds <- MCDeckIds
    Stamps <- MCStamps
    RawFiles <- MCRawFiles
    Games <- MCGames
    CommitBatchSize = 2
    MaxVersion = 1
    MaxIncidents = 1
    MaxTrainers = 2
INVARIANTS
    CallsAreWhole
    StampedSourceIsWhole
    OpenSnapshotHoldsEveryDeck
    TrainerHoldsOneDeckSet
PROPERTIES
    ChangeClearsStamp
    IngestionConverges
