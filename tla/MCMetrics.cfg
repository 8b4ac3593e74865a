SPECIFICATION FairSpec
CONSTANTS
    a = a
    b = b
    c = c
    d = d
    None = None
    Malformed = Malformed
    CardLists <- MCDecks
    DeckIds <- MCDecks
    Stamps <- MCStamps
    Scenarios <- MCScenarios
    CommitBatchSize = 2
INVARIANTS
    AcceptedMetricIsSound
    DerivedFilesAreOfOneReading
PROPERTIES
    MetricsConverge
CHECK_DEADLOCK FALSE
