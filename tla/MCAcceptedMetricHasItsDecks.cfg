SPECIFICATION Spec
CONSTANTS
    a = a
    b = b
    c = c
    d = d
    None = None
    Malformed = Malformed
    CardLists <- MCDecks
    DeckIds <- MCDecks
    Stamps <- MCStamps
    Scenarios <- MCLostBatches
    CommitBatchSize = 2
INVARIANTS
    AcceptedMetricHasItsDecks
CHECK_DEADLOCK FALSE
