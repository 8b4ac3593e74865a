SPECIFICATION MCSpec
CONSTANTS
    i1 = i1
    i2 = i2
    i3 = i3
    own = own
    Nothing = Nothing
    Torn = Torn
    Closed = Closed
    NoName = NoName
    NoWindow = NoWindow
    CutWindow = CutWindow
    Plans <- MCPlans
    Directories <- MCDirectories
    RowsPerShard = 2
    MaxSessionFailures = 2
    MaxConsecutiveRejects = 2
    MaxCrashes = 2
    Items <- MCItems
    SiteAnswers <- MCAnswers
    MaxAttempts = 2
    MaxOutages = 2
    MaxDeaths = 1
    MaxCuts = 2
    Versions <- MCVersions
    MaxFileAttempts = 2
    MaxFileOutages = 2
    MaxFetchDeaths = 1
    MaxNoRooms = 1
    Windows <- MCWindows
    Pages <- MCPages
    MaxPageAttempts = 2
    MaxPageOutages = 2
    MaxSidecarCuts = 2
    MaxWalkDeaths = 2
    Parts = {"items", "crawl", "bulk", "export"}
INVARIANTS
    FaultsExplainTheData
    CursorBehindData
    FinishedCrawlCoversEveryId
PROPERTIES
    EveryItemArrives
    EveryCrawlFinishes
