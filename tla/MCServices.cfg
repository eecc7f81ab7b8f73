CONSTANTS
    Mapping <- SixFiles
    Unmapped = {"extra.json"}
    Graphs <- SixGraphs
    Relaxed <- RelaxedPaths
    MaxLoads = 2
    Answers <- EightAnswers
    MaxRetries = 2
    Checks = {c1, c2}
    Lifetimes = {1, 3}
    Lag = 1
    MaxTokens = 2
    MaxTime = 4
    Rows <- ElevenRows
    StatusOf <- Codes
    MaxRows = 4
    Jurisdictions = {"EU", "CH", "UA"}
    Regions = {"r1", "r2"}
    LegalRows <- Laws
    RoutingRows <- Routes
    LastDay = 4
    Manifests <- AllManifests
    WireLists <- AllWireLists
    Adapters = {"internetmarke"}
SPECIFICATION ServicesSpec
CHECK_DEADLOCK FALSE
INVARIANTS
    OldOnlyIfOvertaken
    EveryFileIsHeld
    WaysAgree
    SentWithALiveToken
    BlockIsExact
    CapabilitiesAreHonest
PROPERTIES
    EventsStay
    ChangeIsDated
