CONSTANTS
    None = None
    Strategy = "service"
    Catalog <- SmallCatalog
    Questions <- AllRequests
    Countries = {"DE", "FR", "XX"}
    Weights = {0, 20, 21, 100, 500, 501}
    Envelopes <- AllEnvelopes
SPECIFICATION OneSpec
CHECK_DEADLOCK FALSE
INVARIANTS
    ServesRequest
    UnsupportedIsHonest
    NamingChangesNothing
    ListedIsOrderable
    AdviceCovers
