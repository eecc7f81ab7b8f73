CONSTANTS
    None = None
    Strategy = "service"
    Catalog <- SmallCatalog
    Requests <- FewRequests
    Alphabet <- FewTexts
    Pieces <- FewPieces
    Decimal <- Digits
    Keys <- AllKeys
    KeyOf <- RequestKeys
    Answer <- Resolved
    Portos <- ResolvedPortos
    Refusals <- ResolvedRefusals
    TTL = 1
    MaxSize = 2
    Batch = 1
    Drift = 1
    MaxTime = 3
SPECIFICATION Spec
INVARIANTS
    SizeBounded
    NotOverAge
    SameWhateverTheOrder
PROPERTIES
    LeastRecentlyUsedGo
