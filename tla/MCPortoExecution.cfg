CONSTANTS
    dp = dp
    sp = sp
    old = old
    new = new
    t1 = t1
    t2 = t2
    k1 = k1
    k2 = k2
    Ids = {dp, sp}
    CatalogIds = {dp, sp}
    DefaultProvider = dp
    Rank <- Sorted
    Wires = {NoWires, old}
    NoWires = NoWires
    Open = Open
    MaxBound = 2
    Tasks = {t1, t2}
    Asks <- FewAsks
    Executions <- FewExecutions
    Aggregates = {dp}
    Executing = {dp, sp}
    NoKey = NoKey
    NoLogin = NoLogin
    NoMime = NoMime
    NoOrder = NoOrder
SPECIFICATION Spec
SYMMETRY Symmetry
INVARIANTS
    TypeOK
    CurrentCredentials
    OneResolver
    RefusedAsAWhole
    MarksAddUp
    KeyKept
    TraceIsAccepted
PROPERTIES
    OthersKept
