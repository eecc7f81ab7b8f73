CONSTANTS
    c1 = c1
    c2 = c2
    c3 = c3
    k1 = k1
    Calls = {c1, c2}
    NoKey = NoKey
    NoRequest = NoRequest
    NoReply = NoReply
    NoCart = NoCart
    KeyOf <- OneKeyed
    Total <- TwoTotals
    Retries <- TwoAttempts
    Funds = 3
    KeyScope = "endpoint"
    Failures <- AllFailures
SPECIFICATION Spec
CHECK_DEADLOCK FALSE
INVARIANTS
    TypeOK
    UnkeyedChargedOnce
    RefusalIsFinal
    RetryAdviceIsHonest
    NoFundsMeansUnpaid
    MarkMeansPaid
PROPERTIES
    PurchaseKept
