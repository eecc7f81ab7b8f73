CONSTANTS
    c1 = c1
    c2 = c2
    c3 = c3
    k1 = k1
    Calls = {c1, c2}
    NoKey = NoKey
    NoRequest = NoRequest
    NoReply = NoReply
    NoCart = NoCart
    KeyOf <- BothKeyed
    Total <- SameTotal
    Retries <- TwoAttempts
    Funds = 4
    KeyScope = "endpoint"
    Failures <- TwoFailures
SPECIFICATION Spec
CHECK_DEADLOCK FALSE
INVARIANTS
    KeyChargedOnce
PROPERTIES
    PurchaseKept
