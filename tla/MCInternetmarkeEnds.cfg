CONSTANTS
    c1 = c1
    c2 = c2
    c3 = c3
    k1 = k1
    Calls = {c1, c2, c3}
    NoKey = NoKey
    NoRequest = NoRequest
    NoReply = NoReply
    NoCart = NoCart
    KeyOf <- LastTwoKeyed
    Total <- ThreeTotals
    Retries <- NoneToTwoAttempts
    Funds = 3
    KeyScope = "global"
    Failures <- TwoFailures
SPECIFICATION FairSpec
CHECK_DEADLOCK FALSE
INVARIANTS
    MarkMeansPaid
PROPERTIES
    EveryCallEnds
