SPECIFICATION Spec
CONSTANTS
    s1 = s1
    s2 = s2
    t = t
    Call = {s1, s2, t}
    Amount <- MCAmount
    Latest = {s1, s2}
    Balance = 3
    MaxRetries = 1
    MaxNonce = 5
    MaxFaults = 1
INVARIANTS
    NoNonceGap
    MinedOnceUnlessOvertaken
    RevertsOnlyIfRaced
    ResultTold
PROPERTIES
    ReturnsUnlessReplaced
CHECK_DEADLOCK FALSE
