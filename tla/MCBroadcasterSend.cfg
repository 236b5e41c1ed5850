SPECIFICATION SendFairSpec
CONSTANTS
    t = t
    u = u
    h = h
    Tx = {t, u}
    Handler = {h}
    None = None
    LastPublish = 0
    LastRound = 2
    MaxAnswers = 1
INVARIANTS
    OwnAnswerUnlessMixed
PROPERTIES
    SendReturns
CHECK_DEADLOCK FALSE
