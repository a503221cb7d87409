SPECIFICATION HandlerSpec
CHECK_DEADLOCK FALSE
CONSTANTS
    Connection = {c1}
    SubId = {s1, s2}
    Call = {m1}
    NoCall = NoCall
INVARIANTS
    CloseStopsEvery
