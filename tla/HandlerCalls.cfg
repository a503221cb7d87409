SPECIFICATION FairHttpSpec
CHECK_DEADLOCK FALSE
CONSTANTS
    Connection = {c1, r1}
    SubId = {s1, s2}
    Call = {m1, m2, r1}
    NoCall = NoCall
    Request = {r1}
    MaxCalls = 2
    MaxCloses = 1
INVARIANTS
    HttpInv
    RunningIsFound
    ClosedStopsOpened
    ToldWhatHappened
PROPERTIES
    EveryCallAcked
    SendSettles
