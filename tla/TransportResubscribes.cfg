SPECIFICATION FairTransportSpec
CHECK_DEADLOCK FALSE
CONSTANTS
    Connections = 2
    Subscriptions = 1
    Op = {o1}
    NoCall = NoCall
    Connection <- MCConnection
    SubId <- MCSubId
    Call <- MCCall
INVARIANTS
    TransportInv
    Resubscribed
    NoOrphan
PROPERTIES
    CloseEndsSubscriptions
    PendingEnds
