SPECIFICATION RelayFairSpec
CHECK_DEADLOCK FALSE
CONSTANTS
    Key = {k1}
    Doc = {shown}
    NoDoc = NoDoc
    Untouched = Untouched
    Writer = {}
    Notifier = {n1}
    Listener = {sub}
    Selections <- MCSelections
    Workloads <- MCWorkloads
    Sub = sub
    Matching <- MCMatching
    Rank <- MCRank
    Options <- MCOptions
    shown = shown
INVARIANTS
    RelayInv
PROPERTIES
    WritesReachClient
    QueueDrains
