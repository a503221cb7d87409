SPECIFICATION Spec
CHECK_DEADLOCK FALSE
CONSTANTS
    Key = {k1}
    Doc = {inA, inB, out}
    NoDoc = NoDoc
    Untouched = Untouched
    Writer = {w1, w2}
    Notifier = {n1}
    Listener = {sub, other}
    Selections <- MCSelections
    Workloads <- MCLocal
    Sub = sub
    Matching <- MCMatching
    Rank <- MCRank
    Options <- MCUnwindowed
    k1 = k1
    k2 = k2
    k3 = k3
    inA = inA
    inB = inB
    out = out
SYMMETRY MCKeySymmetry
INVARIANTS
    TypeOK
    Converged
    HeldKeys
    EmissionsFresh
PROPERTIES
    SilentOnceStopped
    TotalFollowsRows
    NotOvertaken
