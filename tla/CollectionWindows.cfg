SPECIFICATION Spec
CHECK_DEADLOCK FALSE
CONSTANTS
    Key = {k1, k2}
    Doc = {inA, out}
    NoDoc = NoDoc
    Untouched = Untouched
    Writer = {w1}
    Notifier = {n1}
    Listener = {sub}
    Selections <- MCSelections
    Workloads <- MCWindowLoads
    Sub = sub
    Matching <- MCMatching
    Rank <- MCRank
    Options <- MCWindows
    k1 = k1
    k2 = k2
    k3 = k3
    inA = inA
    inB = inB
    out = out
SYMMETRY MCSymmetry
INVARIANTS
    Converged
