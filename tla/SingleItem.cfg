SPECIFICATION Spec
CHECK_DEADLOCK FALSE
CONSTANTS
    Key = {k1, k2}
    Doc = {first, second, out}
    NoDoc = NoDoc
    Untouched = Untouched
    Writer = {w1, w2}
    Notifier = {n1}
    Listener = {sub}
    Selections <- MCSelections
    Workloads <- MCWorkloads
    Sub = sub
    Matching <- MCMatching
    Position <- MCPosition
    Queries <- MCQueries
    first = first
    second = second
    out = out
SYMMETRY MCSymmetry
INVARIANTS
    SingleInv
    ShowsFirst
