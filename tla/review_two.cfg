\* A paper of two candidates under four loads: confirmed as a whole and published
\* while it is reordered or answered, or its source blocks moved between candidates
\* that others edit and merge, or reorder and merge.
SPECIFICATION LoadSpec
CONSTANTS
    i1 = i1
    i2 = i2
    Items = {i1, i2, i3}
    FirstOrder <- TwoItems
    Texts = {t0}
    Text0 = t0
    Requests = {r1, r2}
    Keys = {k1, k2}
    NoKey = noKey
    Ops <- AllOps
    Loads <- TwoItemLoads
    MaxRev = 2
SYMMETRY Symmetry
CHECK_DEADLOCK FALSE
INVARIANTS
    PublishedReviewed
    NoBlockLost
