\* A paper of one candidate under two loads: three clients publish it, two split,
\* merge, defer and delete it.
SPECIFICATION LoadSpec
CONSTANTS
    i1 = i1
    i2 = i2
    Items = {i1, i2, i3, i4}
    FirstOrder <- OneItem
    Texts = {t0, t1}
    Text0 = t0
    Requests = {r1, r2}
    Keys = {k1, k2, k3}
    NoKey = noKey
    Ops <- AllOps
    Loads <- OneItemLoads
    MaxRev = 2
SYMMETRY Symmetry
CHECK_DEADLOCK FALSE
INVARIANTS
    TypeOK
    AppliedOnce
    RowsAgree
PROPERTIES
    PublishedAsSeen
    RowsChangeAsSeen
