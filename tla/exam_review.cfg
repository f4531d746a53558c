\* Two pages and two workers on one item, an item and its copy, or two items.
SPECIFICATION LoadSpec
CONSTANTS
    Packages = {1, 2}
    SnapshotCount = 2
    Sources = {draft, checked}
    Verified = {checked}
    Fields = {solution, diagnosis}
    AIFields = {solution, diagnosis}
    Copied = {solution}
    Texts = {t1, t2}
    Reference = t1
    Workers = {w1, w2}
    Tokens = {k1, k2}
    NoToken = none
    Pages = {g1, g2}
    NoPage = nobody
    MaxAttempts = 2
    MaxRevision = 4
SYMMETRY Symmetry
INVARIANTS
    TypeOK
    ReviewedAsSeen
PROPERTIES
    NothingIsLost
    LateRunsAreFenced
