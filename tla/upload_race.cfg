\* One upload of two parts and five requests: two must store the parts, the others
\* store, complete or cancel, racing each other, the clock and the collector.
SPECIFICATION Spec
CONSTANTS
    Uploads = {u1}
    Parts = {p1, p2}
    Requests = {r1, r2, r3, r4, r5}
    NoUpload = noUpload
    NoRequest = noRequest
    MaxPending = 2
SYMMETRY Symmetry
CHECK_DEADLOCK FALSE
INVARIANTS
    TypeOK
    DocumentsAreWhole
