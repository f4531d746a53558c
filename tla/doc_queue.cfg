\* Two workers and two attempts under two loads: one document with two retries
\* (every order of leases, recoveries, cancels and retries on a row), or two
\* documents that compete for the one conversion slot.
SPECIFICATION LoadSpec
CONSTANTS
    Tasks = {1, 2}
    Workers = {w1, w2}
    RetryKeys = {k1, k2}
    MaxAttempts = 2
    NoTask = none
SYMMETRY Symmetry
INVARIANTS
    TypeOK
    ClaimsAreSound
    ResultIsCurrent
PROPERTIES
    LiveLeaseIsKept
    KeepsPromise
