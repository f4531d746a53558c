\* Two workers that may crash and be outrun by their leases, with two tag jobs, one job
\* and an edit, or one job and a review package.
SPECIFICATION LoadSpec
CONSTANTS
    Workers = {w1, w2}
    MaxAttempts = 2
    Jobs = {1, 2}
    Questions = {q1}
    MaxVersion = 2
    NoJob = none
    Packages = {1}
    SnapshotCount = 1
    Sources = {checked}
    Verified = {checked}
    Fields = {solution}
    AIFields = {solution}
    Copied = {solution}
    Texts = {text}
    Reference = text
    Tokens = {k1, k2}
    NoToken = none
    NoPage = nobody
    MaxRevision = 2
PROPERTIES
    JobsEnd
    ItemsEnd
