\* One question and one job under two loads: leases that run out under two workers
\* beside a teacher and an edit, or a job, a teacher's own automatic run, an agent's
\* page and an edit that race for the tags.
SPECIFICATION LoadSpec
CONSTANTS
    Jobs = {1}
    Workers = {w1, w2}
    Threads = {h1}
    Questions = {q1}
    Editors = {teacher, agent}
    Agents = {agent}
    MaxAttempts = 2
    MaxVersion = 2
    MaxRevision = 2
    NoJob = none
SYMMETRY Symmetry
INVARIANTS
    TypeOK
    TagsAreCurrent
PROPERTIES
    LateRunsAreFenced
    PersonsDecide
