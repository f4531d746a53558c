\* Two documents, one worker process that may crash, one retry.
SPECIFICATION FairSpec
CONSTANTS
    Tasks = {1, 2}
    Workers = {w1}
    RetryKeys = {}
    MaxAttempts = 2
    NoTask = none
PROPERTIES
    RunningEnds
    QueuedIsServed
