\* Does a published question keep the files of its images?
SPECIFICATION StoreSpec
CONSTANTS
    Tasks = {"t1", "t2"}
    Workers = {"w1", "w2"}
    Assets = {"x", "y"}
    Visible = {"x"}
    MaxRuns = 2
CHECK_DEADLOCK FALSE
INVARIANTS
    ContentHasFiles
