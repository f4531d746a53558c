\* An assessment of two questions, or an unnamed answer card beside an import, a correction
\* and a publication, or two scans read by two worker processes within a budget, or two
\* requests for suggested tags.
SPECIFICATION MarkingSpec
CONSTANTS
    Takers = {"student"}
    Questions = {"q1", "q2"}
    Options = {"a", "b"}
    Keys = {{"a"}}
    Answers = {{}, {"a"}}
    Points = 1
    PartialPoints = 0
    Tag <- OneTag
    NeedVerified = 2
    MaxImports = 1
    MaxRevisions = 1
    MaxAttempts = 2
    MaxEdits = 1
    Teachers = {t1, t2}
    Students = {"s1", "s2"}
    Cards = {"card"}
    Asked = {"q"}
    RequestKeys = {"key"}
    Missing = {"absent"}
    Given <- OneGiven
    Revisions = {0, 1}
    Verified = {0, 1}
    Original = 0
    CardLines <- OneLine
    MaxDecisions = 2
    MaxCorrections = 1
    MaxMoves = 1
    MaxPreviews = 2
    Labels = {1}
    Models = {"model"}
    NoModel = "rules"
    Found <- FoundIn
    Estimate <- EstimateFor
    Costs = {1}
    ModelLimit = 3
    RuleLimit = 5
    CallLimit = 1
    PerCall = 2
    MonthlyBudget = 2
    MaxText = 2
    MaxSaved = 1
    MaxCopies = 1
    Jobs = {"j1", "j2"}
    Contents = {"one", "two"}
    Workers = {"w1", "w2"}
    PageCount <- PagesOfScan
    DailyLimit = 4
    MaxRestarts = 3
SYMMETRY Symmetry
CHECK_DEADLOCK FALSE
INVARIANTS
    MarkingTypeOK
    
    CallsAreBounded
PROPERTIES
    DecidedAsSeen
