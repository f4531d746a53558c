\* Two pages of one student or teacher beside each other: practice over days, a diagnosis
\* card, a reasoning card, the job and the releases of the learning graph, sessions that
\* count for a region; and tags while the default taxonomy is installed.
SPECIFICATION LearningSpec
CONSTANTS
    Workers = {"w1", "w2"}
    Objectives = {"o1", "o2"}
    Pages = {p1, p2}
    MaxClaims = 3
    MaxConfigs = 1
    MaxReleases = 3
    Parts = {"x", "y"}
    Personal = {"y"}
    Choice = {"x"}
    Tabs = {"tab"}
    Jumps = {1, 3, 7}
    MaxDay = 12
    SchoolDays = {1, 2, 5, 8, 12}
    FewDays = 4
    MaxHelped = 1
    MaxEvents = 4
    Acts <- TwoActs
    CardSteps <- ThreeSteps
    MaxClock = 3
    Hints = 1
    Reports = {"execution", "time"}
    OldReports = {"unsure", "execution"}
    Students = {"student"}
    Goals = {"g", "h"}
    Papers = {"paper"}
    Tasks = {"q1", "q1part", "q2"}
    SetBy <- PaperOf
    Family <- WholeOf
    ActStages <- OneAction
    Results <- AllWrong
    FirstBindings <- OneBinding
    MaxSessions = 2
    MaxAnswers = 3
    MaxReviews = 1
    Defaults = {"c1", "d1"}
    Legacy = {"k1"}
    ReplacedBy <- Renamed
    Manifests <- Files
    Questions = {"q"}
    Forms = {"form"}
    Requests = {"request"}
    Versions = {"v0", "v1"}
    DefaultVersion = "v0"
    Own = {"x1", "x2", "a1"}
    Abilities = {"a1"}
    Literacies = {"d1", "x2"}
    TagLimit = 2
    SentTags = {"k1"}
    MaxOwn = 1
    MaxSaves = 2
SYMMETRY Symmetry
CHECK_DEADLOCK FALSE
INVARIANTS
    LearningTypeOK
    DiagnosisIsHonest
    GraphIsSound
PROPERTIES
    MasteryIsEarned
    DecisionsStay
