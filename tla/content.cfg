\* Two tasks that share an image under two workers and the collector; papers of four
\* blocks; two teachers and three runs of a parser; a supervised paper of two questions
\* with a death or an edit; a server that is replaced and dies in a migration; and a
\* backup made while one upload and one exam are worked on.
SPECIFICATION ContentSpec
CONSTANTS
    Tasks = {"t1", "t2"}
    Workers = {w1, w2}
    Assets = {"x", "y"}
    Visible = {"x"}
    MaxRuns = 2
    Teachers = {"a", "b"}
    Papers <- FourBlocks
    Outputs <- ParserOutputs
    ByText <- BuiltIn
    Fallback = TRUE
    MaxParses = 3
    MaxSaves = 2
    Items = {"i1", "i2"}
    Sampled = {"i1"}
    Figured = {"i1"}
    Choices = {"c1"}
    MaxTroubles = 1
    Programs = {"server", "restarted"}
    Servers = {"server", "restarted"}
    MaxStarts = 2
    Ids = {1}
SYMMETRY Symmetry
CHECK_DEADLOCK FALSE
INVARIANTS
    ContentTypeOK
    ImagesAreKept
    QuestionsAreWhole
    RestartsAreHarmless
PROPERTIES
    PublishedAsReviewed
