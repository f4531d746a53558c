----------------------------- MODULE MCLearning -----------------------------
(***************************************************************************)
(* Learning for TLC: practice, diagnosis with its two kinds of card, the   *)
(* learning graph with its job queue, the regions counted from diagnosis   *)
(* sessions, and the tags.  A behaviour exercises one of them, named by    *)
(* "part"; the others rest in their initial state, since in these          *)
(* instances they share no rows.  LearningGraph is extended, the others    *)
(* are instances with variables of their own.                              *)
(***************************************************************************)
EXTENDS LearningGraph, Sequences, TLC

VARIABLE part

AllParts == {"practice", "diagnosis", "reasoning", "graph", "regions", "tags"}

-----------------------------------------------------------------------------
\* Practice: a part of the exam that the program checks and one of a trial.
CONSTANTS Parts, Personal, Choice, Tabs, Jumps, MaxDay, SchoolDays, FewDays, MaxHelped, MaxEvents
VARIABLES day, log, book, mastered, viewed, assisted, told, tab, flips
practiceVars == <<day, log, book, mastered, viewed, assisted, told, tab, flips>>

P == INSTANCE PracticeLoop WITH today <- day

-----------------------------------------------------------------------------
\* Diagnosis: a card of two acts, the second resting on the first, and one of
\* three reasoning steps.
CONSTANTS Acts, CardSteps, MaxClock, Hints, Reports, OldReports
VARIABLES session, events, clock, page, dialogue, turns, screen
diagVars == <<session, events, clock, page>>
reasonVars == <<dialogue, turns, screen>>

TwoActs == <<[kind |-> "model", pre |-> {}], [kind |-> "formula", pre |-> {1}]>>

ThreeSteps == <<"condition", "model", "execution">>

D == INSTANCE Diagnosis

R == INSTANCE ReasoningDiagnosis WITH
        Stages <- CardSteps, Reports <- OldReports,
        session <- dialogue, events <- turns, page <- screen

-----------------------------------------------------------------------------
\* Regions: a paper with a question and its part, and a question practised alone.
CONSTANTS Students, Goals, Papers, Tasks, SetBy, Family, ActStages, Results, FirstBindings,
          MaxSessions, MaxAnswers, MaxReviews
VARIABLES bindings, sessions, published, present, reviews
regionVars == <<bindings, sessions, published, present, reviews>>

PaperOf == [t \in Tasks |-> IF t = "q2" THEN "none" ELSE "paper"]
WholeOf == [t \in Tasks |-> IF t = "q1part" THEN "q1" ELSE t]
AllWrong == [x \in Students \X Tasks |-> "wrong"]
OneAction == <<"model">>
OneBinding == <<[goal |-> "g", verifies |-> "g", approved |-> TRUE]>>

L == INSTANCE LearningRegions WITH
        Stages <- ActStages, MaxEvents <- MaxAnswers

-----------------------------------------------------------------------------
\* Tags: a default of two levels that replaces a tag of the demonstration data.
CONSTANTS Defaults, Legacy, ReplacedBy, Manifests, Questions, Forms, Requests, Versions, DefaultVersion,
          Own, Abilities, Literacies, TagLimit, SentTags, MaxOwn, MaxSaves
VARIABLES version, tag, label, revision, form, request, merged, late
tagVars == <<version, tag, label, revision, form, request, merged, late>>

Row(parent, level) == [parent |-> parent, level |-> level]
Flat == [c1 |-> Row("none", 1), d1 |-> Row("none", 1)]
Broken == [c1 |-> Row("k1", 3), d1 |-> Row("none", 1)]
Files == {Flat, Broken}
Renamed == [k1 |-> "c1"]

T == INSTANCE Taxonomy WITH
        Pages <- Forms, page <- form

ASSUME LearningAssumption ==
    /\ GraphAssumption /\ P!PracticeAssumption /\ D!DiagnosisAssumption
    /\ R!ReasoningAssumption /\ L!RegionAssumption /\ T!TaxonomyAssumption

-----------------------------------------------------------------------------
LearningInit ==
    /\ part \in AllParts
    /\ P!PracticeInit /\ D!DiagInit /\ R!ReasoningInit /\ GraphInit
    /\ L!RegionInit /\ T!TaxonomyInit

\* Both parts are practised for a few days, one of them alone for longer, on days
\* that are early, just in time or late for the spacing; MaxHelped of them have a
\* diagnosis that helps.
Practising ==
    /\ part = "practice" /\ P!PracticeNext
    /\ day' \in SchoolDays /\ (book' = Parts => day' <= FewDays)
    /\ Cardinality({p \in Parts : assisted'[p] # P!NoDay}) <= MaxHelped
    /\ UNCHANGED <<part, diagVars, reasonVars, lgVars, regionVars, tagVars>>

Diagnosing ==
    /\ part = "diagnosis" /\ D!DiagNext
    /\ UNCHANGED <<part, practiceVars, reasonVars, lgVars, regionVars, tagVars>>

Reasoning ==
    /\ part = "reasoning" /\ R!ReasoningNext
    /\ UNCHANGED <<part, practiceVars, diagVars, lgVars, regionVars, tagVars>>

Growing ==
    /\ part = "graph" /\ GraphNext
    /\ UNCHANGED <<part, practiceVars, diagVars, reasonVars, regionVars, tagVars>>

Observing ==
    /\ part = "regions" /\ L!RegionNext
    /\ UNCHANGED <<part, practiceVars, diagVars, reasonVars, lgVars, tagVars>>

\* Teachers add MaxOwn tags at most; they confirm SentTags without a page while they
\* have added none.
Naming ==
    /\ part = "tags" /\ T!TaxonomyNext(MaxSaves)
    /\ Cardinality({t \in Own : tag'[t].status # "absent"}) <= MaxOwn
    /\ \A r \in Requests : request'[r].checked > 0 =>
          request'[r].tags \subseteq SentTags /\ \A t \in Own : tag'[t].status = "absent"
    /\ UNCHANGED <<part, practiceVars, diagVars, reasonVars, lgVars, regionVars>>

LearningNext == Practising \/ Diagnosing \/ Reasoning \/ Growing \/ Observing \/ Naming

LearningSpec ==
    LearningInit /\ [][LearningNext]_<<part, practiceVars, diagVars, reasonVars, lgVars,
                                       regionVars, tagVars>>

\* Pages are interchangeable.
Symmetry == Permutations(Pages)

-----------------------------------------------------------------------------
\* The variables of the component at work are what its tables can hold, which for the
\* tags includes that they form a forest and that one version at most is in use.
LearningTypeOK ==
    /\ part \in AllParts
    /\ part = "practice" => P!PracticeTypeOK
    /\ part = "diagnosis" => D!DiagTypeOK
    /\ part = "reasoning" => R!ReasoningTypeOK
    /\ part = "graph" => GraphTypeOK
    /\ part = "regions" => L!RegionTypeOK
    /\ part = "tags" => T!TaxonomyTypeOK /\ T!OneForest

\* What a student is shown to have learned was earned and counted once: a part is
\* consolidated by spaced right answers alone, on days not marked as helping, where a
\* diagnosis that helps for the first time always leaves its mark, and a page of answers
\* is stored whole (PracticeLoop); a goal is proven by checks answered alone, and a class
\* is shown the work set for it alone (LearningRegions).
EarnedNow ==
    /\ part = "practice" => P!ConsolidatedMeansSpaced /\ P!StoredWhole
    /\ part = "regions" => L!ProvenAlone /\ L!ClassSeesSchoolWork

MasteryIsEarned == []EarnedNow /\ P!FirstHelpCounts

\* A diagnosis concludes from what the student did alone and on the question shown:
\* help leaves its mark, recollections come before anything is revealed, a second try
\* follows a hint, and no check made is lost or asked twice (Diagnosis,
\* ReasoningDiagnosis).
DiagnosisIsHonest ==
    /\ part = "diagnosis" =>
          D!AnsweredAsShown /\ D!HelpIsRemembered /\ D!ConclusionIsIndependent
    /\ part = "reasoning" => R!RecallUninfluenced /\ R!RetriesFollowHints /\ R!ChecksAreKept

\* What teachers decided keeps its effect: an installation of the default taxonomy
\* keeps what a question is about, and a tag it replaced returns only by a confirmation
\* it overtook (Taxonomy), what was decided of the graph is changed by a page that shows
\* it as it is (LearningGraph), and a review changes no earlier session (LearningRegions).
DecisionsStay ==
    []T!ReplacedReturnsLate /\ T!MeaningSurvives /\ ReviewIsKept /\ L!ReviewsLookForward
=============================================================================
