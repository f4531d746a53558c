------------------------------ MODULE MCMarking ------------------------------
(***************************************************************************)
(* Marking for TLC: assessments, answer cards, scans, and the tags that    *)
(* are suggested for a question.  A behaviour exercises one of the four,   *)
(* named by "part" ("redo" is an assessment whose questions nobody edits); *)
(* the others rest in their initial state, since in these instances they   *)
(* share no rows.  ScanJobs is extended, the others are instances with     *)
(* variables of their own.                                                 *)
(***************************************************************************)
EXTENDS ScanJobs, Sequences, TLC

VARIABLE part

AllParts == {"assessment", "redo", "cards", "scans", "candidates"}

\* How many pages a scan has.
PagesOfScan == [c \in Contents |-> IF c = "one" THEN 1 ELSE 2]

-----------------------------------------------------------------------------
\* An assessment: its students, questions under one tag, answers of one letter.
CONSTANTS Takers, Questions, Options, Keys, Answers, Points, PartialPoints, Tag(_), NeedVerified,
          MaxImports, MaxRevisions, MaxAttempts, MaxEdits
VARIABLES bank, roster, paper, present, snapshot, response, wrong, tagged, marked,
          attempts, metrics, used
assessmentVars == <<bank, roster, paper, present, snapshot, response, wrong, tagged, marked,
                    attempts, metrics, used>>

OneTag(q) == "mechanics"

A == INSTANCE Assessments WITH
        Students <- Takers, exam <- paper

-----------------------------------------------------------------------------
\* Answer cards and decisions: a card without a student beside one import.
CONSTANTS Teachers, Students, Cards, Asked, RequestKeys, Missing, Given, Revisions, Verified,
          Original, CardLines, MaxDecisions, MaxCorrections, MaxMoves, MaxPreviews
VARIABLES grading, status, answers, content, pending, batch, mistakes, publications, decisions,
          shown, correction, previews, card, assign
cardsVars == <<grading, status, answers, content, pending, batch, mistakes, publications,
               decisions, shown, correction, previews, card, assign>>

\* One question; the line of an import, a score whose maximum is not known and no
\* answer, and what the card says.
LineWith(answer, supplied, score) ==
    [answer |-> answer, supplied |-> supplied, score |-> score, vision |-> FALSE]
OneGiven == {LineWith("", "none", "no maximum")}
OneLine  == [c \in Cards |-> [q \in Asked |-> LineWith("other", "none", "none")]]

C == INSTANCE AnswerCards WITH
        Questions <- Asked, FreeQuestions <- Asked,
        response <- answers, wrong <- mistakes, page <- shown

-----------------------------------------------------------------------------
\* Suggestions: two requests for one question, a model and the rules.
CONSTANTS Labels, Models, NoModel, Found, Estimate, Costs, ModelLimit, RuleLimit,
          CallLimit, PerCall, MonthlyBudget, MaxText, MaxSaved, MaxCopies
VARIABLES text, enabledTags, config, candidates, counted, spent, run
candidateVars == <<text, enabledTags, config, candidates, counted, spent, run>>

\* The tags a version mentions, and what asking about it costs.
FoundIn     == <<{1}, {}>>
EstimateFor == <<1, 2>>

T == INSTANCE CandidateTags WITH
        Threads <- Teachers, Tags <- Labels, DailyLimit <- CallLimit, today <- counted

-----------------------------------------------------------------------------
ASSUME MarkingAssumption ==
    /\ A!AssessmentAssumption /\ C!WorkflowAssumption /\ C!CardAssumption
    /\ T!CandidateAssumption

-----------------------------------------------------------------------------
\* Whether the student is in the class is decided for assessments alone.
MarkingInit ==
    /\ part \in AllParts
    /\ A!Init /\ C!CardInit /\ ScanInit /\ T!CandidateInit
    /\ part \in {"assessment", "redo"} \/ roster = {}

\* Two redo attempts, or one beside an edit of a question in the bank.
Assessing ==
    /\ part \in {"assessment", "redo"} /\ A!Next /\ UNCHANGED <<part, cardsVars, scanVars, candidateVars>>
    /\ part = "assessment" => Len(attempts') < MaxAttempts
    /\ part = "redo" => used'.edits = 0

Deciding ==
    part = "cards" /\ C!CardNext /\ UNCHANGED <<part, assessmentVars, scanVars, candidateVars>>

Scanning ==
    part = "scans" /\ ScanNext /\ UNCHANGED <<part, assessmentVars, cardsVars, candidateVars>>

Suggesting ==
    /\ part = "candidates" /\ T!CandidateNext
    /\ UNCHANGED <<part, assessmentVars, cardsVars, scanVars>>

MarkingNext == Assessing \/ Deciding \/ Scanning \/ Suggesting

MarkingSpec ==
    MarkingInit /\ [][MarkingNext]_<<part, assessmentVars, cardsVars, scanVars, candidateVars>>

\* Teachers are interchangeable.
Symmetry == Permutations(Teachers)

-----------------------------------------------------------------------------
\* The variables of the component at work are what its tables can hold.
MarkingTypeOK ==
    /\ part \in AllParts
    /\ part \in {"assessment", "redo"} => A!TypeOK
    /\ part = "cards" => C!RWTypeOK /\ C!CardTypeOK
    /\ part = "scans" => ScanTypeOK
    /\ part = "candidates" => T!CandidateTypeOK

\* Results agree with what they are computed from: the mastery rows with the
\* published scores and reviewed redo attempts, the list of wrong questions with the
\* answers graded wrong, a publication with a complete exam, a student's answers with
\* the decisions published, and suggested tags with the question they were made from,
\* within the budget (Assessments, ResponseWorkflow, CandidateTags).
ResultsAgree ==
    /\ part \in {"assessment", "redo"} =>
          A!MasteryAgrees /\ A!WrongListAgrees /\ A!PublishedIsComplete
    /\ part = "cards" => C!PublicationAgrees
    /\ part = "candidates" => T!CandidatesFit /\ T!LimitsNearlyHold

\* A teacher's decision on an answer, imported, by hand or from a card, replaces only
\* what the teacher's page or preview was built from, and no decision touches the
\* first answers of a published exam (AnswerCards, ResponseWorkflow).
DecidedAsSeen == C!DecidedAsSeen /\ C!FirstAnswersStay
=============================================================================
