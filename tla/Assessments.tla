----------------------------- MODULE Assessments -----------------------------
(***************************************************************************)
(* One exam of the score-based workflow of repository.py: it is created    *)
(* from a paper, freezes the questions, takes recognised answers, is       *)
(* graded, published and revised; students redo what they got wrong and    *)
(* teachers review it; every student's mastery is recomputed from scratch  *)
(* by the handlers that change a published score.                          *)
(*                                                                         *)
(* Each handler is one SQLite transaction, so each is one action.  An      *)
(* answer is the set of options it ticks and a key the set that is right.  *)
(***************************************************************************)
EXTENDS Naturals, FiniteSets, Sequences, FiniteSetsExt, SequencesExt

CONSTANTS Students,      \* students of the class
          Questions,     \* questions of the paper
          Options,       \* options a question offers
          Keys,          \* right answers a question may be given
          Answers,       \* answers a student may give
          Points,        \* points of every question
          PartialPoints, \* points of an incomplete but correct choice
          Tag(_),        \* the tag every question carries
          NeedVerified,  \* verified redo successes that make a question learned
          MaxImports,    \* bound: answer imports
          MaxRevisions,  \* bound: grading revisions
          MaxAttempts,   \* bound: redo attempts
          MaxEdits       \* bound: edits of a question in the bank

AssessmentAssumption ==
    /\ IsFiniteSet(Students) /\ IsFiniteSet(Questions)
    /\ Keys \subseteq SUBSET Options /\ Answers \subseteq SUBSET Options
    /\ Points \in Nat \ {0} /\ PartialPoints \in 0..Points
    /\ NeedVerified \in Nat \ {0}
    /\ MaxImports \in Nat /\ MaxRevisions \in Nat /\ MaxEdits \in Nat

VARIABLES bank,      \* question -> its key now and its version
          roster,    \* active students of the class
          exam,      \* status of the exam
          present,   \* participants whose status is 'present'
          snapshot,  \* question -> what the exam froze of it
          response,  \* <<student, question>> -> the answer row, if any
          wrong,     \* <<student, question>> -> status of the wrong question, if any
          tagged,    \* wrong questions that carry an error reason
          marked,    \* wrong questions the student gave a mastery mark
          attempts,  \* redo attempts in order of submission
          metrics,   \* <<student, tag>> -> mastery metric row, if any
          used       \* bounds used up: imports, revisions and edits

vars == <<bank, roster, exam, present, snapshot, response, wrong, tagged,
          marked, attempts, metrics, used>>

Pairs    == Students \X Questions
Tags     == {Tag(q) : q \in Questions}
NoScore  == Points + 1
NoRow    == [answer |-> {}, review |-> "none", confirmed |-> NoScore,
             score |-> NoScore, max |-> Points, status |-> "none"]
NoMetric == [attempts |-> 0, correct |-> 0, redos |-> 0, redone |-> 0, state |-> "none"]
NoSnapshot == [key |-> {}, version |-> 0]

Answered   == {p \in Pairs : response[p] # NoRow}
Unresolved == {p \in Pairs : response[p].review = "required"}

----------------------------------------------------------------------------
(* Grading (grading.py) and mastery (mastery.py).                          *)

\* The score of an answer: all points for exactly the right options, the
\* partial points for some of them and none that is wrong.
GradeAnswer(key, answer) ==
    IF key # {} /\ answer = key THEN Points
    ELSE IF answer # {} /\ answer \subseteq key /\ answer # key THEN PartialPoints
    ELSE 0

\* The state of a tag from the share of correct attempts.
ClassifyMastery(eligible, correct) ==
    IF eligible = 0 THEN "unpractised"
    ELSE LET percent == 100 * correct IN
         IF percent < 30 * eligible THEN "not mastered"
         ELSE IF percent < 60 * eligible THEN "difficult"
         ELSE IF percent < 80 * eligible THEN "rough"
         ELSE "mastered"

\* What a student's mastery rows are computed from: published scores and
\* reviewed redo attempts, both counted under the tag the exam froze.
MetricsOf(st, status, rows, redos) ==
    [t \in Tags |->
        LET scored == {q \in Questions : /\ status = "published" /\ Tag(q) = t
                                         /\ rows[<<st, q>>].score # NoScore}
            right  == {q \in scored : rows[<<st, q>>].max > 0
                                      /\ rows[<<st, q>>].score >= rows[<<st, q>>].max}
            tried  == {i \in DOMAIN redos : /\ status = "published"
                                            /\ redos[i].of[1] = st /\ Tag(redos[i].of[2]) = t
                                            /\ redos[i].status \in {"reviewed", "done"}}
            done   == {i \in tried : redos[i].max > 0 /\ redos[i].score >= redos[i].max}
            total  == Cardinality(scored) + Cardinality(tried)
        IN  IF total = 0 THEN NoMetric
            ELSE [attempts |-> Cardinality(scored), correct |-> Cardinality(right),
                  redos |-> Cardinality(tried), redone |-> Cardinality(done),
                  state |-> ClassifyMastery(total, Cardinality(right) + Cardinality(done))]]

\* The rows of one student are deleted and written again.
RecalculateStudent(st, status, rows, redos) ==
    metrics' = [m \in DOMAIN metrics |->
                   IF m[1] = st THEN MetricsOf(st, status, rows, redos)[m[2]] ELSE metrics[m]]

\* Mutated form: only the students listed as present are recomputed again,
\* and only when the exam was not published before.
RefreshFirstTimeOnly(status, rows, redos) ==
    IF exam = "published" THEN UNCHANGED metrics
    ELSE metrics' = [m \in DOMAIN metrics |-> MetricsOf(m[1], status, rows, redos)[m[2]]]

\* Every participant's rows are computed again.
RefreshAssessment(status, rows, redos) ==
    metrics' = [m \in DOMAIN metrics |-> MetricsOf(m[1], status, rows, redos)[m[2]]]

----------------------------------------------------------------------------
(* The paper, the exam and its frozen questions.                           *)

\* A question in the bank is edited; no exam reads it again.
UpdateQuestion(q, key) ==
    /\ used.edits < MaxEdits
    /\ bank' = [bank EXCEPT ![q] = [key |-> key, version |-> @.version + 1]]
    /\ used' = [used EXCEPT !.edits = @ + 1]
    /\ UNCHANGED <<roster, exam, present, snapshot, response, wrong, tagged,
                   marked, attempts, metrics>>

\* What the exam keeps of a question: the key and the version it has now.
FrozenQuestion(q) == [key |-> bank[q].key, version |-> bank[q].version]

\* The exam is created: every active student of the class takes part and
\* every question of the paper is frozen.
CreateAssessment ==
    /\ exam = "none"
    /\ exam' = "created"
    /\ present' = roster
    /\ snapshot' = [q \in Questions |-> FrozenQuestion(q)]
    /\ UNCHANGED <<bank, roster, response, wrong, tagged, marked, attempts, metrics, used>>

----------------------------------------------------------------------------
(* Answers.                                                                *)

\* Recognised answers replace what is stored of the answer, and keep the
\* score and the confirmed score of an earlier grading.  A low confidence or
\* a conflict between recognisers asks for a review.
Recognised(row, answer, doubtful) ==
    [row EXCEPT !.answer = answer,
                !.review = IF doubtful THEN "required" ELSE "not required",
                !.status = IF row = NoRow THEN "pending" ELSE @]

ImportOcrResponses(given, doubtful) ==
    /\ used.imports < MaxImports
    /\ exam \notin {"none", "published"}
    /\ DOMAIN given \subseteq present \X Questions
    /\ response' = [p \in Pairs |-> IF p \in DOMAIN given
                                    THEN Recognised(response[p], given[p], p \in doubtful)
                                    ELSE response[p]]
    /\ used' = [used EXCEPT !.imports = @ + 1]
    /\ UNCHANGED <<bank, roster, exam, present, snapshot, wrong, tagged, marked,
                   attempts, metrics>>

\* A teacher settles an answer.  The handler looks neither at the review the
\* answer asks for nor at the status of the exam.
ResolveReviewItem(p, answer) ==
    /\ p \in Answered
    /\ response' = [response EXCEPT ![p].answer = answer, ![p].review = "resolved"]
    /\ UNCHANGED <<bank, roster, exam, present, snapshot, wrong, tagged, marked,
                   attempts, metrics, used>>

----------------------------------------------------------------------------
(* Grading, publication and revision.                                      *)

\* The score of a row: a teacher's confirmed score, else the key's.
ScoreOf(row, key) ==
    IF row.confirmed # NoScore /\ row.review = "confirmed" THEN row.confirmed
    ELSE GradeAnswer(key, row.answer)

GradedRow(row, key) ==
    LET score == ScoreOf(row, key)
    IN  [row EXCEPT !.score = score, !.max = Points,
                    !.status = IF score = Points THEN "correct" ELSE "wrong"]

\* A wrong question that an attempt or an error reason refers to cannot be
\* deleted: the foreign key refuses the statement and with it the handler.
Referenced(p) == p \in tagged \/ \E i \in DOMAIN attempts : attempts[i].of = p

\* Grading stops at a doubtful answer and says so in the exam.
GradeBlocked ==
    /\ exam \notin {"none", "published"}
    /\ Unresolved # {}
    /\ exam' = "blocked"
    /\ UNCHANGED <<bank, roster, present, snapshot, response, wrong, tagged, marked,
                   attempts, metrics, used>>

\* Every present student's every answer is graded; the list of wrong
\* questions and the marks on it are rebuilt; publication also recomputes
\* the mastery of the participants.
GradeAssessment(publish) ==
    /\ exam \notin {"none", "published"}
    /\ Unresolved = {}
    /\ present # {}
    /\ Cardinality(Answered) = Cardinality(present \X Questions)
    /\ ~ \E p \in Pairs : wrong[p] # "none" /\ Referenced(p)
    /\ LET rows == [p \in Pairs |-> IF p \in Answered
                                    THEN GradedRow(response[p], snapshot[p[2]].key)
                                    ELSE NoRow]
       IN  /\ response' = rows
           /\ wrong' = [p \in Pairs |-> IF rows[p].status = "wrong" THEN "pending" ELSE "none"]
           /\ marked' = {}
           /\ exam' = IF publish THEN "published" ELSE "graded"
           /\ IF publish THEN RefreshAssessment("published", rows, attempts)
                         ELSE UNCHANGED metrics
    /\ UNCHANGED <<bank, roster, present, snapshot, tagged, attempts, used>>

\* What a bundle must hold before anything is written: students of the class,
\* an answer of each to every question, scores within the question's points.
ValidBundle(included, given, confirmed) ==
    /\ included # {} /\ included \subseteq roster
    /\ DOMAIN given = included \X Questions
    /\ confirmed \in (0..Points) \cup {NoScore}

\* A reviewed exam bundle brings its questions (none was edited before) and
\* creates, fills, confirms, grades and publishes the exam in one transaction;
\* students it leaves out are not included.
ImportBundle(included, given, confirmed) ==
    /\ exam = "none"
    /\ used.edits = 0
    /\ ValidBundle(included, given, confirmed)
    /\ LET rows == [p \in Pairs |->
                       IF p \notin DOMAIN given THEN NoRow
                       ELSE GradedRow([NoRow EXCEPT !.answer = given[p], !.review = "confirmed",
                                                    !.confirmed = confirmed],
                                      bank[p[2]].key)]
       IN  /\ response' = rows
           /\ wrong' = [p \in Pairs |-> IF rows[p].status = "wrong" THEN "pending" ELSE "none"]
           /\ RefreshAssessment("published", rows, attempts)
    /\ exam' = "published"
    /\ present' = included
    /\ snapshot' = [q \in Questions |-> FrozenQuestion(q)]
    /\ UNCHANGED <<bank, roster, tagged, marked, attempts, used>>

\* Mutated form: a revised answer keeps its place in the list of wrong
\* questions until the next grading.
RevisedWrongKept(p, score, max) ==
    [wrong EXCEPT ![p] = IF score < max THEN (IF @ = "none" THEN "pending" ELSE @) ELSE @]

\* The wrong question of a revised answer is kept, added or removed.
RevisedWrong(p, score, max) ==
    [wrong EXCEPT ![p] = IF score < max THEN (IF @ = "none" THEN "pending" ELSE @) ELSE "none"]

\* A revision writes the score its author gives, whatever the exam's status,
\* and refreshes the mastery of every participant.
ApplyGradingRevision(p, answer, score, max) ==
    /\ used.revisions < MaxRevisions
    /\ exam # "none"
    /\ p \in Answered
    /\ score >= max => ~ (wrong[p] # "none" /\ Referenced(p))
    /\ LET rows == [response EXCEPT ![p].answer = answer, ![p].score = score, ![p].max = max,
                                    ![p].status = IF score >= max THEN "correct" ELSE "wrong"]
       IN  /\ response' = rows
           /\ RefreshAssessment(exam, rows, attempts)
    /\ wrong' = RevisedWrong(p, score, max)
    /\ marked' = IF score >= max THEN marked \ {p} ELSE marked
    /\ used' = [used EXCEPT !.revisions = @ + 1]
    /\ UNCHANGED <<bank, roster, exam, present, snapshot, tagged, attempts>>

----------------------------------------------------------------------------
(* What students and teachers do with a wrong question.                    *)

\* A teacher gives a wrong question its error reasons, or none.
TagWrongQuestionError(p, some) ==
    /\ wrong[p] # "none"
    /\ tagged' = IF some THEN tagged \cup {p} ELSE tagged \ {p}
    /\ UNCHANGED <<bank, roster, exam, present, snapshot, response, wrong, marked,
                   attempts, metrics, used>>

\* The student marks how well the question is mastered, or clears the mark.
SetMasteryMark(p, some) ==
    /\ wrong[p] # "none"
    /\ marked' = IF some THEN marked \cup {p} ELSE marked \ {p}
    /\ UNCHANGED <<bank, roster, exam, present, snapshot, response, wrong, tagged,
                   attempts, metrics, used>>

\* The student hands in the question again.
SubmitRedoAttempt(p) ==
    /\ wrong[p] # "none"
    /\ Len(attempts) < MaxAttempts
    /\ attempts' = Append(attempts, [of |-> p, score |-> NoScore, max |-> response[p].max,
                                     status |-> "submitted"])
    /\ wrong' = [wrong EXCEPT ![p] = "submitted"]
    /\ UNCHANGED <<bank, roster, exam, present, snapshot, response, tagged, marked,
                   metrics, used>>

\* Reviewed attempts of the student at the question with full marks.
VerifiedRedoCorrectCount(redos, p) ==
    Cardinality({i \in DOMAIN redos : /\ redos[i].of = p /\ redos[i].status # "submitted"
                                      /\ redos[i].score = redos[i].max /\ redos[i].max > 0})

\* A teacher scores an attempt, any of them and more than once.  The question
\* is done with the third verified success and reviewed otherwise, also when
\* a newer attempt is waiting.
ReviewRedoAttempt(i, score) ==
    /\ i \in DOMAIN attempts
    /\ score \in 0..response[attempts[i].of].max
    /\ LET p == attempts[i].of
           max == response[p].max
           redos == [attempts EXCEPT ![i].score = score, ![i].max = max,
                                     ![i].status = IF score >= max THEN "done" ELSE "reviewed"]
           learned == score >= max /\ VerifiedRedoCorrectCount(redos, p) >= NeedVerified
       IN  /\ attempts' = redos
           /\ wrong' = [wrong EXCEPT ![p] = IF learned THEN "done" ELSE "reviewed"]
           /\ RecalculateStudent(p[1], exam, response, redos)
    /\ UNCHANGED <<bank, roster, exam, present, snapshot, response, tagged, marked, used>>

----------------------------------------------------------------------------
Init ==
    /\ bank \in [Questions -> {[key |-> k, version |-> 1] : k \in Keys}]
    /\ roster \in SUBSET Students
    /\ exam = "none"
    /\ present = {}
    /\ snapshot = [q \in Questions |-> NoSnapshot]
    /\ response = [p \in Pairs |-> NoRow]
    /\ wrong = [p \in Pairs |-> "none"]
    /\ tagged = {}
    /\ marked = {}
    /\ attempts = <<>>
    /\ metrics = [m \in Students \X Tags |-> NoMetric]
    /\ used = [imports |-> 0, revisions |-> 0, edits |-> 0]

Import ==
    \E P \in SUBSET (present \X Questions) \ {{}} : \E given \in [P -> Answers] :
        \E doubtful \in SUBSET P : ImportOcrResponses(given, doubtful)

Bundle ==
    \E included \in SUBSET roster, confirmed \in {0, NoScore} :
        \E given \in [included \X Questions -> Answers] :
            ImportBundle(included, given, confirmed)

Resolve == \E p \in Pairs, a \in Answers : ResolveReviewItem(p, a)
Revise  == \E p \in Pairs, a \in Answers, score \in 0..Points, max \in 1..Points :
               ApplyGradingRevision(p, a, score, max)
Review  == \E i \in DOMAIN attempts, score \in 0..Points : ReviewRedoAttempt(i, score)

Next ==
    \/ \E q \in Questions, k \in Keys : UpdateQuestion(q, k)
    \/ CreateAssessment
    \/ Import
    \/ Bundle
    \/ Resolve
    \/ GradeBlocked
    \/ \E publish \in BOOLEAN : GradeAssessment(publish)
    \/ Revise
    \/ \E p \in Pairs, some \in BOOLEAN : TagWrongQuestionError(p, some)
    \/ \E p \in Pairs, some \in BOOLEAN : SetMasteryMark(p, some)
    \/ \E p \in Pairs : SubmitRedoAttempt(p)
    \/ Review

Spec == Init /\ [][Next]_vars

----------------------------------------------------------------------------
(* Properties.                                                             *)

RowType == [answer : SUBSET Options, review : {"none", "not required", "required", "resolved", "confirmed"},
            confirmed : 0..NoScore, score : 0..NoScore, max : 1..Points,
            status : {"none", "pending", "correct", "wrong"}]

MetricType == [attempts : Nat, correct : Nat, redos : Nat, redone : Nat,
               state : {"none", "unpractised", "not mastered", "difficult", "rough", "mastered"}]

\* Every row of the exam, its answers, its wrong questions and its metrics
\* has the shape the tables give it.
TypeOK ==
    /\ bank \in [Questions -> [key : Keys, version : 1..(1 + MaxEdits)]]
    /\ roster \subseteq Students
    /\ present \subseteq Students
    /\ exam \in {"none", "created", "blocked", "graded", "published"}
    /\ snapshot \in [Questions -> [key : Keys \cup {{}}, version : 0..(1 + MaxEdits)]]
    /\ response \in [Pairs -> RowType]
    /\ wrong \in [Pairs -> {"none", "pending", "submitted", "reviewed", "done"}]
    /\ tagged \subseteq Pairs
    /\ marked \subseteq Pairs
    /\ attempts \in Seq([of : Pairs, score : 0..NoScore, max : 1..Points,
                         status : {"submitted", "reviewed", "done"}])
    /\ metrics \in [Students \X Tags -> MetricType]
    /\ used \in [imports : 0..MaxImports, revisions : 0..MaxRevisions, edits : 0..MaxEdits]

\* A student's mastery rows are the ones the published scores and reviewed
\* redo attempts give, after every handler that can change either.
MasteryAgrees ==
    \A st \in Students, t \in Tags :
        metrics[<<st, t>>] = MetricsOf(st, exam, response, attempts)[t]

\* The list of wrong questions names exactly the answers graded wrong, and
\* whatever hangs from a wrong question hangs from one that is still listed.
WrongListAgrees ==
    /\ \A p \in Pairs : wrong[p] # "none" <=> response[p].status = "wrong"
    /\ \A p \in Pairs : Referenced(p) \/ p \in marked => wrong[p] # "none"

\* While an exam is published, every present student's every answer is there and
\* scored, whatever is imported, graded, settled or revised meanwhile.
PublishedIsComplete ==
    exam = "published" =>
        \A p \in present \X Questions : p \in Answered /\ response[p].score # NoScore

\* The message of the import and of the grading handler: a published answer
\* changes through a grading revision only.
PublishedAnswersAreFixed ==
    [][exam = "published" => \A p \in Pairs :
          response'[p].answer # response[p].answer => used'.revisions > used.revisions]_vars
=============================================================================
