--------------------------- MODULE ResponseWorkflow ---------------------------
(***************************************************************************)
(* The evidence workflow of response_workflow.py for one exam: teachers    *)
(* import answers through a preview and a confirmation, review what is     *)
(* pending, confirm who handed in nothing, move a student's answers to     *)
(* another, publish, and correct what is published; content corrections    *)
(* (content_corrections.py) change the text an answer is judged against.   *)
(*                                                                         *)
(* Every handler opens one immediate transaction, so each is one action.   *)
(* What a teacher has on the screen stays there while others work.         *)
(***************************************************************************)
EXTENDS Naturals, FiniteSets, Sequences

CONSTANTS Teachers, Students, Questions,
          RequestKeys,    \* identifiers a page gives its submissions
          FreeQuestions,  \* questions whose answers a person scores
          Missing,        \* how a student without answers is confirmed
          Given,          \* what one line of an import says of an answer
          Revisions,      \* reviewed revisions a correction may bind
          Verified,       \* the revisions whose answer is verified
          Original,       \* the revision frozen when the exam was created
          MaxDecisions,   \* bound: transactions that decide answers
          MaxCorrections, \* bound: content corrections
          MaxMoves,       \* bound: times an answer is given to another student
          MaxPreviews     \* bound: previews of imports, cards and corrections

\* One line of an import: the answer, what its source says of it, the score
\* beside it, and whether a vision model read it with confidence.
Line == [answer : {"right", "other", "unclear", ""},
         supplied : {"none", "correct", "wrong", "blank", "pending"},
         score : {"none", "full", "part", "no maximum"},
         vision : BOOLEAN]

WorkflowAssumption ==
    /\ FreeQuestions \subseteq Questions
    /\ Missing \subseteq {"absent", "not_submitted"}
    /\ Original \in Revisions /\ Verified \subseteq Revisions
    /\ Given \subseteq Line
    /\ MaxDecisions \in Nat /\ MaxPreviews \in Nat /\ MaxMoves \in Nat

VARIABLES grading,      \* "open" or "published"
          status,       \* student -> present, absent or not submitted
          content,      \* question -> the revision shown and judged against
          response,     \* <<student, question>> -> effective projection, if any
          pending,      \* answers with an open review item
          batch,        \* <<teacher, key>> -> import batch, if any
          wrong,        \* <<student, question>> -> wrong-question row, if any
          publications, \* published decisions, oldest first
          decisions,    \* decisions taken so far: the newest decision's number
          page,         \* teacher -> rows the teacher's page was built from
          correction,   \* content correction under way: its preview, and a count
          previews      \* previews made so far, for their bound

rwVars == <<grading, status, content, response, pending, batch, wrong,
            publications, decisions, page, correction, previews>>

Pairs   == Students \X Questions
Requests == Teachers \X RequestKeys

\* A row keeps its id when it becomes another student's; the decision and the
\* pair it was made for stand for the identifier drawn then.  "moved" stands for
\* what updated_at adds to the decision; "scored" says a score was imported.
NoId    == <<>>
Ids     == (1..MaxDecisions) \X Pairs
NoRow   == [id |-> NoId, moved |-> 0, scored |-> FALSE,
            outcome |-> "none", answer |-> "", initial |-> "", decision |-> 0,
            basis |-> Original, by |-> "none", requests |-> {}]
NoBatch == [state |-> "none", lines |-> <<>>, context |-> <<>>, records |-> <<>>,
            seen |-> <<>>]
NoPreview == [of |-> "none", to |-> "none", manifest |-> <<>>]

Present == {st \in Students : status[st] = "present"}
Stored  == {p \in Pairs : response[p] # NoRow}

\* What a page of the exam says of the rows.
Shown   == [p \in Pairs |-> [id |-> response[p].id, decision |-> response[p].decision,
                            moved |-> response[p].moved]]

----------------------------------------------------------------------------
(* What an answer is worth (outcomes.py and the preparation of a batch).   *)

\* The rule's own decision on an answer.
Decide(q, answer) ==
    IF answer = "" THEN "blank"
    ELSE IF content[q] \notin Verified \/ answer = "unclear" THEN "pending"
    ELSE IF answer = "right" THEN "correct" ELSE "wrong"

\* A score decides where there is no answer, or beside one when its maximum
\* is known; both are for questions a person scores.
ScoreOnly(g) == g.score # "none" /\ g.answer = ""
Scored(g)    == ScoreOnly(g) \/ g.score \in {"full", "part"}

\* A blank answer is neither right nor wrong.
Acceptable(q, g) ==
    /\ Scored(g) => q \in FreeQuestions
    /\ g.supplied = "blank" => g.answer = "" /\ ~ScoreOnly(g)
    /\ g.answer = "" /\ ~ScoreOnly(g) => g.supplied \notin {"correct", "wrong"}

Proposed(q, g) ==
    CASE ~Scored(g)        -> Decide(q, g.answer)
      [] g.score = "full"  -> "correct"
      [] g.score = "part"  -> "wrong"
      [] OTHER             -> "pending"

\* What the system and the source agree on stands, and so does a confident
\* reading of an answer no rule decides; the rest waits for a person.
Effective(q, g) ==
    LET own == Proposed(q, g)
    IN  IF g.supplied \in {"none", own} THEN own
        ELSE IF /\ ~Scored(g) /\ own = "pending" /\ g.supplied # "pending" /\ g.vision
                /\ q \in FreeQuestions /\ content[q] \in Verified
        THEN g.supplied ELSE "pending"

\* The records a preview shows, from the lines of the import.
Prepare(lines) ==
    [p \in DOMAIN lines |->
        [answer |-> lines[p].answer, outcome |-> Effective(p[2], lines[p]),
         proposed |-> Proposed(p[2], lines[p]), basis |-> content[p[2]],
         scored |-> lines[p].score # "none"]]

Preparable(lines) ==
    /\ DOMAIN lines # {}
    /\ \A p \in DOMAIN lines : p[1] \in Present /\ Acceptable(p[2], lines[p])

\* Mutated form: the preview depends on the exam and its content alone.
ContextWithoutResponses == <<grading, status, content>>

\* What a preview depends on: the exam, its participants, the content its
\* questions show, and every row's decision, outcome and text by its id; whose
\* answer a row is, is not part of it.
ContextHash ==
    <<grading, status, content,
      {<<response[p].id, response[p].decision, response[p].outcome, response[p].answer>> :
          p \in Stored}>>

----------------------------------------------------------------------------
(* Imports.                                                                *)

\* One saved line goes to the row its student has now, or to a new one: a new
\* decision, and a review item when it is pending.  The first import and every
\* later one before publication set the first answer.
SavedRow(t, p, row, r) ==
    [row EXCEPT !.id = IF @ = NoId THEN <<decisions + 1, p>> ELSE @,
                !.scored = @ \/ r.scored,
                !.outcome = r.outcome, !.answer = r.answer, !.initial = r.answer,
                !.decision = decisions + 1, !.basis = r.basis, !.by = t]

SaveRecords(t, records) ==
    /\ decisions < MaxDecisions
    /\ decisions' = decisions + 1
    /\ response' = [p \in Pairs |-> IF p \in DOMAIN records
                                    THEN SavedRow(t, p, response[p], records[p]) ELSE response[p]]
    /\ pending' = {p \in pending : p \notin DOMAIN records}
                  \cup {p \in DOMAIN records : records[p].outcome = "pending"}

\* A preview is stored under the page's identifier; the same identifier with
\* other lines is refused, and one that is saved is acknowledged.  "seen" only
\* records, for the properties, the rows the preview was built from.
ImportPreview(t, k, lines) ==
    /\ previews < MaxPreviews /\ previews' = previews + 1
    /\ grading = "open"
    /\ batch[<<t, k>>].state \in {"none", "preview"}
    /\ batch[<<t, k>>].state = "preview" => batch[<<t, k>>].lines = lines
    /\ Preparable(lines)
    /\ batch' = [batch EXCEPT ![<<t, k>>] = [state |-> "preview", lines |-> lines,
                                             context |-> ContextHash, records |-> Prepare(lines),
                                             seen |-> Shown]]
    /\ UNCHANGED <<grading, status, content, response, pending, wrong, publications,
                   decisions, page, correction>>

\* The confirmation prepares the lines again: nothing the preview depends on
\* may have changed, and the records must come out as they were shown.
ImportSave(t, k) ==
    LET b == batch[<<t, k>>]
    IN  /\ grading = "open"
        /\ b.state = "preview"
        /\ Preparable(b.lines)
        /\ b.context = ContextHash
        /\ b.records = Prepare(b.lines)
        /\ SaveRecords(t, b.records)
        /\ batch' = [batch EXCEPT ![<<t, k>>] = [NoBatch EXCEPT !.state = "saved"]]
        /\ UNCHANGED <<grading, status, content, wrong, publications, page, correction, previews>>

----------------------------------------------------------------------------
(* Participants.                                                           *)

\* Students without a single answer are confirmed absent or as having handed
\* in nothing, or are taken back into the exam.
ConfirmMissing(some, to) ==
    /\ grading = "open"
    /\ some # {}
    /\ \A st \in some, q \in Questions : <<st, q>> \notin Stored
    /\ Cardinality(some) > 1 => some \subseteq Present /\ to # "present"
    /\ status' = [st \in Students |-> IF st \in some THEN to ELSE status[st]]
    /\ UNCHANGED <<grading, content, response, pending, batch, wrong, publications,
                   decisions, page, correction, previews>>

\* What a row is once its student has been changed.
Moved(row) == IF row = NoRow THEN NoRow ELSE [row EXCEPT !.moved = @ + 1]

\* All answers of one student become another's, with their decisions, review
\* items and evidence, if they are still those of the page.
ReassignStudentAnswers(t, from, to) ==
    /\ grading = "open"
    /\ from # to /\ {from, to} \subseteq Present
    /\ \E q \in Questions : <<from, q>> \in Stored
    /\ \A q \in Questions : page[t][<<from, q>>] = Shown[<<from, q>>]
    /\ \A q \in Questions : <<to, q>> \notin Stored /\ wrong[<<from, q>>] = "none"
    /\ \A q \in Questions : response[<<from, q>>].moved < MaxMoves
    /\ LET before(p) == CASE p[1] = to   -> <<from, p[2]>>
                          [] p[1] = from -> <<to, p[2]>>
                          [] OTHER       -> p
       IN  /\ response' = [p \in Pairs |-> IF p[1] = to THEN Moved(response[before(p)])
                                                        ELSE response[before(p)]]
           /\ pending' = {p \in Pairs : before(p) \in pending}
    /\ UNCHANGED <<grading, status, content, batch, wrong, publications, decisions,
                   page, correction, previews>>

----------------------------------------------------------------------------
(* Publication, review and correction.                                     *)

\* A decision taken under an older revision of the content does not count.
Publishable(p) ==
    /\ p \in Stored
    /\ response[p].outcome # "pending"
    /\ p \notin pending
    /\ response[p].basis = content[p[2]]

\* Mutated form: a row that exists is left as it is.
SyncNewWrong(rows, P) ==
    [p \in Pairs |->
        IF p \in P /\ wrong[p] = "none" /\ rows[p].outcome \in {"wrong", "blank"}
        THEN "active" ELSE wrong[p]]

\* The wrong-question row of an answer follows its outcome; one that is no
\* longer wrong stays as inactive.
SyncWrong(rows, P) ==
    [p \in Pairs |->
        IF p \notin P THEN wrong[p]
        ELSE IF rows[p].outcome \in {"wrong", "blank"} THEN "active"
        ELSE IF wrong[p] = "none" THEN "none" ELSE "inactive"]

Publication(rows) == [p \in Present \X Questions |-> rows[p].decision]

Publish ==
    /\ grading = "open"
    /\ Present # {}
    /\ \A p \in Present \X Questions : Publishable(p)
    /\ grading' = "published"
    /\ wrong' = SyncWrong(response, Present \X Questions)
    /\ batch' = [r \in Requests |-> IF batch[r].state = "saved"
                                    THEN [batch[r] EXCEPT !.state = "published"] ELSE batch[r]]
    /\ publications' = Append(publications, Publication(response))
    /\ UNCHANGED <<status, content, response, pending, decisions, page, correction, previews>>

\* A teacher opens the page of the exam.
OpenPage(t) ==
    /\ page' = [page EXCEPT ![t] = Shown]
    /\ UNCHANGED <<grading, status, content, response, pending, batch, wrong,
                   publications, decisions, correction, previews>>

\* A person's decision on an answer: the same request again is acknowledged
\* and never written twice.
PersonDecides(t, k, row, q, answer, outcome) ==
    [row EXCEPT !.outcome = outcome, !.answer = answer, !.decision = decisions + 1,
                !.initial = IF grading = "open" THEN answer ELSE @,
                !.basis = content[q], !.by = t,
                !.requests = @ \cup {<<k, answer, outcome>>}]

\* A row that was imported with a score and no answer may be right or wrong
\* without an answer, and never blank; any other is blank if it has no answer.
FitsEvidence(row, answer, outcome) ==
    IF row.scored /\ row.initial = ""
    THEN ~ (answer = "" /\ outcome = "blank")
    ELSE outcome = "blank" <=> answer = ""

\* Mutated form: the decision the teacher saw is not compared.
MayDecideUnseen(t, k, p, answer, outcome) ==
    /\ p \in Stored
    /\ FitsEvidence(response[p], answer, outcome)
    /\ ~ \E r \in response[p].requests : r[1] = k

\* The page names the row and the decision it shows, whoever's row it is now.
MayDecide(t, k, p, answer, outcome) ==
    /\ p \in Stored
    /\ FitsEvidence(response[p], answer, outcome)
    /\ ~ \E r \in response[p].requests : r[1] = k
    /\ \E o \in Pairs : /\ page[t][o].id = response[p].id
                        /\ page[t][o].decision = response[p].decision

\* Before publication one answer, or a batch of answers in one transaction.
Review(t, k, P, answer, outcome) ==
    /\ grading = "open"
    /\ decisions < MaxDecisions
    /\ P # {} /\ \A p \in P : MayDecide(t, k, p, answer, outcome)
    /\ response' = [p \in Pairs |-> IF p \in P
                       THEN PersonDecides(t, k, response[p], p[2], answer, outcome) ELSE response[p]]
    /\ pending' = pending \ P
    /\ decisions' = decisions + 1
    /\ UNCHANGED <<grading, status, content, batch, wrong, publications, page, correction, previews>>

\* After publication one answer at a time, previewed from the decision it
\* replaces; the wrong-question row follows and a publication is added.
Correct(t, k, p, answer, outcome) ==
    /\ grading = "published"
    /\ decisions < MaxDecisions
    /\ MayDecide(t, k, p, answer, outcome)
    /\ response' = [response EXCEPT ![p] = PersonDecides(t, k, @, p[2], answer, outcome)]
    /\ pending' = pending \ {p}
    /\ wrong' = SyncWrong(response', {p})
    /\ publications' = Append(publications, Publication(response'))
    /\ decisions' = decisions + 1
    /\ UNCHANGED <<grading, status, content, batch, page, correction, previews>>

----------------------------------------------------------------------------
(* Content corrections: an administrator binds a question of the exam to   *)
(* another revision, or takes that back.                                   *)

\* Everything a correction must leave alone, as its preview records it.
ProtectedManifest == <<grading, status, content, response, wrong>>

PreviewCorrection(q, rev) ==
    /\ previews < MaxPreviews /\ previews' = previews + 1
    /\ correction.count < MaxCorrections
    /\ rev \in Verified
    /\ correction' = [correction EXCEPT
                        !.preview = [of |-> q, to |-> rev, manifest |-> ProtectedManifest]]
    /\ UNCHANGED <<grading, status, content, response, pending, batch, wrong,
                   publications, decisions, page>>

\* One active correction to a question; a preview that no longer describes
\* the records is stale.
ApplyCorrection ==
    LET c == correction.preview
    IN  /\ c.of # "none"
        /\ c.manifest = ProtectedManifest
        /\ c.of \notin correction.active
        /\ content' = [content EXCEPT ![c.of] = c.to]
        /\ correction' = [preview |-> NoPreview, active |-> correction.active \cup {c.of},
                          count |-> correction.count + 1]
        /\ UNCHANGED <<grading, status, response, pending, batch, wrong, publications,
                       decisions, page, previews>>

RollbackCorrection(q) ==
    /\ q \in correction.active
    /\ content' = [content EXCEPT ![q] = Original]
    /\ correction' = [correction EXCEPT !.active = @ \ {q}]
    /\ UNCHANGED <<grading, status, response, pending, batch, wrong, publications,
                   decisions, page, previews>>

----------------------------------------------------------------------------
RWInit ==
    /\ grading = "open"
    /\ status = [st \in Students |-> "present"]
    /\ content = [q \in Questions |-> Original]
    /\ response = [p \in Pairs |-> NoRow]
    /\ pending = {}
    /\ batch = [r \in Requests |-> NoBatch]
    /\ wrong = [p \in Pairs |-> "none"]
    /\ publications = <<>>
    /\ decisions = 0
    /\ page = [t \in Teachers |-> [p \in Pairs |-> [id |-> NoId, decision |-> 0, moved |-> 0]]]
    /\ correction = [preview |-> NoPreview, active |-> {}, count |-> 0]
    /\ previews = 0

ImportPreviews ==
    \E t \in Teachers, k \in RequestKeys, P \in SUBSET Pairs : \E lines \in [P -> Given] :
        ImportPreview(t, k, lines)
ImportSaves == \E t \in Teachers, k \in RequestKeys : ImportSave(t, k)
Confirms    == \E some \in SUBSET Students, to \in Missing \cup {"present"} :
                   ConfirmMissing(some, to)
Reassigns   == \E t \in Teachers, from, to \in Students : ReassignStudentAnswers(t, from, to)
OpenPages   == \E t \in Teachers : OpenPage(t)
Choices     == {<<"right", "correct">>, <<"other", "wrong">>,
                <<"", "correct">>, <<"", "wrong">>, <<"", "blank">>}
Reviews     == \E t \in Teachers, k \in RequestKeys, P \in SUBSET Pairs, c \in Choices :
                   Review(t, k, P, c[1], c[2])
Corrects    == \E t \in Teachers, k \in RequestKeys, p \in Pairs, c \in Choices :
                   Correct(t, k, p, c[1], c[2])
PreviewCorrections  == \E q \in Questions, rev \in Revisions : PreviewCorrection(q, rev)
RollbackCorrections == \E q \in Questions : RollbackCorrection(q)

RWNext == \/ ImportPreviews \/ ImportSaves \/ Confirms \/ Reassigns \/ Publish \/ OpenPages
          \/ Reviews \/ Corrects \/ PreviewCorrections \/ ApplyCorrection \/ RollbackCorrections

RWSpec == RWInit /\ [][RWNext]_rwVars

----------------------------------------------------------------------------
(* Properties.                                                             *)

ShownType == [id : Ids \cup {NoId}, decision : 0..MaxDecisions, moved : 0..MaxMoves]

RowType == [id : Ids \cup {NoId}, moved : 0..MaxMoves, scored : BOOLEAN,
            outcome : {"none", "correct", "wrong", "blank", "pending"},
            answer : {"right", "other", "unclear", ""}, initial : {"right", "other", "unclear", ""},
            decision : 0..MaxDecisions, basis : Revisions, by : Teachers \cup {"none"},
            requests : SUBSET (RequestKeys \X {"right", "other", ""} \X {"correct", "wrong", "blank"})]

\* Every row, batch, page and publication has the shape its table gives it.
RWTypeOK ==
    /\ grading \in {"open", "published"}
    /\ status \in [Students -> {"present", "absent", "not_submitted"}]
    /\ content \in [Questions -> Revisions]
    /\ response \in [Pairs -> RowType]
    /\ pending \subseteq Pairs
    /\ \A r \in Requests : batch[r].state \in {"none", "preview", "saved", "published"}
    /\ wrong \in [Pairs -> {"none", "active", "inactive"}]
    /\ \A i \in DOMAIN publications : \A p \in DOMAIN publications[i] :
           publications[i][p] \in 1..decisions
    /\ decisions \in 0..MaxDecisions
    /\ page \in [Teachers -> [Pairs -> ShownType]]
    /\ correction.active \subseteq Questions
    /\ previews \in 0..MaxPreviews

\* Once published, the last publication names the decision in effect of every
\* answer, and the active wrong questions are the answers it has as wrong or
\* blank: corrections, reviews and reassignments keep the three together.
PublicationAgrees ==
    grading = "published" =>
        /\ publications # <<>>
        /\ publications[Len(publications)] = [p \in Present \X Questions |-> response[p].decision]
        /\ \A p \in Pairs : wrong[p] = "active" <=>
               p \in Present \X Questions /\ response[p].outcome \in {"wrong", "blank"}

\* A row as it is now was among those shown: with the decision it has, under
\* the student whose answer it is, or else under another and moved since.
SeenBefore(seen, p) ==
    \E o \in Pairs : /\ seen[o].id = response[p].id
                     /\ seen[o].decision = response[p].decision
                     /\ o = p \/ seen[o].moved < response[p].moved

\* What a new decision replaces was on the page of its author, or in the preview
\* the author confirms.
SeenOnPage(t, p)  == SeenBefore(page[t], p)
SeenInBatch(t, p) == \E k \in RequestKeys :
                        /\ batch[<<t, k>>].state = "preview" /\ batch'[<<t, k>>].state = "saved"
                        /\ SeenBefore(batch[<<t, k>>].seen, p)

\* The head comment of response_workflow.py: the first answer of a published
\* exam stays as it is, and every student who is present has one.
FirstAnswersStay ==
    [][grading = "published" => \A p \in Pairs : response'[p].initial = response[p].initial]_rwVars
=============================================================================
