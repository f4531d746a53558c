--------------------------- MODULE TagJobsProofs ---------------------------
(***************************************************************************)
(* Theorems about tag jobs and tag decisions for any number of jobs,       *)
(* runners, questions and editors and any bounds, checked by TLAPS.        *)
(***************************************************************************)
EXTENDS TagJobs, TLAPS

-----------------------------------------------------------------------------
LEMMA IdleType == Idle \in Run
<1>1. AnyQuestion \in Questions
    BY QuestionsAssumption DEF AnyQuestion
<1> QED
    BY <1>1 DEF Idle, Run, Unread, Basis, Results

LEMMA CurrentType ==
    ASSUME TypeOK, NEW q \in Questions
    PROVE  Current(q) \in Basis
    BY DEF TypeOK, Current, QuestionRow, Basis

\* Every way a transaction writes a job row leaves a row.
LEMMA JobRowUpdates ==
    ASSUME NEW row \in JobRow
    PROVE  /\ \A attempt \in Nat : RequeuedRow(row, attempt) \in JobRow
           /\ \A attempt \in Nat :
                 [RequeuedRow(row, attempt) EXCEPT !.result = "failed"] \in JobRow
           /\ ClaimedRow(row) \in JobRow
           /\ \A result \in Results, candidate \in Nat :
                 StoredRow(row, result, candidate) \in JobRow
<1>1. \A attempt \in Nat : RequeuedRow(row, attempt) \in JobRow
    BY DEF JobRow, RequeuedRow
<1>2. \A attempt \in Nat :
         [RequeuedRow(row, attempt) EXCEPT !.result = "failed"] \in JobRow
    BY <1>1 DEF JobRow, Results
<1>3. row.attempts + 1 \in Nat /\ row.issued + 1 \in Nat
    BY DEF JobRow
<1>4. ClaimedRow(row) \in JobRow
    BY <1>3 DEF JobRow, ClaimedRow
<1>5. \A result \in Results, candidate \in Nat : StoredRow(row, result, candidate) \in JobRow
    BY DEF JobRow, StoredRow
<1> QED
    BY <1>1, <1>2, <1>4, <1>5

LEMMA QueuedRowType ==
    ASSUME TypeOK, NEW q \in Questions, NEW kind \in {"import", "bank"}
    PROVE  QueuedRow(kind, q) \in JobRow
    BY CurrentType DEF QueuedRow, NoRow, JobRow, Results

LEMMA RetaggedType ==
    ASSUME TypeOK, NEW q \in Questions, NEW tagged \in BOOLEAN,
           NEW by \in {"llm_auto"} \cup Persons, NEW basis \in Basis
    PROVE  Retagged(q, tagged, by, basis) \in QuestionRow
<1>1. question[q] \in QuestionRow /\ Current(q) \in Basis
    BY CurrentType DEF TypeOK
<1>2. question[q].revision + 1 \in Nat
    BY <1>1 DEF QuestionRow
<1> QED
    BY <1>1, <1>2 DEF Retagged, QuestionRow

LEMMA RetaggedFields ==
    ASSUME TypeOK, NEW q \in Questions, NEW tagged, NEW by, NEW basis
    PROVE  /\ Retagged(q, tagged, by, basis).version = question[q].version
           /\ Retagged(q, tagged, by, basis).revision = question[q].revision + 1
           /\ Retagged(q, tagged, by, basis).tagged = tagged
           /\ Retagged(q, tagged, by, basis).by = by
           /\ Retagged(q, tagged, by, basis).basis = basis
           /\ Retagged(q, tagged, by, basis).at = Current(q)
    BY DEF TypeOK, Retagged, QuestionRow

LEMMA TypeStep ==
    ASSUME TypeOK, [Next]_vars
    PROVE  TypeOK'
<1>t. /\ question \in [Questions -> QuestionRow]
      /\ candidates \in [Questions -> SUBSET Nat]
      /\ job \in [Jobs -> JobRow]
      /\ run \in [Runners -> Run]
      /\ page \in [Editors -> [Questions -> Basis]]
    BY DEF TypeOK
<1>1. question' \in [Questions -> QuestionRow]
    <2>1. ASSUME NEW r \in Runners, ApplyTags(r) PROVE question' \in [Questions -> QuestionRow]
        <3>1. run[r].question \in Questions /\ run[r].got \in Nat /\ run[r].seen \in Basis
            BY <1>t DEF Run
        <3>2. [version |-> run[r].got, revision |-> run[r].seen.revision] \in Basis
            BY <3>1 DEF Basis
        <3> DEFINE new == Retagged(run[r].question, TRUE, "llm_auto",
                       [version |-> run[r].got, revision |-> run[r].seen.revision])
        <3>3. new \in QuestionRow
            BY <3>1, <3>2, RetaggedType DEF Persons
        <3>4. \/ UNCHANGED question
              \/ question' = [question EXCEPT ![run[r].question] = new]
            BY <2>1 DEF ApplyTags
        <3> HIDE DEF new
        <3> QED
            BY <1>t, <3>1, <3>3, <3>4
    <2>2. ASSUME NEW e \in Editors, NEW S \in SUBSET Questions, SaveTags(e, S)
          PROVE question' \in [Questions -> QuestionRow]
        <3>1. SourceOf(e) \in {"llm_auto"} \cup Persons
            BY DEF SourceOf, Persons
        <3>2. PICK tagged \in [S -> BOOLEAN] :
                 question' = [q \in Questions |->
                     IF q \in S THEN Retagged(q, tagged[q], SourceOf(e), page[e][q])
                     ELSE question[q]]
            BY <2>2 DEF SaveTags
        <3>3. ASSUME NEW q \in S
              PROVE  Retagged(q, tagged[q], SourceOf(e), page[e][q]) \in QuestionRow
            <4>1. \A b \in BOOLEAN : Retagged(q, b, SourceOf(e), page[e][q]) \in QuestionRow
                <5>1. page[e][q] \in Basis /\ q \in Questions
                    BY <1>t, <3>3
                <5> QED
                    BY <3>1, <5>1, RetaggedType
            <4>2. tagged[q] \in BOOLEAN
                BY <3>3
            <4> QED
                BY <4>1, <4>2, Zenon
        <3> QED
            BY <1>t, <3>2, <3>3
    <2>3. ASSUME NEW e \in Editors, NEW q \in Questions, ConfirmTags(e, q)
          PROVE question' \in [Questions -> QuestionRow]
        <3>1. \A tagged \in BOOLEAN : Retagged(q, tagged, "teacher", page[e][q]) \in QuestionRow
            BY <1>t, RetaggedType DEF Persons
        <3> QED
            BY <1>t, <2>3, <3>1 DEF ConfirmTags
    <2>4. ASSUME NEW e \in Editors, NEW q \in Questions, ApproveCandidate(e, q)
          PROVE question' \in [Questions -> QuestionRow]
        <3>1. ASSUME NEW v \in candidates[q], NEW tagged \in BOOLEAN
              PROVE  Retagged(q, tagged, "teacher",
                         [version |-> v, revision |-> page[e][q].revision]) \in QuestionRow
            <4>1. v \in Nat /\ page[e][q] \in Basis
                BY <1>t, <3>1
            <4>2. [version |-> v, revision |-> page[e][q].revision] \in Basis
                BY <4>1 DEF Basis
            <4> QED
                BY <4>2, RetaggedType DEF Persons
        <3> QED
            BY <1>t, <2>4, <3>1 DEF ApproveCandidate
    <2>5. ASSUME NEW q \in Questions, EditQuestion(q)
          PROVE question' \in [Questions -> QuestionRow]
        <3>1. question[q].version + 1 \in Nat
            BY <1>t DEF QuestionRow
        <3>2. [question[q] EXCEPT !.version = @ + 1] \in QuestionRow
            BY <1>t, <3>1 DEF QuestionRow
        <3> QED
            BY <1>t, <2>5, <3>2 DEF EditQuestion
    <2> QED
        BY <1>t, <2>1, <2>2, <2>3, <2>4, <2>5
        DEF Next, Progress, LeaseStep, QueueStep, EditorStep, vars, tagVars,
            ReadQuestion, ReadForModel, StoreCandidate, SkipWithoutModel, CheckSuggestion,
            RunFailed, StoreResult, StoreFailure, Crash, RecoverExpiredTagJobs, ClaimTagJob,
            ClaimNothing, StartAutoTag, QueueImportJob, QueueBankJob, LeaseExpires,
            BackoffEnds, OpenQuestion
<1>2. candidates' \in [Questions -> SUBSET Nat]
    <2>1. ASSUME NEW r \in Runners,
                 candidates' = [candidates EXCEPT ![run[r].question] = @ \cup {run[r].got}]
          PROVE  candidates' \in [Questions -> SUBSET Nat]
        BY <1>t, <2>1 DEF Run
    <2> QED
        BY <1>t, <2>1
        DEF Next, Progress, LeaseStep, QueueStep, EditorStep, vars, tagVars,
            ReadQuestion, ReadForModel, StoreCandidate, SkipWithoutModel, CheckSuggestion,
            ApplyTags, RunFailed, StoreResult, StoreFailure, Crash, RecoverExpiredTagJobs,
            ClaimTagJob, ClaimNothing, StartAutoTag, QueueImportJob, QueueBankJob,
            LeaseExpires, BackoffEnds, SaveTags, OpenQuestion, ConfirmTags,
            ApproveCandidate, EditQuestion
<1>3. job' \in [Jobs -> JobRow]
    <2>1. ASSUME NEW w \in Workers, RecoverExpiredTagJobs(w) PROVE job' \in [Jobs -> JobRow]
        <3>1. \A j \in Jobs : RequeuedRow(job[j], job[j].attempts) \in JobRow
            BY <1>t, JobRowUpdates DEF JobRow
        <3> QED
            BY <1>t, <2>1, <3>1 DEF RecoverExpiredTagJobs
    <2>2. ASSUME NEW j \in Jobs, NEW w \in Workers, ClaimTagJob(w, j)
          PROVE job' \in [Jobs -> JobRow]
        BY <1>t, <2>2, JobRowUpdates DEF ClaimTagJob
    <2>3. ASSUME NEW r \in Runners, StoreResult(r) PROVE job' \in [Jobs -> JobRow]
        <3>1. MayStore(r) => run[r].job \in Jobs
            BY DEF MayStore, Holds
        <3>2. MayStore(r) => StoredRow(job[run[r].job], run[r].result, run[r].got) \in JobRow
            BY <1>t, <3>1, JobRowUpdates DEF Run
        <3> QED
            BY <1>t, <2>3, <3>1, <3>2 DEF StoreResult
    <2>4. ASSUME NEW r \in Runners, StoreFailure(r) PROVE job' \in [Jobs -> JobRow]
        <3>1. MayStore(r) => run[r].job \in Jobs
            BY DEF MayStore, Holds
        <3>2. MayStore(r) => [RequeuedRow(job[run[r].job], run[r].attempt)
                                 EXCEPT !.result = "failed"] \in JobRow
            BY <1>t, <3>1, JobRowUpdates DEF Run
        <3> QED
            BY <1>t, <2>4, <3>1, <3>2 DEF StoreFailure
    <2>5. ASSUME NEW j \in Jobs, NEW q \in Questions,
                 QueueImportJob(j, q) \/ QueueBankJob(j, q)
          PROVE job' \in [Jobs -> JobRow]
        BY <1>t, <2>5, QueuedRowType DEF QueueImportJob, QueueBankJob
    <2>6. ASSUME NEW j \in Jobs, LeaseExpires(j) \/ BackoffEnds(j)
          PROVE job' \in [Jobs -> JobRow]
        <3>1. /\ [job[j] EXCEPT !.expired = TRUE] \in JobRow
              /\ [job[j] EXCEPT !.due = TRUE] \in JobRow
            BY <1>t DEF JobRow
        <3> QED
            BY <1>t, <2>6, <3>1 DEF LeaseExpires, BackoffEnds
    <2> QED
        BY <1>t, <2>1, <2>2, <2>3, <2>4, <2>5, <2>6
        DEF Next, Progress, LeaseStep, QueueStep, EditorStep, vars,
            ReadQuestion, ReadForModel, StoreCandidate, SkipWithoutModel, CheckSuggestion,
            ApplyTags, RunFailed, Crash, ClaimNothing, StartAutoTag, SaveTags, OpenQuestion,
            ConfirmTags, ApproveCandidate, EditQuestion
<1>4. run' \in [Runners -> Run]
    <2>0. Workers \subseteq Runners /\ Threads \subseteq Runners
        BY DEF Runners
    <2>1. ASSUME NEW r \in Runners, Progress(r) PROVE run' \in [Runners -> Run]
        <3>1. run[r] \in Run /\ run[r].question \in Questions
            BY <1>t DEF Run
        <3>2. /\ Current(run[r].question) \in Basis
              /\ question[run[r].question].version \in Nat
            BY <1>t, <3>1, CurrentType DEF QuestionRow
        <3>3. ASSUME NEW result \in Results
              PROVE  Ended(r, result) \in [Runners -> Run]
            BY <1>t, <3>1, <3>3 DEF Ended, Run
        <3>4. CASE ReadQuestion(r)
            <4>1. CASE StaleAtStart(r)
                BY <3>3, <3>4, <4>1 DEF ReadQuestion, Results
            <4>2. CASE ~StaleAtStart(r)
                BY <1>t, <3>1, <3>2, <3>4, <4>2 DEF ReadQuestion, Run
            <4> QED
                BY <4>1, <4>2
        <3>5. CASE ReadForModel(r)
            BY <1>t, <3>1, <3>2, <3>5 DEF ReadForModel, Run
        <3>6. CASE StoreCandidate(r)
            BY <1>t, <3>1, <3>6 DEF StoreCandidate, Run
        <3>7. CASE SkipWithoutModel(r)
            BY <1>t, <3>1, <3>7 DEF SkipWithoutModel, Run, Results
        <3>8. CASE CheckSuggestion(r)
            BY <3>3, <3>8 DEF CheckSuggestion, Results
        <3>9. CASE ApplyTags(r)
            BY <3>3, <3>9 DEF ApplyTags, Results
        <3>10. CASE RunFailed(r)
            BY <1>t, <3>1, <3>10 DEF RunFailed, Run
        <3>11. CASE StoreResult(r) \/ StoreFailure(r)
            BY <1>t, <3>11, IdleType DEF StoreResult, StoreFailure
        <3> QED
            BY <2>1, <3>4, <3>5, <3>6, <3>7, <3>8, <3>9, <3>10, <3>11 DEF Progress
    <2>2. ASSUME NEW r \in Runners, Crash(r) PROVE run' \in [Runners -> Run]
        BY <1>t, <2>2, IdleType DEF Crash
    <2>3. ASSUME NEW w \in Workers, LeaseStep(w) PROVE run' \in [Runners -> Run]
        <3>1. CASE RecoverExpiredTagJobs(w)
            BY <1>t, <3>1, <2>0 DEF RecoverExpiredTagJobs, Run
        <3>2. ASSUME NEW j \in Jobs, ClaimTagJob(w, j) PROVE run' \in [Runners -> Run]
            <4>1. job[j] \in JobRow /\ job[j].issued + 1 \in Nat /\ job[j].attempts + 1 \in Nat
                BY <1>t DEF JobRow
            <4>2. Unread \in Basis
                BY DEF Unread, Basis
            <4>3. ClaimedRun(j) \in Run
                BY <4>1, <4>2, IdleType DEF ClaimedRun, Run, JobRow
            <4> QED
                BY <1>t, <3>2, <4>3 DEF ClaimTagJob
        <3>3. CASE ClaimNothing(w)
            BY <1>t, <3>3, IdleType DEF ClaimNothing
        <3> QED
            BY <2>3, <3>1, <3>2, <3>3 DEF LeaseStep
    <2>4. ASSUME NEW h \in Threads, NEW q \in Questions, StartAutoTag(h, q)
          PROVE run' \in [Runners -> Run]
        <3>1. [Idle EXCEPT !.pc = "reading", !.kind = "import", !.question = q] \in Run
            BY IdleType DEF Run
        <3> QED
            BY <1>t, <2>4, <3>1 DEF StartAutoTag
    <2> QED
        BY <1>t, <2>1, <2>2, <2>3, <2>4
        DEF Next, QueueStep, EditorStep, vars, QueueImportJob, QueueBankJob, LeaseExpires,
            BackoffEnds, SaveTags, OpenQuestion, ConfirmTags, ApproveCandidate, EditQuestion
<1>5. page' \in [Editors -> [Questions -> Basis]]
    <2>1. ASSUME NEW e \in Editors, NEW q \in Questions, OpenQuestion(e, q)
          PROVE page' \in [Editors -> [Questions -> Basis]]
        BY <1>t, <2>1, CurrentType DEF OpenQuestion
    <2> QED
        BY <1>t, <2>1
        DEF Next, Progress, LeaseStep, QueueStep, EditorStep, vars, tagVars,
            ReadQuestion, ReadForModel, StoreCandidate, SkipWithoutModel, CheckSuggestion,
            ApplyTags, RunFailed, StoreResult, StoreFailure, Crash, RecoverExpiredTagJobs,
            ClaimTagJob, ClaimNothing, StartAutoTag, QueueImportJob, QueueBankJob,
            LeaseExpires, BackoffEnds, SaveTags, ConfirmTags,
            ApproveCandidate, EditQuestion
<1> QED
    BY <1>1, <1>2, <1>3, <1>4, <1>5 DEF TypeOK

LEMMA InitType == Init => TypeOK
<1> SUFFICES ASSUME Init PROVE TypeOK
    OBVIOUS
<1>1. AnyQuestion \in Questions /\ Unread \in Basis
    BY QuestionsAssumption DEF AnyQuestion, Unread, Basis
<1>2. NoRow \in JobRow
    BY <1>1 DEF NoRow, JobRow, Results
<1>3. question \in [Questions -> QuestionRow]
    BY <1>1 DEF Init, QuestionRow
<1> QED
    BY <1>1, <1>2, <1>3, IdleType DEF Init, TypeOK

\* Every variable keeps the values its table, run or page can hold.
THEOREM TypeCorrect == Spec => []TypeOK
<1>1. TypeOK /\ [Next]_vars => TypeOK'
    BY TypeStep
<1> QED
    BY <1>1, InitType, PTL DEF Spec

-----------------------------------------------------------------------------
(***************************************************************************)
(* How one step moves a question and a job row.                            *)
(***************************************************************************)
\* A question is written by an edit, an automatic run or a person.
AutoWrite(r) ==
    LET q == run[r].question
    IN  /\ run[r].pc = "answered" /\ run[r].kind = "import"
        /\ Unchanged(r) /\ ~KeptByPerson(r)
        /\ question' = [question EXCEPT ![q] = Retagged(q, TRUE, "llm_auto",
               [version |-> run[r].got, revision |-> run[r].seen.revision])]

PersonWrote(q) ==
    /\ question'[q].version = question[q].version
    /\ question'[q].revision = question[q].revision + 1
    /\ question'[q].by \in Persons
    /\ question'[q].by = "agent" => question'[q].basis = question'[q].at

Edited(q) == question'[q] = [question[q] EXCEPT !.version = @ + 1]

LEMMA QuestionMoves ==
    ASSUME TypeOK, [Next]_vars
    PROVE  \/ \E r \in Runners : AutoWrite(r)
           \/ \A q \in Questions : question'[q] = question[q] \/ PersonWrote(q) \/ Edited(q)
<1>t. /\ question \in [Questions -> QuestionRow]
      /\ candidates \in [Questions -> SUBSET Nat]
      /\ page \in [Editors -> [Questions -> Basis]]
    BY DEF TypeOK
<1>1. ASSUME NEW r \in Runners, ApplyTags(r)
      PROVE  AutoWrite(r) \/ UNCHANGED question
    BY <1>1 DEF ApplyTags, AutoWrite
<1>2. ASSUME NEW e \in Editors, NEW S \in SUBSET Questions, SaveTags(e, S), NEW q \in Questions
      PROVE  question'[q] = question[q] \/ PersonWrote(q)
    <2>1. SourceOf(e) \in {"llm_auto"} \cup Persons /\ SourceOf(e) \in Persons
        BY DEF SourceOf, Persons
    <2>2. PICK tagged \in [S -> BOOLEAN] :
             question' = [p \in Questions |->
                 IF p \in S THEN Retagged(p, tagged[p], SourceOf(e), page[e][p])
                 ELSE question[p]]
        BY <1>2 DEF SaveTags
    <2>3. CASE q \in S
        <3>1. page[e][q] = Current(q) /\ page[e][q] \in Basis /\ tagged[q] \in BOOLEAN
            BY <1>t, <1>2, <2>3 DEF SaveTags, UpToDate
        <3>2. question'[q] = Retagged(q, tagged[q], SourceOf(e), page[e][q])
            BY <2>2, <2>3
        <3>3. /\ question'[q].version = question[q].version
              /\ question'[q].revision = question[q].revision + 1
              /\ question'[q].by = SourceOf(e)
              /\ question'[q].basis = page[e][q]
              /\ question'[q].at = Current(q)
            BY <3>2, RetaggedFields
        <3> QED
            BY <2>1, <3>1, <3>3 DEF PersonWrote
    <2>4. CASE q \notin S
        BY <2>2, <2>4
    <2> QED
        BY <2>3, <2>4
<1>3. ASSUME NEW p \in Questions, NEW tagged \in BOOLEAN, NEW basis \in Basis,
             question' = [question EXCEPT ![p] = Retagged(p, tagged, "teacher", basis)],
             NEW q \in Questions
      PROVE  question'[q] = question[q] \/ PersonWrote(q)
    <2>1. CASE q = p
        <3>1. question'[q] = Retagged(q, tagged, "teacher", basis)
            BY <1>t, <1>3, <2>1
        <3>2. /\ question'[q].version = question[q].version
              /\ question'[q].revision = question[q].revision + 1
              /\ question'[q].by = "teacher"
            BY <3>1, RetaggedFields
        <3> QED
            BY <3>2 DEF PersonWrote, Persons
    <2>2. CASE q # p
        BY <1>t, <1>3, <2>2
    <2> QED
        BY <2>1, <2>2
<1>4. ASSUME NEW e \in Editors, NEW p \in Questions, ConfirmTags(e, p), NEW q \in Questions
      PROVE  question'[q] = question[q] \/ PersonWrote(q)
    BY <1>t, <1>3, <1>4 DEF ConfirmTags
<1>5. ASSUME NEW e \in Editors, NEW p \in Questions, ApproveCandidate(e, p), NEW q \in Questions
      PROVE  question'[q] = question[q] \/ PersonWrote(q)
    <2> DEFINE basis(v) == [version |-> v, revision |-> page[e][p].revision]
    <2>1. PICK v \in candidates[p], tagged \in BOOLEAN :
             question' = [question EXCEPT ![p] = Retagged(p, tagged, "teacher", basis(v))]
        BY <1>5 DEF ApproveCandidate
    <2>2. v \in Nat /\ page[e][p] \in Basis
        BY <1>t, <2>1
    <2>3. basis(v) \in Basis
        BY <2>2 DEF Basis
    <2> HIDE DEF basis
    <2> QED
        BY <1>3, <2>1, <2>3
<1>6. ASSUME NEW p \in Questions, EditQuestion(p), NEW q \in Questions
      PROVE  question'[q] = question[q] \/ Edited(q)
    BY <1>t, <1>6 DEF EditQuestion, Edited
<1>7. (\A q \in Questions : question'[q] = question[q]) \/ ~UNCHANGED question
    OBVIOUS
<1> QED
    BY <1>1, <1>2, <1>4, <1>5, <1>6, <1>7
    DEF Next, Progress, LeaseStep, QueueStep, EditorStep, vars, tagVars,
        ReadQuestion, ReadForModel, StoreCandidate, SkipWithoutModel, CheckSuggestion,
        RunFailed, StoreResult, StoreFailure, Crash, RecoverExpiredTagJobs, ClaimTagJob,
        ClaimNothing, StartAutoTag, QueueImportJob, QueueBankJob, LeaseExpires,
        BackoffEnds, OpenQuestion

(***************************************************************************)
(* The inductive invariant.  A row keeps what its job was queued for and   *)
(* counts an attempt with every lease token it draws; a run remembers the  *)
(* question and the expectations of its row, a token the row has drawn,    *)
(* and content versions that lie between what it read first and the        *)
(* question's own.                                                         *)
(***************************************************************************)
RowKept(row, new) ==
    row.status # "absent" =>
        /\ new.status # "absent" /\ new.kind = row.kind /\ new.expected = row.expected
        /\ new.issued >= row.issued
        /\ new.issued = row.issued => new.attempts = row.attempts

RowFits(row) ==
    /\ row.status = "running" => row.lease = row.issued
    /\ row.attempts <= MaxAttempts
    /\ row.status = "queued" => row.attempts < MaxAttempts
    /\ row.result = "suggested" =>
          row.kind = "bank" /\ row.candidate = row.expected.version

RunOfRow(a, row) ==
    /\ row.status # "absent" /\ a.kind = row.kind
    /\ a.kind = "bank" => a.seen = row.expected
    /\ a.token <= row.issued
    /\ a.token = row.issued => a.attempt = row.attempts

RunVersions(a, version) ==
    /\ a.pc \in {"asking", "calling", "answered"} => a.seen.version <= version
    /\ a.pc \in {"calling", "answered"} => a.seen.version <= a.got /\ a.got <= version
    /\ a.pc = "storing" /\ a.result = "suggested" => a.kind = "bank" /\ a.got = a.seen.version

RowInv == \A j \in Jobs : RowFits(job[j])

RunInv ==
    \A r \in Runners : Busy(r) =>
        /\ run[r].kind = "bank" => run[r].job \in Jobs
        /\ run[r].job \in Jobs => RunOfRow(run[r], job[run[r].job])
        /\ RunVersions(run[r], question[run[r].question].version)

\* A run that holds its row knows the attempt the row is in.
LEMMA HolderKnowsAttempt ==
    ASSUME TypeOK, RowInv, RunInv, NEW r \in Runners, Busy(r), Holds(r)
    PROVE  /\ run[r].job \in Jobs
           /\ run[r].attempt = job[run[r].job].attempts
           /\ RunOfRow(run[r], job[run[r].job])
    BY DEF RowInv, RowFits, RunInv, RunOfRow, Holds

LEMMA RequeuedFits ==
    ASSUME NEW row \in JobRow, RowFits(row)
    PROVE  LET new == RequeuedRow(row, row.attempts)
           IN  RowFits(new) /\ RowKept(row, new) /\ new.status \in {"queued", "failed"}
<1> DEFINE new == RequeuedRow(row, row.attempts)
<1>1. /\ new.status = IF row.attempts >= MaxAttempts THEN "failed" ELSE "queued"
      /\ new.attempts = row.attempts /\ new.issued = row.issued /\ new.kind = row.kind
      /\ new.expected = row.expected /\ new.result = row.result
      /\ new.candidate = row.candidate
    BY DEF RequeuedRow, JobRow
<1>2. row.attempts \in Nat /\ row.issued \in Nat /\ MaxAttempts \in Nat
    BY BoundsAssumption DEF JobRow
<1> HIDE DEF new
<1>3. RowFits(new) /\ RowKept(row, new) /\ new.status \in {"queued", "failed"}
    BY <1>1, <1>2 DEF RowFits, RowKept
<1> QED
    BY <1>3 DEF new

\* Every step keeps every row's history, and the rows fit.
LEMMA JobMoves ==
    ASSUME TypeOK, RowInv, RunInv, [Next]_vars, NEW j \in Jobs
    PROVE  RowFits(job'[j]) /\ RowKept(job[j], job'[j])
<1>t. /\ job[j] \in JobRow /\ RowFits(job[j])
      /\ job \in [Jobs -> JobRow]
      /\ run \in [Runners -> Run]
      /\ job[j].attempts \in Nat /\ job[j].issued \in Nat /\ MaxAttempts \in Nat
      /\ Workers \subseteq Runners
    BY BoundsAssumption DEF TypeOK, RowInv, JobRow, Runners
<1>0. ASSUME job'[j] = job[j] PROVE RowFits(job'[j]) /\ RowKept(job[j], job'[j])
    BY <1>0, <1>t DEF RowKept
<1>1. ASSUME NEW w \in Workers, RecoverExpiredTagJobs(w)
      PROVE  RowFits(job'[j]) /\ RowKept(job[j], job'[j])
    <2>1. job'[j] = RequeuedRow(job[j], job[j].attempts) \/ job'[j] = job[j]
        BY <1>1 DEF RecoverExpiredTagJobs
    <2> QED
        BY <1>0, <1>t, <2>1, RequeuedFits
<1>2. ASSUME NEW w \in Workers, NEW k \in Jobs, ClaimTagJob(w, k)
      PROVE  RowFits(job'[j]) /\ RowKept(job[j], job'[j])
    <2>1. CASE j = k
        <3>1. job[j].status = "queued" /\ job'[j] = ClaimedRow(job[j])
            BY <1>2, <1>t, <2>1 DEF ClaimTagJob, FirstInLine, Claimable
        <3>2. /\ job'[j].status = "running" /\ job'[j].attempts = job[j].attempts + 1
              /\ job'[j].issued = job[j].issued + 1 /\ job'[j].lease = job[j].issued + 1
              /\ job'[j].kind = job[j].kind /\ job'[j].expected = job[j].expected
              /\ job'[j].result = job[j].result /\ job'[j].candidate = job[j].candidate
            BY <1>t, <3>1 DEF ClaimedRow, JobRow
        <3> QED
            BY <1>t, <3>1, <3>2 DEF RowFits, RowKept
    <2>2. CASE j # k
        BY <1>0, <1>2, <1>t, <2>2 DEF ClaimTagJob
    <2> QED
        BY <2>1, <2>2
<1>3. ASSUME NEW r \in Runners, StoreResult(r)
      PROVE  RowFits(job'[j]) /\ RowKept(job[j], job'[j])
    <2>1. CASE MayStore(r) /\ j = run[r].job
        <3>1. Busy(r) /\ Holds(r) /\ run[r].pc = "storing"
            BY <1>3, <2>1 DEF StoreResult, Busy, MayStore
        <3>2. RunOfRow(run[r], job[j])
            BY <2>1, <3>1, HolderKnowsAttempt
        <3>3. RunVersions(run[r], question[run[r].question].version)
            BY <3>1 DEF RunInv
        <3>4. job'[j] = StoredRow(job[j], run[r].result, run[r].got)
            BY <1>3, <1>t, <2>1 DEF StoreResult
        <3>5. /\ job'[j].status = "completed" /\ job'[j].attempts = job[j].attempts
              /\ job'[j].issued = job[j].issued
              /\ job'[j].kind = job[j].kind /\ job'[j].expected = job[j].expected
              /\ job'[j].result = run[r].result /\ job'[j].candidate = run[r].got
            BY <1>t, <3>4 DEF StoredRow, JobRow
        <3> QED
            BY <1>t, <3>1, <3>2, <3>3, <3>5 DEF RowFits, RowKept, RunOfRow, RunVersions
    <2>2. CASE ~(MayStore(r) /\ j = run[r].job)
        <3>1. job'[j] = job[j]
            BY <1>3, <1>t, <2>2 DEF StoreResult
        <3> QED
            BY <1>0, <3>1
    <2> QED
        BY <2>1, <2>2
<1>4. ASSUME NEW r \in Runners, StoreFailure(r)
      PROVE  RowFits(job'[j]) /\ RowKept(job[j], job'[j])
    <2>1. CASE MayStore(r) /\ j = run[r].job
        <3>1. Busy(r) /\ Holds(r)
            BY <1>4, <2>1 DEF StoreFailure, Busy, MayStore
        <3>2. run[r].attempt = job[j].attempts
            BY <2>1, <3>1, HolderKnowsAttempt
        <3> DEFINE new == RequeuedRow(job[j], job[j].attempts)
        <3>3. job'[j] = [new EXCEPT !.result = "failed"]
            BY <1>4, <1>t, <2>1, <3>2 DEF StoreFailure
        <3>4. new \in JobRow
            BY <1>t, JobRowUpdates
        <3>5. RowFits(new) /\ RowKept(job[j], new)
            BY <1>t, RequeuedFits
        <3> HIDE DEF new
        <3>6. /\ job'[j].status = new.status /\ job'[j].attempts = new.attempts
              /\ job'[j].issued = new.issued /\ job'[j].kind = new.kind
              /\ job'[j].expected = new.expected /\ job'[j].result = "failed"
              /\ job'[j].lease = new.lease
            BY <3>3, <3>4 DEF JobRow
        <3> QED
            BY <3>5, <3>6 DEF RowFits, RowKept
    <2>2. CASE ~(MayStore(r) /\ j = run[r].job)
        <3>1. job'[j] = job[j]
            BY <1>4, <1>t, <2>2 DEF StoreFailure
        <3> QED
            BY <1>0, <3>1
    <2> QED
        BY <2>1, <2>2
<1>5. ASSUME NEW k \in Jobs, NEW q \in Questions, NEW kind, job[k].status = "absent",
             job' = [job EXCEPT ![k] = QueuedRow(kind, q)]
      PROVE  RowFits(job'[j]) /\ RowKept(job[j], job'[j])
    <2>1. CASE j = k
        <3>1. job'[j].status = "queued" /\ job'[j].attempts = 0 /\ job'[j].result = "none"
            BY <1>t, <1>5, <2>1 DEF QueuedRow, NoRow
        <3> QED
            BY <1>5, <2>1, <3>1, BoundsAssumption DEF RowFits, RowKept
    <2>2. CASE j # k
        BY <1>0, <1>5, <1>t, <2>2
    <2> QED
        BY <2>1, <2>2
<1>6. ASSUME NEW k \in Jobs, LeaseExpires(k) \/ BackoffEnds(k)
      PROVE  RowFits(job'[j]) /\ RowKept(job[j], job'[j])
    <2>1. /\ job'[j].status = job[j].status /\ job'[j].attempts = job[j].attempts
          /\ job'[j].issued = job[j].issued /\ job'[j].kind = job[j].kind
          /\ job'[j].expected = job[j].expected /\ job'[j].result = job[j].result
          /\ job'[j].candidate = job[j].candidate /\ job'[j].lease = job[j].lease
        BY <1>6, <1>t DEF LeaseExpires, BackoffEnds, JobRow
    <2> QED
        BY <1>t, <2>1 DEF RowFits, RowKept
<1>7. ASSUME UNCHANGED job PROVE RowFits(job'[j]) /\ RowKept(job[j], job'[j])
    BY <1>0, <1>7
<1> QED
    BY <1>1, <1>2, <1>3, <1>4, <1>5, <1>6, <1>7
    DEF Next, Progress, LeaseStep, QueueStep, EditorStep, vars,
        ReadQuestion, ReadForModel, StoreCandidate, SkipWithoutModel, CheckSuggestion,
        ApplyTags, RunFailed, Crash, ClaimNothing, StartAutoTag, SaveTags, OpenQuestion,
        ConfirmTags, ApproveCandidate, EditQuestion, QueueImportJob, QueueBankJob

LEMMA VersionsGrow ==
    ASSUME TypeOK, [Next]_vars, NEW q \in Questions
    PROVE  question'[q].version >= question[q].version
<1>1. question[q] \in QuestionRow /\ question[q].version \in Nat
    BY DEF TypeOK, QuestionRow
<1>2. CASE \E r \in Runners : AutoWrite(r)
    <2>1. PICK r \in Runners : AutoWrite(r)
        BY <1>2
    <2> DEFINE new == Retagged(run[r].question, TRUE, "llm_auto",
                   [version |-> run[r].got, revision |-> run[r].seen.revision])
    <2>2. run[r].question \in Questions
        BY DEF TypeOK, Run
    <2>3. new.version = question[run[r].question].version
        <3>1. \A tagged, by, basis :
                 Retagged(run[r].question, tagged, by, basis).version
                     = question[run[r].question].version
            BY <2>2, RetaggedFields
        <3> QED
            BY <3>1, Zenon
    <2>4. question' = [question EXCEPT ![run[r].question] = new]
        BY <2>1 DEF AutoWrite
    <2> HIDE DEF new
    <2> QED
        BY <1>1, <2>2, <2>3, <2>4 DEF TypeOK
<1>3. CASE question'[q] = question[q] \/ PersonWrote(q) \/ Edited(q)
    BY <1>1, <1>3 DEF PersonWrote, Edited, QuestionRow
<1> QED
    BY <1>2, <1>3, QuestionMoves

\* A step of a run leaves alone what ties it to its row.
SameJob(a, b) ==
    /\ b.kind = a.kind /\ b.job = a.job /\ b.question = a.question
    /\ b.token = a.token /\ b.attempt = a.attempt
    /\ a.kind = "bank" => b.seen = a.seen

LEMMA ProgressMoves ==
    ASSUME TypeOK, RunInv, NEW r \in Runners, Progress(r), Busy(r)'
    PROVE  /\ Busy(r) /\ SameJob(run[r], run'[r]) /\ job' = job
           /\ RunVersions(run'[r], question[run[r].question].version)
<1> DEFINE version == question[run[r].question].version
<1>t. /\ run \in [Runners -> Run] /\ run[r] \in Run
      /\ run[r].question \in Questions
      /\ version \in Nat /\ run[r].seen.version \in Nat /\ run[r].got \in Nat
    BY DEF TypeOK, Run, QuestionRow, Basis
<1>v. Busy(r) => RunVersions(run[r], version)
    BY DEF RunInv
<1>1. ASSUME NEW result,
             result = "suggested" => run[r].kind = "bank" /\ run[r].got = run[r].seen.version
      PROVE  run' = Ended(r, result) =>
                 SameJob(run[r], run'[r]) /\ RunVersions(run'[r], version)
    <2> SUFFICES ASSUME run' = Ended(r, result)
                 PROVE  SameJob(run[r], run'[r]) /\ RunVersions(run'[r], version)
        OBVIOUS
    <2>1. run'[r] = [run[r] EXCEPT !.pc = "storing", !.result = result]
        BY <1>t DEF Ended
    <2> QED
        BY <1>t, <1>1, <2>1 DEF Run, SameJob, RunVersions
<1>2. CASE ReadQuestion(r)
    <2>1. Busy(r) /\ UNCHANGED job
        BY <1>2 DEF ReadQuestion, Busy, Working
    <2>2. CASE StaleAtStart(r)
        <3>1. run' = Ended(r, "stale")
            BY <1>2, <2>2 DEF ReadQuestion
        <3> QED
            BY <1>1, <2>1, <3>1
    <2>3. CASE ~StaleAtStart(r)
        <3> DEFINE seen == IF run[r].kind = "bank" THEN run[r].seen
                           ELSE Current(run[r].question)
        <3>1. run'[r] = [run[r] EXCEPT !.pc = "asking", !.seen = seen]
            BY <1>t, <1>2, <2>3 DEF ReadQuestion
        <3>2. /\ run'[r].pc = "asking" /\ run'[r].seen = seen
              /\ run'[r].kind = run[r].kind /\ run'[r].job = run[r].job
              /\ run'[r].question = run[r].question
              /\ run'[r].token = run[r].token /\ run'[r].attempt = run[r].attempt
            BY <1>t, <3>1 DEF Run
        <3>3. seen.version <= version
            BY <1>t, <2>3 DEF StaleAtStart, Current
        <3> QED
            BY <2>1, <3>2, <3>3 DEF SameJob, RunVersions
    <2> QED
        BY <2>2, <2>3
<1>3. CASE ReadForModel(r)
    <2>1. run'[r] = [run[r] EXCEPT !.pc = "calling", !.got = version]
        BY <1>t, <1>3 DEF ReadForModel
    <2>2. Busy(r) /\ UNCHANGED job /\ run[r].seen.version <= version
        BY <1>3, <1>v DEF ReadForModel, Busy, Working, RunVersions
    <2>3. /\ run'[r].pc = "calling" /\ run'[r].got = version /\ run'[r].seen = run[r].seen
          /\ SameJob(run[r], run'[r])
        BY <1>t, <2>1 DEF Run, SameJob
    <2> QED
        BY <1>t, <2>2, <2>3 DEF RunVersions
<1>4. CASE StoreCandidate(r)
    <2>1. run'[r] = [run[r] EXCEPT !.pc = "answered"]
        BY <1>t, <1>4 DEF StoreCandidate
    <2>2. Busy(r) /\ UNCHANGED job
        BY <1>4 DEF StoreCandidate, Busy, Working
    <2>3. /\ run'[r].pc = "answered" /\ run'[r].got = run[r].got /\ run'[r].seen = run[r].seen
          /\ SameJob(run[r], run'[r])
        BY <1>t, <2>1 DEF Run, SameJob
    <2> QED
        BY <1>4, <1>v, <2>2, <2>3 DEF RunVersions, StoreCandidate
<1>5. CASE SkipWithoutModel(r)
    <2>1. run'[r] = [run[r] EXCEPT !.pc = "storing", !.result = "skipped", !.got = 0]
        BY <1>t, <1>5 DEF SkipWithoutModel
    <2>2. Busy(r) /\ UNCHANGED job
        BY <1>5 DEF SkipWithoutModel, Busy, Working
    <2>3. run'[r].pc = "storing" /\ run'[r].result = "skipped" /\ SameJob(run[r], run'[r])
        BY <1>t, <2>1 DEF Run, SameJob
    <2> QED
        BY <2>2, <2>3 DEF RunVersions
<1>6. CASE CheckSuggestion(r)
    <2>1. Busy(r) /\ UNCHANGED job /\ run[r].kind = "bank" /\ run[r].pc = "answered"
        BY <1>6 DEF CheckSuggestion, Busy, Working, tagVars
    <2>2. ~StaleSuggestion(r) => run[r].got = run[r].seen.version
        <3>1. ~StaleSuggestion(r) => version = run[r].seen.version
            BY DEF StaleSuggestion, Current
        <3> QED
            BY <1>t, <1>v, <2>1, <3>1 DEF RunVersions
    <2>3. CASE StaleSuggestion(r)
        <3>1. run' = Ended(r, "stale")
            BY <1>6, <2>3 DEF CheckSuggestion
        <3> QED
            BY <1>1, <2>1, <3>1
    <2>4. CASE ~StaleSuggestion(r)
        <3>1. run' = Ended(r, "suggested")
            BY <1>6, <2>4 DEF CheckSuggestion
        <3> QED
            BY <1>1, <2>1, <2>2, <2>4, <3>1
    <2> QED
        BY <2>1, <2>3, <2>4
<1>7. CASE ApplyTags(r)
    <2>1. Busy(r) /\ UNCHANGED job
        BY <1>7 DEF ApplyTags, Busy, Working
    <2>2. PICK result \in {"skipped", "empty", "tagged"} : run' = Ended(r, result)
        BY <1>7 DEF ApplyTags
    <2> QED
        BY <1>1, <2>1, <2>2
<1>8. CASE RunFailed(r)
    <2>1. run'[r] = [run[r] EXCEPT !.pc = "failing"]
        BY <1>t, <1>8 DEF RunFailed
    <2>2. Busy(r) /\ UNCHANGED job
        BY <1>8 DEF RunFailed, Busy, Working
    <2>3. run'[r].pc = "failing" /\ SameJob(run[r], run'[r])
        BY <1>t, <2>1 DEF Run, SameJob
    <2> QED
        BY <2>2, <2>3 DEF RunVersions
<1>9. CASE StoreResult(r) \/ StoreFailure(r)
    BY <1>t, <1>9 DEF StoreResult, StoreFailure, Busy, Working, Idle
<1> QED
    BY <1>2, <1>3, <1>4, <1>5, <1>6, <1>7, <1>8, <1>9 DEF Progress

LEMMA RunInvStep ==
    ASSUME TypeOK, RowInv, RunInv, [Next]_vars
    PROVE  RunInv'
<1> DEFINE Fine(r) ==
        /\ run[r].kind = "bank" => run[r].job \in Jobs
        /\ run[r].job \in Jobs => RunOfRow(run[r], job[run[r].job])
        /\ RunVersions(run[r], question[run[r].question].version)
<1> SUFFICES ASSUME NEW r \in Runners, Busy(r)' PROVE Fine(r)'
    BY DEF RunInv
<1>t. /\ run \in [Runners -> Run] /\ run[r] \in Run /\ run[r].question \in Questions
      /\ run[r].seen.version \in Nat /\ run[r].got \in Nat /\ run[r].token \in Nat
      /\ \A j \in Jobs : job[j].issued \in Nat
      /\ \A q \in Questions : question[q].version \in Nat
      /\ Workers \subseteq Runners /\ Threads \subseteq Runners
    BY DEF TypeOK, Run, Basis, JobRow, QuestionRow, Runners
<1>t2. /\ \A j \in Jobs : job'[j].issued \in Nat
       /\ \A q \in Questions : question'[q].version \in Nat
    <2>1. TypeOK'
        BY TypeStep
    <2> QED
        BY <2>1 DEF TypeOK, JobRow, QuestionRow
<1>1. CASE run'[r] = run[r]
    <2>1. Busy(r) /\ Fine(r)
        BY <1>1 DEF Busy, RunInv
    <2>2. run[r].job \in Jobs => RunOfRow(run[r], job'[run[r].job])
        <3> SUFFICES ASSUME run[r].job \in Jobs PROVE RunOfRow(run[r], job'[run[r].job])
            OBVIOUS
        <3>1. RowKept(job[run[r].job], job'[run[r].job])
            BY JobMoves
        <3> QED
            BY <1>t, <1>t2, <2>1, <3>1 DEF RunOfRow, RowKept
    <2>3. question'[run[r].question].version >= question[run[r].question].version
        BY <1>t, VersionsGrow
    <2>4. RunVersions(run[r], question'[run[r].question].version)
        BY <1>t, <1>t2, <2>1, <2>3 DEF RunVersions
    <2> QED
        BY <1>1, <2>1, <2>2, <2>4
<1>2. ASSUME Progress(r) PROVE Fine(r)'
    <2>1. /\ Busy(r) /\ SameJob(run[r], run'[r]) /\ job' = job
          /\ RunVersions(run'[r], question[run[r].question].version)
        BY <1>2, ProgressMoves
    <2>2. Fine(r)
        BY <2>1 DEF RunInv
    <2>3. question'[run[r].question].version >= question[run[r].question].version
        BY <1>t, VersionsGrow
    <2>4. run'[r].seen.version \in Nat /\ run'[r].got \in Nat
        <3>1. TypeOK'
            BY TypeStep
        <3> QED
            BY <3>1 DEF TypeOK, Run, Basis
    <2>5. RunVersions(run'[r], question'[run[r].question].version)
        BY <1>t, <1>t2, <2>1, <2>3, <2>4 DEF RunVersions
    <2>6. run'[r].job \in Jobs => RunOfRow(run'[r], job'[run'[r].job])
        BY <2>1, <2>2 DEF SameJob, RunOfRow
    <2> QED
        BY <2>1, <2>2, <2>5, <2>6 DEF SameJob
<1>3. ASSUME NEW w \in Workers, NEW j \in Jobs, ClaimTagJob(w, j) PROVE Fine(r)'
    <2>1. CASE r = w
        <3>1. /\ run'[r] = ClaimedRun(j) /\ job'[j] = ClaimedRow(job[j])
              /\ job[j] \in JobRow /\ job[j].status = "queued"
            BY <1>3, <1>t, <2>1 DEF ClaimTagJob, TypeOK, FirstInLine, Claimable
        <3>2. /\ run'[r].pc = "reading" /\ run'[r].job = j /\ run'[r].kind = job[j].kind
              /\ run'[r].token = job[j].issued + 1 /\ run'[r].attempt = job[j].attempts + 1
              /\ run'[r].kind = "bank" => run'[r].seen = job[j].expected
            BY <3>1 DEF ClaimedRun, Idle
        <3>3. /\ job'[j].status = "running" /\ job'[j].kind = job[j].kind
              /\ job'[j].expected = job[j].expected /\ job'[j].issued = job[j].issued + 1
              /\ job'[j].attempts = job[j].attempts + 1
            BY <3>1 DEF ClaimedRow, JobRow
        <3> QED
            BY <1>t2, <3>2, <3>3 DEF RunOfRow, RunVersions
    <2>2. CASE r # w
        BY <1>1, <1>3, <1>t, <2>2 DEF ClaimTagJob
    <2> QED
        BY <2>1, <2>2
<1>4. ASSUME NEW h \in Threads, NEW q \in Questions, StartAutoTag(h, q) PROVE Fine(r)'
    <2>1. CASE r = h
        <3>1. run'[r] = [Idle EXCEPT !.pc = "reading", !.kind = "import", !.question = q]
            BY <1>4, <1>t, <2>1 DEF StartAutoTag
        <3>2. run'[r].pc = "reading" /\ run'[r].kind = "import" /\ run'[r].job = NoJob
            BY <3>1 DEF Idle
        <3> QED
            BY <3>2, JobsAssumption DEF RunVersions
    <2>2. CASE r # h
        BY <1>1, <1>4, <1>t, <2>2 DEF StartAutoTag
    <2> QED
        BY <2>1, <2>2
<1>5. ASSUME NEW x \in Runners, Crash(x) \/ StoreResult(x) \/ StoreFailure(x) \/
                 RecoverExpiredTagJobs(x) \/ ClaimNothing(x)
      PROVE  run'[r] = run[r]
    <2>1. \/ run' = [run EXCEPT ![x] = Idle]
          \/ run' = [run EXCEPT ![x].pc = "claiming"]
        BY <1>5 DEF Crash, StoreResult, StoreFailure, RecoverExpiredTagJobs, ClaimNothing
    <2>2. CASE r = x
        <3>1. run'[r].pc \in {"idle", "claiming"}
            BY <1>t, <2>1, <2>2 DEF Idle, Run
        <3> QED
            BY <3>1 DEF Busy, Working
    <2> QED
        BY <1>t, <2>1, <2>2
<1>6. ASSUME NEW x \in Runners, x # r, Progress(x) PROVE run'[r] = run[r]
    BY <1>6, <1>t
    DEF Progress, ReadQuestion, ReadForModel, StoreCandidate, SkipWithoutModel, CheckSuggestion,
        ApplyTags, RunFailed, StoreResult, StoreFailure, Ended
<1>7. ASSUME UNCHANGED run PROVE run'[r] = run[r]
    BY <1>7
<1> QED
    BY <1>1, <1>2, <1>3, <1>4, <1>5, <1>6, <1>7, <1>t
    DEF Next, LeaseStep, QueueStep, EditorStep, vars, SaveTags, OpenQuestion,
        ConfirmTags, ApproveCandidate, EditQuestion, QueueImportJob, QueueBankJob,
        LeaseExpires, BackoffEnds

\* The row and run invariants hold in every state; TypeOK is needed with them.
IndInv == TypeOK /\ RowInv /\ RunInv

LEMMA IndInvHolds == Spec => []IndInv
<1>1. Init => IndInv
    <2> SUFFICES ASSUME Init PROVE IndInv
        OBVIOUS
    <2>1. TypeOK
        BY InitType
    <2>2. RowInv
        <3>1. NoRow.status = "absent" /\ NoRow.attempts = 0 /\ NoRow.result = "none"
            BY DEF NoRow
        <3>2. 0 < MaxAttempts /\ 0 <= MaxAttempts
            BY BoundsAssumption
        <3>3. NoRow.attempts < MaxAttempts /\ NoRow.attempts <= MaxAttempts
            BY <3>1, <3>2, Zenon
        <3>4. RowFits(NoRow)
            BY <3>1, <3>3, Zenon DEF RowFits
        <3>5. \A j \in Jobs : job[j] = NoRow
            BY DEF Init
        <3> QED
            BY <3>5, <3>4 DEF RowInv
    <2>3. RunInv
        BY DEF Init, RunInv, Busy, Working, Idle
    <2> QED
        BY <2>1, <2>2, <2>3 DEF IndInv
<1>2. IndInv /\ [Next]_vars => IndInv'
    <2> SUFFICES ASSUME TypeOK, RowInv, RunInv, [Next]_vars PROVE IndInv'
        BY DEF IndInv
    <2>1. TypeOK'
        BY TypeStep
    <2>2. RowInv'
        BY JobMoves DEF RowInv
    <2>3. RunInv'
        BY RunInvStep
    <2> QED
        BY <2>1, <2>2, <2>3 DEF IndInv
<1> QED
    BY <1>1, <1>2, PTL DEF Spec

\* A row never counts more claims than TAG_JOB_MAX_ATTEMPTS, and a row that can
\* be claimed again has one left: claim adds an attempt only to a queued row, and
\* the two updates that queue a row again compare its attempts with the limit.
THEOREM AttemptsAreBounded == Spec => []AttemptsBounded
<1>1. IndInv => AttemptsBounded
    BY DEF IndInv, RowInv, RowFits, AttemptsBounded
<1> QED
    BY <1>1, IndInvHolds, PTL

\* The candidate a suggestion names was made from the version the job was queued
\* at: the run's three reads of the question bracket the version the model saw.
THEOREM SuggestionsFit == Spec => []SuggestionFits
<1>1. IndInv => SuggestionFits
    BY DEF IndInv, RowInv, RowFits, SuggestionFits
<1> QED
    BY <1>1, IndInvHolds, PTL

-----------------------------------------------------------------------------
(***************************************************************************)
(* Tags.  A revision is spent on every decision, so the run that reads     *)
(* revision 0 knows that no person has decided.                            *)
(***************************************************************************)
DecisionsCount ==
    \A q \in Questions : question[q].by \in Persons => question[q].revision > 0

\* The write of an automatic run, from a state of the invariant.
LEMMA AutoWriteFits ==
    ASSUME IndInv, NEW r \in Runners, AutoWrite(r), NEW q \in Questions,
           question'[q] # question[q]
    PROVE  /\ q = run[r].question
           /\ question'[q].by = "llm_auto" /\ question'[q].basis = question'[q].at
<1> DEFINE basis == [version |-> run[r].got, revision |-> run[r].seen.revision]
           new == Retagged(run[r].question, TRUE, "llm_auto", basis)
<1>1. /\ TypeOK /\ run[r].question \in Questions /\ run[r].seen \in Basis /\ run[r].got \in Nat
      /\ question[run[r].question].version \in Nat
    BY DEF IndInv, TypeOK, Run, QuestionRow
<1>2. question' = [question EXCEPT ![run[r].question] = new]
    BY DEF AutoWrite
<1>3. new.by = "llm_auto" /\ new.basis = basis /\ new.at = Current(run[r].question)
    <2>1. \A tagged, by, b :
             /\ Retagged(run[r].question, tagged, by, b).by = by
             /\ Retagged(run[r].question, tagged, by, b).basis = b
             /\ Retagged(run[r].question, tagged, by, b).at = Current(run[r].question)
        BY <1>1, RetaggedFields
    <2> HIDE DEF basis
    <2>2. new.by = "llm_auto"
        BY <2>1, Zenon
    <2>3. new.basis = basis
        <3>1. \A tagged : Retagged(run[r].question, tagged, "llm_auto", basis).basis = basis
            BY <2>1
        <3> QED
            BY <3>1, Zenon
    <2>4. new.at = Current(run[r].question)
        BY <2>1, Zenon
    <2> QED
        BY <2>2, <2>3, <2>4
<1>4. Current(run[r].question) = run[r].seen /\ run[r].pc = "answered"
    BY DEF AutoWrite, Unchanged
<1>5. run[r].got = run[r].seen.version
    <2>1. RunVersions(run[r], question[run[r].question].version)
        BY <1>4 DEF IndInv, RunInv, Busy, Working
    <2>2. run[r].seen.version = question[run[r].question].version
        BY <1>4 DEF Current
    <2> QED
        BY <1>1, <1>4, <2>1, <2>2 DEF RunVersions
<1>6. basis = Current(run[r].question)
    BY <1>1, <1>4, <1>5 DEF Basis
<1> HIDE DEF new, basis
<1> QED
    BY <1>1, <1>2, <1>3, <1>6 DEF TypeOK

TagInv == DecisionsCount /\ TagsFitTheQuestion

LEMMA TagInvStep ==
    ASSUME IndInv, TagInv, [Next]_vars
    PROVE  TagInv'
<1>t. TypeOK /\ \A q \in Questions : question[q].revision \in Nat
    BY DEF IndInv, TypeOK, QuestionRow
<1>0. ASSUME NEW q \in Questions, question'[q] = question[q]
      PROVE  /\ question'[q].by \in Persons => question'[q].revision > 0
             /\ question'[q].by \in {"llm_auto", "agent"} =>
                   question'[q].basis = question'[q].at
    BY <1>0 DEF TagInv, DecisionsCount, TagsFitTheQuestion
<1>1. CASE \E r \in Runners : AutoWrite(r)
    <2>1. PICK r \in Runners : AutoWrite(r)
        BY <1>1
    <2>2. ASSUME NEW q \in Questions, question'[q] # question[q]
          PROVE  question'[q].by = "llm_auto" /\ question'[q].basis = question'[q].at
        BY <2>1, <2>2, AutoWriteFits
    <2> QED
        BY <1>0, <2>2 DEF TagInv, DecisionsCount, TagsFitTheQuestion, Persons
<1>2. ASSUME NEW q \in Questions, PersonWrote(q)
      PROVE  /\ question'[q].by \in Persons => question'[q].revision > 0
             /\ question'[q].by \in {"llm_auto", "agent"} =>
                   question'[q].basis = question'[q].at
    BY <1>t, <1>2 DEF PersonWrote, Persons
<1>3. ASSUME NEW q \in Questions, Edited(q)
      PROVE  /\ question'[q].by \in Persons => question'[q].revision > 0
             /\ question'[q].by \in {"llm_auto", "agent"} =>
                   question'[q].basis = question'[q].at
    <2>1. /\ question'[q].by = question[q].by /\ question'[q].revision = question[q].revision
          /\ question'[q].basis = question[q].basis /\ question'[q].at = question[q].at
        BY <1>t, <1>3 DEF Edited, TypeOK, QuestionRow
    <2> QED
        BY <2>1 DEF TagInv, DecisionsCount, TagsFitTheQuestion
<1> QED
    BY <1>0, <1>1, <1>2, <1>3, <1>t, QuestionMoves
    DEF TagInv, DecisionsCount, TagsFitTheQuestion

LEMMA TagInvHolds == Spec => []TagInv
<1>1. Init => TagInv
    BY DEF Init, TagInv, DecisionsCount, TagsFitTheQuestion, Persons
<1>2. IndInv /\ TagInv /\ [Next]_vars => TagInv'
    BY TagInvStep
<1> QED
    BY <1>1, <1>2, IndInvHolds, PTL DEF Spec

\* Tags an automatic run or an agent saved were chosen for the content, and
\* against the tags, the question had when they were written.
THEOREM TagsFit == Spec => []TagsFitTheQuestion
<1>1. TagInv => TagsFitTheQuestion
    BY DEF TagInv
<1> QED
    BY <1>1, TagInvHolds, PTL

\* No step lets an automatic run replace what a person decided: it finds either
\* their rows, or no rows and a revision above 0.
THEOREM PersonsHaveTheLastWord == Spec => PersonsDecide
<1>1. IndInv /\ TagInv /\ [Next]_vars =>
          \A q \in Questions : question[q].by \in Persons => question'[q].by # "llm_auto"
    <2> SUFFICES ASSUME IndInv, TagInv, [Next]_vars, NEW q \in Questions,
                        question[q].by \in Persons
                 PROVE  question'[q].by # "llm_auto"
        OBVIOUS
    <2>0. TypeOK /\ question[q] \in QuestionRow
        BY DEF IndInv, TypeOK
    <2>1. CASE question'[q] = question[q]
        BY <2>1 DEF Persons
    <2>2. ASSUME NEW r \in Runners, AutoWrite(r), question'[q] # question[q] PROVE FALSE
        <3>1. q = run[r].question
            BY <2>2, AutoWriteFits
        <3>2. Current(q) = run[r].seen /\ ~KeptByPerson(r)
            BY <2>2, <3>1 DEF AutoWrite, Unchanged
        <3>3. run[r].seen.revision = question[q].revision
            BY <3>2 DEF Current
        <3>4. question[q].revision > 0
            BY DEF TagInv, DecisionsCount
        <3> QED
            BY <3>1, <3>2, <3>3, <3>4 DEF KeptByPerson
    <2>3. CASE PersonWrote(q)
        BY <2>3 DEF PersonWrote, Persons
    <2>4. CASE Edited(q)
        BY <2>0, <2>4 DEF Edited, QuestionRow, Persons
    <2> QED
        BY <2>0, <2>1, <2>2, <2>3, <2>4, QuestionMoves
<1> QED
    BY <1>1, IndInvHolds, TagInvHolds, PTL DEF Spec, PersonsDecide

-----------------------------------------------------------------------------
\* A worker whose lease is gone leaves the row as it is when it stores a result
\* or a failure: the update names the lease token.
THEOREM LateRunsFenced == Spec => LateRunsAreFenced
<1>1. TypeOK /\ [Next]_vars =>
          \A w \in Workers :
             Busy(w) /\ run'[w] # run[w] /\ ~Holds(w) /\ run[w].job \in Jobs
                => job'[run[w].job] = job[run[w].job]
    <2> SUFFICES ASSUME TypeOK, [Next]_vars, NEW w \in Workers,
                        Busy(w), run'[w] # run[w], ~Holds(w), run[w].job \in Jobs
                 PROVE  job'[run[w].job] = job[run[w].job]
        OBVIOUS
    <2>t. run \in [Runners -> Run] /\ Workers \subseteq Runners
        BY DEF TypeOK, Runners
    <2>1. ASSUME NEW x \in Workers, x # w PROVE ~LeaseStep(x)
        BY <2>1, <2>t
        DEF LeaseStep, RecoverExpiredTagJobs, ClaimTagJob, ClaimNothing
    <2>2. ~LeaseStep(w)
        BY DEF LeaseStep, RecoverExpiredTagJobs, ClaimTagJob, ClaimNothing, Busy, Working
    <2>3. ASSUME NEW x \in Runners, StoreResult(x) \/ StoreFailure(x) PROVE UNCHANGED job
        <3>1. x = w
            BY <2>3, <2>t DEF StoreResult, StoreFailure
        <3> QED
            BY <2>3, <3>1 DEF StoreResult, StoreFailure, MayStore
    <2>4. \A j \in Jobs : ~QueueStep(j)
        BY DEF QueueStep, QueueImportJob, QueueBankJob, LeaseExpires, BackoffEnds
    <2> QED
        BY <2>1, <2>2, <2>3, <2>4
        DEF Next, Progress, EditorStep, vars,
            ReadQuestion, ReadForModel, StoreCandidate, SkipWithoutModel, CheckSuggestion,
            ApplyTags, RunFailed, Crash, StartAutoTag, SaveTags, OpenQuestion,
            ConfirmTags, ApproveCandidate, EditQuestion
<1> QED
    BY <1>1, TypeCorrect, PTL DEF Spec, LateRunsAreFenced

\* Candidates and tags are those of the content and the tags they were chosen for.
THEOREM TagsStayCurrent == Spec => []TagsAreCurrent
    BY SuggestionsFit, TagsFit, PTL DEF TagsAreCurrent
=============================================================================
