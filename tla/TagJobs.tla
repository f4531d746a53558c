------------------------------ MODULE TagJobs ------------------------------
(***************************************************************************)
(* Tagging of bank questions: the rows of question_tag_jobs and the worker *)
(* processes that lease them (document_worker.py), the automatic tagging   *)
(* they run (repository.py), and the pages of teachers and agents that     *)
(* read a question and save tags for it later (question_bank.py).          *)
(* Every SQLite transaction is one action; a read made outside the         *)
(* transaction that uses it is an action of its own.  Which tags are       *)
(* chosen is left out: a question has tags or none, and who chose them.    *)
(***************************************************************************)
EXTENDS Naturals

CONSTANTS
    Jobs,         \* job rows, numbered in the order (created_at, id)
    Workers,      \* worker processes sharing the database
    Threads,      \* HTTP threads that run auto_tag_question for a teacher
    Questions,
    Editors,      \* pages on which a teacher or an agent tags questions
    Agents,       \* the editors that hold an agent token
    MaxAttempts,  \* TAG_JOB_MAX_ATTEMPTS
    MaxVersion,   \* bound: a question is edited only below this version
    MaxRevision,  \* bound: a person starts a tag change only below this revision
    NoJob

ASSUME JobsAssumption == Jobs \subseteq Nat /\ NoJob \notin Jobs
ASSUME QuestionsAssumption == Questions # {}
ASSUME RunnersAssumption == Workers \cap Threads = {}
ASSUME AgentsAssumption == Agents \subseteq Editors
ASSUME BoundsAssumption == MaxAttempts \in Nat \ {0} /\ MaxVersion \in Nat /\ MaxRevision \in Nat

VARIABLES
    question,    \* [Questions -> QuestionRow]: questions, question_tags, question_tag_revisions
    candidates,  \* [Questions -> SUBSET Nat]: question_tag_candidates, by the content
                 \* version each was made from
    job,         \* [Jobs -> JobRow]
    run,         \* [Workers \cup Threads -> Run]: the local state of each runner
    page         \* [Editors -> [Questions -> Basis]]: what each page has read

vars == <<question, candidates, job, run, page>>
tagVars == <<question, candidates, page>>

-----------------------------------------------------------------------------
Runners == Workers \cup Threads

\* What a writer of tags went by: a content version and a tag revision.  No
\* question has version 0.
Basis == [version : Nat, revision : Nat]
Unread == [version |-> 0, revision |-> 0]

\* tagged: question_tags has rows; by: who saved them, or saved that there are
\* none.  basis and at are history: what that writer had read, and the content
\* version and tag revision the change found.
Persons == {"teacher", "agent"}
QuestionRow == [version : Nat, revision : Nat, tagged : BOOLEAN,
                by : {"nobody", "llm_auto"} \cup Persons, basis : Basis, at : Basis]

Current(q) == [version |-> question[q].version, revision |-> question[q].revision]

Results == {"none", "stale", "suggested", "tagged", "empty", "skipped", "failed"}

\* expected is question_version together with the tag revision a bank job was
\* queued at; issued counts the lease tokens drawn; candidate is the content
\* version of the stored candidate, 0 for none.
JobRow == [status : {"absent", "queued", "running", "completed", "failed"},
           kind : {"import", "bank"}, question : Questions, expected : Basis,
           attempts : Nat, lease : Nat, expired : BOOLEAN, due : BOOLEAN, issued : Nat,
           result : Results, candidate : Nat]

\* seen is what the run compares with later, got the version its candidate is for.
Run == [pc : {"idle", "claiming", "reading", "asking", "calling", "answered",
              "storing", "failing"},
        job : Jobs \cup {NoJob}, kind : {"import", "bank"}, question : Questions,
        token : Nat, attempt : Nat, seen : Basis, got : Nat, result : Results]

AnyQuestion == CHOOSE q \in Questions : TRUE

NoRow == [status |-> "absent", kind |-> "bank", question |-> AnyQuestion, expected |-> Unread,
          attempts |-> 0, lease |-> 0, expired |-> FALSE, due |-> FALSE, issued |-> 0,
          result |-> "none", candidate |-> 0]

Idle == [pc |-> "idle", job |-> NoJob, kind |-> "bank", question |-> AnyQuestion, token |-> 0,
         attempt |-> 0, seen |-> Unread, got |-> 0, result |-> "none"]

Working == {"reading", "asking", "calling", "answered"}
Busy(r) == run[r].pc \in Working \cup {"storing", "failing"}

Holds(r) ==
    /\ run[r].job \in Jobs
    /\ job[run[r].job].status = "running" /\ job[run[r].job].lease = run[r].token

-----------------------------------------------------------------------------
Init ==
    /\ question = [q \in Questions |->
          [version |-> 1, revision |-> 0, tagged |-> FALSE, by |-> "nobody",
           basis |-> Unread, at |-> Unread]]
    /\ candidates = [q \in Questions |-> {}]
    /\ job = [j \in Jobs |-> NoRow]
    /\ run = [r \in Runners |-> Idle]
    /\ page = [e \in Editors |-> [q \in Questions |-> Unread]]

(***************************************************************************)
(* Queueing.  A publication queues one import job per question and version *)
(* (UNIQUE with INSERT OR IGNORE); the bank page queues a job for each     *)
(* question it names, with or without tags.  A repeated request_key only   *)
(* returns the recorded answer.                                            *)
(***************************************************************************)
QueuedRow(kind, q) ==
    [NoRow EXCEPT !.status = "queued", !.kind = kind, !.question = q, !.due = TRUE,
                  !.expected = Current(q)]

ImportQueued(q) ==
    \E j \in Jobs : /\ job[j].status # "absent" /\ job[j].kind = "import"
                    /\ job[j].question = q
                    /\ job[j].expected.version = question[q].version

QueueImportJob(j, q) ==
    /\ job[j].status = "absent" /\ ~ImportQueued(q)
    /\ job' = [job EXCEPT ![j] = QueuedRow("import", q)]
    /\ UNCHANGED <<run, tagVars>>

QueueBankJob(j, q) ==
    /\ job[j].status = "absent"
    /\ job' = [job EXCEPT ![j] = QueuedRow("bank", q)]
    /\ UNCHANGED <<run, tagVars>>

(***************************************************************************)
(* Leases: recover, claim.                                                 *)
(***************************************************************************)
\* Mutated form: one attempt too many.
RequeuedRow_OneMore(row, attempt) ==
    [row EXCEPT !.status = IF attempt > MaxAttempts THEN "failed" ELSE "queued",
                !.lease = 0, !.expired = FALSE, !.due = FALSE]

\* Mutated form: the state a conversion task waits for its retry in.
RequeuedRow_RetryWait(row, attempt) ==
    [row EXCEPT !.status = IF attempt >= MaxAttempts THEN "failed" ELSE "retry_wait",
                !.lease = 0, !.expired = FALSE, !.due = FALSE]

\* The row of a run that is over without a result: failed when that was its last
\* attempt, else queued again after a backoff.
RequeuedRow(row, attempt) ==
    [row EXCEPT !.status = IF attempt >= MaxAttempts THEN "failed" ELSE "queued",
                !.lease = 0, !.expired = FALSE, !.due = FALSE]

\* Mutated form: the rows that have used up their attempts are left alone.
Expired_Retriable(j) ==
    job[j].status = "running" /\ job[j].expired /\ job[j].attempts < MaxAttempts

Expired(j) == job[j].status = "running" /\ job[j].expired

RecoverExpiredTagJobs(w) ==
    /\ run[w].pc = "idle"
    /\ job' = [j \in Jobs |-> IF Expired(j) THEN RequeuedRow(job[j], job[j].attempts) ELSE job[j]]
    /\ run' = [run EXCEPT ![w].pc = "claiming"]
    /\ UNCHANGED tagVars

Claimable(j) == job[j].status = "queued" /\ job[j].due

FirstInLine(j) == Claimable(j) /\ \A k \in Jobs : Claimable(k) => j <= k

ClaimedRow(row) ==
    [row EXCEPT !.status = "running", !.attempts = @ + 1, !.lease = row.issued + 1,
                !.expired = FALSE, !.issued = @ + 1]

\* A bank job compares with what the row expects, an import job with what it
\* reads when it starts.
ClaimedRun(j) ==
    [Idle EXCEPT !.pc = "reading", !.job = j, !.kind = job[j].kind,
                 !.question = job[j].question, !.token = job[j].issued + 1,
                 !.attempt = job[j].attempts + 1,
                 !.seen = IF job[j].kind = "bank" THEN job[j].expected ELSE Unread]

ClaimTagJob(w, j) ==
    /\ run[w].pc = "claiming" /\ FirstInLine(j)
    /\ job' = [job EXCEPT ![j] = ClaimedRow(@)]
    /\ run' = [run EXCEPT ![w] = ClaimedRun(j)]
    /\ UNCHANGED tagVars

ClaimNothing(w) ==
    /\ run[w].pc = "claiming"
    /\ \A j \in Jobs : ~Claimable(j)
    /\ run' = [run EXCEPT ![w] = Idle]
    /\ UNCHANGED <<job, tagVars>>

(***************************************************************************)
(* One run of process_tag_job, or of auto_tag_question in an HTTP thread.  *)
(***************************************************************************)
StartAutoTag(h, q) ==
    /\ run[h].pc = "idle" /\ question[q].revision < MaxRevision
    /\ run' = [run EXCEPT ![h] = [Idle EXCEPT !.pc = "reading", !.kind = "import",
                                              !.question = q]]
    /\ UNCHANGED <<job, tagVars>>

Ended(r, result) == [run EXCEPT ![r].pc = "storing", ![r].result = result]

StaleAtStart(r) ==
    run[r].kind = "bank" /\ question[run[r].question].version # run[r].seen.version

ReadQuestion(r) ==
    /\ run[r].pc = "reading"
    /\ IF StaleAtStart(r)
       THEN run' = Ended(r, "stale")
       ELSE run' = [run EXCEPT ![r].pc = "asking",
                               ![r].seen = IF run[r].kind = "bank" THEN @
                                           ELSE Current(run[r].question)]
    /\ UNCHANGED <<job, tagVars>>

\* generate_llm_candidates reads the question again: this is the content the
\* model sees and the cache key is made of.
ReadForModel(r) ==
    /\ run[r].pc = "asking"
    /\ run' = [run EXCEPT ![r].pc = "calling", ![r].got = question[run[r].question].version]
    /\ UNCHANGED <<job, tagVars>>

\* The model answered, or a candidate of this version was in the cache.
StoreCandidate(r) ==
    /\ run[r].pc = "calling"
    /\ candidates' = [candidates EXCEPT ![run[r].question] = @ \cup {run[r].got}]
    /\ run' = [run EXCEPT ![r].pc = "answered"]
    /\ UNCHANGED <<question, job, page>>

\* No model is configured: automatic tagging is skipped (a bank job fails).
SkipWithoutModel(r) ==
    /\ run[r].kind = "import"
    /\ \/ run[r].pc = "reading" /\ UNCHANGED candidates
       \/ /\ run[r].pc = "calling"
          /\ candidates' = [candidates EXCEPT ![run[r].question] = @ \cup {run[r].got}]
    /\ run' = [run EXCEPT ![r].pc = "storing", ![r].result = "skipped", ![r].got = 0]
    /\ UNCHANGED <<question, job, page>>

\* Mutated form: after the call only the tag revision is compared.
StaleSuggestion_RevisionOnly(r) ==
    question[run[r].question].revision # run[r].seen.revision

\* The two reads compare as one: both numbers only grow.
StaleSuggestion(r) == Current(run[r].question) # run[r].seen

CheckSuggestion(r) ==
    /\ run[r].pc = "answered" /\ run[r].kind = "bank"
    /\ run' = Ended(r, IF StaleSuggestion(r) THEN "stale" ELSE "suggested")
    /\ UNCHANGED <<job, tagVars>>

\* Mutated form: the content version is not looked at again.
Unchanged_RevisionOnly(r) == question[run[r].question].revision = run[r].seen.revision

Unchanged(r) == Current(run[r].question) = run[r].seen

\* Mutated form: an explicit "no tags" is taken for a question nobody looked at.
KeptByPerson_RowsOnly(r) ==
    question[run[r].question].tagged /\ question[run[r].question].by \in Persons

\* manually_cleared, or a row of source teacher_review or agent.
KeptByPerson(r) ==
    LET row == question[run[r].question]
    IN  \/ run[r].seen.revision > 0 /\ ~row.tagged
        \/ row.tagged /\ row.by \in Persons

Retagged(q, tagged, by, basis) ==
    [question[q] EXCEPT !.revision = @ + 1, !.tagged = tagged, !.by = by,
                        !.basis = basis, !.at = Current(q)]

\* The last transaction of auto_tag_question.  Tags below the confidence
\* threshold are dropped, and none may be left.
ApplyTags(r) ==
    LET q == run[r].question
        basis == [version |-> run[r].got, revision |-> run[r].seen.revision]
    IN  /\ run[r].pc = "answered" /\ run[r].kind = "import"
        /\ \/ /\ ~Unchanged(r) \/ KeptByPerson(r)
              /\ run' = Ended(r, "skipped")
              /\ UNCHANGED question
           \/ /\ Unchanged(r) /\ ~KeptByPerson(r)
              /\ \/ /\ run' = Ended(r, "empty")
                    /\ UNCHANGED question
                 \/ /\ run' = Ended(r, "tagged")
                    /\ question' = [question EXCEPT ![q] = Retagged(q, TRUE, "llm_auto", basis)]
        /\ UNCHANGED <<candidates, job, page>>

\* The provider refused or failed, the budget is used up, a tag of the candidate
\* was disabled meanwhile, the database was busy.
RunFailed(r) ==
    /\ run[r].pc \in Working
    /\ run' = [run EXCEPT ![r].pc = "failing"]
    /\ UNCHANGED <<job, tagVars>>

\* Mutated form: the update names the job and its status, not the lease.
MayStore_StatusOnly(w) == run[w].job \in Jobs /\ job[run[w].job].status = "running"

MayStore(w) == Holds(w)

StoredRow(row, result, candidate) ==
    [row EXCEPT !.status = "completed", !.lease = 0, !.expired = FALSE,
                !.result = result, !.candidate = candidate]

StoreResult(w) ==
    /\ run[w].pc = "storing"
    /\ job' = IF MayStore(w)
              THEN [job EXCEPT ![run[w].job] = StoredRow(@, run[w].result, run[w].got)]
              ELSE job
    /\ run' = [run EXCEPT ![w] = Idle]
    /\ UNCHANGED tagVars

StoreFailure(w) ==
    /\ run[w].pc = "failing"
    /\ job' = IF MayStore(w)
              THEN [job EXCEPT ![run[w].job] =
                       [RequeuedRow(@, run[w].attempt) EXCEPT !.result = "failed"]]
              ELSE job
    /\ run' = [run EXCEPT ![w] = Idle]
    /\ UNCHANGED tagVars

\* The process is killed with a run in hand and started again.
Crash(r) ==
    /\ Busy(r)
    /\ run' = [run EXCEPT ![r] = Idle]
    /\ UNCHANGED <<job, tagVars>>

(***************************************************************************)
(* Teachers and agents.                                                    *)
(***************************************************************************)
OpenQuestion(e, q) ==
    /\ page[e][q] # Current(q)
    /\ page' = [page EXCEPT ![e][q] = Current(q)]
    /\ UNCHANGED <<question, candidates, job, run>>

SourceOf(e) == IF e \in Agents THEN "agent" ELSE "teacher"

UpToDate(e, S) == \A q \in S : page[e][q] = Current(q)

\* save_tags: all the entries of the request or none.
SaveTags(e, S) ==
    /\ S # {} /\ UpToDate(e, S) /\ \A q \in S : question[q].revision < MaxRevision
    /\ \E tagged \in [S -> BOOLEAN] :
          question' = [q \in Questions |->
              IF q \in S THEN Retagged(q, tagged[q], SourceOf(e), page[e][q]) ELSE question[q]]
    /\ UNCHANGED <<candidates, job, run, page>>

\* /api/teacher/question-tags/confirm takes the tags the page sends, without a
\* version or a revision.
ConfirmTags(e, q) ==
    /\ e \notin Agents /\ page[e][q] # Unread /\ question[q].revision < MaxRevision
    /\ \E tagged \in BOOLEAN :
          question' = [question EXCEPT ![q] = Retagged(q, tagged, "teacher", page[e][q])]
    /\ UNCHANGED <<candidates, job, run, page>>

\* approve_candidate_tags takes a candidate, whatever the question is now.
ApproveCandidate(e, q) ==
    /\ e \notin Agents /\ question[q].revision < MaxRevision
    /\ \E v \in candidates[q], tagged \in BOOLEAN :
          question' = [question EXCEPT ![q] =
              Retagged(q, tagged, "teacher", [version |-> v, revision |-> page[e][q].revision])]
    /\ UNCHANGED <<candidates, job, run, page>>

\* save_content, save_type, update_question, a recovered answer or a publication
\* that takes over an existing question.
EditQuestion(q) ==
    /\ question[q].version < MaxVersion
    /\ question' = [question EXCEPT ![q].version = @ + 1]
    /\ UNCHANGED <<candidates, job, run, page>>

(***************************************************************************)
(* Time.  A tag job has no heartbeat: its lease runs out when the model    *)
(* takes longer than TAG_JOB_LEASE_SECONDS.                                *)
(***************************************************************************)
LeaseExpires(j) ==
    /\ job[j].status = "running" /\ ~job[j].expired
    /\ job' = [job EXCEPT ![j].expired = TRUE]
    /\ UNCHANGED <<run, tagVars>>

BackoffEnds(j) ==
    /\ job[j].status = "queued" /\ ~job[j].due
    /\ job' = [job EXCEPT ![j].due = TRUE]
    /\ UNCHANGED <<run, tagVars>>

-----------------------------------------------------------------------------
Progress(r) ==
    \/ ReadQuestion(r)
    \/ ReadForModel(r)
    \/ StoreCandidate(r)
    \/ SkipWithoutModel(r)
    \/ CheckSuggestion(r)
    \/ ApplyTags(r)
    \/ RunFailed(r)
    \/ StoreResult(r)
    \/ StoreFailure(r)

LeaseStep(w) ==
    \/ RecoverExpiredTagJobs(w)
    \/ \E j \in Jobs : ClaimTagJob(w, j)
    \/ ClaimNothing(w)

QueueStep(j) ==
    \/ \E q \in Questions : QueueImportJob(j, q) \/ QueueBankJob(j, q)
    \/ LeaseExpires(j)
    \/ BackoffEnds(j)

EditorStep(e) ==
    \/ \E S \in SUBSET Questions : SaveTags(e, S)
    \/ \E q \in Questions : OpenQuestion(e, q) \/ ConfirmTags(e, q) \/ ApproveCandidate(e, q)

Next ==
    \/ \E r \in Runners : Progress(r) \/ Crash(r)
    \/ \E w \in Workers : LeaseStep(w)
    \/ \E h \in Threads, q \in Questions : StartAutoTag(h, q)
    \/ \E j \in Jobs : QueueStep(j)
    \/ \E e \in Editors : EditorStep(e)
    \/ \E q \in Questions : EditQuestion(q)

Spec == Init /\ [][Next]_vars

-----------------------------------------------------------------------------
\* The five variables hold values the tables, the runs and the pages can hold.
TypeOK ==
    /\ question \in [Questions -> QuestionRow]
    /\ candidates \in [Questions -> SUBSET Nat]
    /\ job \in [Jobs -> JobRow]
    /\ run \in [Runners -> Run]
    /\ page \in [Editors -> [Questions -> Basis]]

\* The old automatic jobs protect what a person has saved: once a teacher or an
\* agent has decided the tags of a question, "none" included, no automatic run
\* replaces that decision, however long ago it read the question, whether its
\* lease is still good and however often its job is retried.
PersonsDecide ==
    [][\A q \in Questions : question[q].by \in Persons => question'[q].by # "llm_auto"]_vars

\* Tags a model or an agent saved fit the content and replace the tags they were
\* chosen against: the question was edited, and its tags changed, only before the
\* writer read it or after it wrote.
TagsFitTheQuestion ==
    \A q \in Questions :
        question[q].by \in {"llm_auto", "agent"} => question[q].basis = question[q].at

\* A job reported as "suggested" carries a candidate made from the very content
\* the teacher asked about, although the content is read twice more while the
\* job runs and the result is stored later.
SuggestionFits ==
    \A j \in Jobs :
        job[j].result = "suggested" =>
            job[j].kind = "bank" /\ job[j].candidate = job[j].expected.version

\* Tags are proposed and stored for the content they were chosen for.
TagsAreCurrent == SuggestionFits /\ TagsFitTheQuestion

\* A question whose job keeps failing or killing its worker is given up after
\* TAG_JOB_MAX_ATTEMPTS claims.
AttemptsBounded ==
    \A j \in Jobs :
        /\ job[j].attempts <= MaxAttempts
        /\ job[j].status = "queued" => job[j].attempts < MaxAttempts

\* A worker that outlived its lease changes nothing of the job any more: its late
\* result, retry or failure never ends or requeues the run of a later claim.
LateRunsAreFenced ==
    [][\A w \in Workers :
          Busy(w) /\ run'[w] # run[w] /\ ~Holds(w) /\ run[w].job \in Jobs
             => job'[run[w].job] = job[run[w].job]]_vars

\* Every tag job ends, however its runs go (WorkerLoop states the fairness).
JobsEnd ==
    \A j \in Jobs : job[j].status = "queued" ~> job[j].status \in {"completed", "failed"}
=============================================================================
