--------------------------- MODULE DocumentTasks ---------------------------
(***************************************************************************)
(* The document conversion queue: rows of document_parse_tasks, the worker *)
(* processes of document_worker.py that lease and convert them, and the    *)
(* HTTP handlers of document_ingestion.py that create, cancel, retry,      *)
(* publish and delete them.  Every SQLite transaction is one action; a     *)
(* read made outside the transaction that uses it is an action of its own. *)
(* Real time is abstracted to two events: a lease runs out (LeaseExpires)  *)
(* and a backoff ends (BackoffEnds).                                       *)
(***************************************************************************)
EXTENDS Naturals

CONSTANTS
    Tasks,        \* task rows, numbered in the order (created_at, id)
    Workers,      \* worker processes sharing the database
    RetryKeys,    \* request keys a teacher may send with a retry
    MaxAttempts,  \* MAX_ATTEMPTS
    NoTask        \* no row; the key is unused

ASSUME TasksAssumption == Tasks \subseteq Nat
ASSUME MaxAttemptsAssumption == MaxAttempts \in Nat \ {0}
ASSUME NoTaskAssumption == NoTask \notin Tasks

VARIABLES
    task,         \* [Tasks -> Row]: the task row joined with its import batch
    conversions,  \* [Tasks -> SUBSET Conversion]: rows of document_conversions
    cancels,      \* [Tasks -> SUBSET {"queued","running"}]: cancel requests that
                  \* have read the row's status and have not written yet
    retryOf,      \* [RetryKeys -> Tasks or NoTask]: content_operation_keys
    worker        \* [Workers -> Job]: the local state of each worker process

vars == <<task, conversions, cancels, retryOf, worker>>
apiVars == <<cancels, retryOf>>

-----------------------------------------------------------------------------
Statuses == {"absent", "queued", "running", "parsed", "failed", "cancelled", "deleted"}
BatchStatuses == {"none", "queued", "failed", "cancelled", "needs_review",
                  "partially_saved", "saved"}

\* issued counts the lease tokens drawn for the row, so that issued + 1 is a
\* fresh one (uuid4); lease = 0 stands for NULL.
Row == [status : Statuses, generation : Nat, attempts : Nat, cancelRequested : BOOLEAN,
        lease : Nat, expired : BOOLEAN, due : BOOLEAN, issued : Nat, batch : BatchStatuses]

NoRow(status) ==
    [status |-> status, generation |-> 0, attempts |-> 0, cancelRequested |-> FALSE,
     lease |-> 0, expired |-> FALSE, due |-> FALSE, issued |-> 0, batch |-> "none"]

Conversion == [generation : Nat, token : Nat]

\* stop is the event heartbeat.cancelled; a job that raised an error is "failing",
\* or "stopping" when the error is the code "cancelled".
Job == [pc : {"idle", "claiming", "converting", "saving", "failing", "stopping"},
        task : Tasks \cup {NoTask}, token : Nat, generation : Nat, stop : BOOLEAN]

Idle == [pc |-> "idle", task |-> NoTask, token |-> 0, generation |-> 0, stop |-> FALSE]

Busy(w) == worker[w].pc \in {"converting", "saving", "failing", "stopping"}

\* The row is still this worker's: its status and lease token are unchanged.
Holds(w) ==
    LET row == task[worker[w].task]
    IN  row.status = "running" /\ row.lease = worker[w].token

Finished == {"parsed", "failed", "cancelled"}

-----------------------------------------------------------------------------
Init ==
    /\ task = [t \in Tasks |-> NoRow("absent")]
    /\ conversions = [t \in Tasks |-> {}]
    /\ cancels = [t \in Tasks |-> {}]
    /\ retryOf = [k \in RetryKeys |-> NoTask]
    /\ worker = [w \in Workers |-> Idle]

(***************************************************************************)
(* The worker process: run_once is recover, claim, process.                *)
(***************************************************************************)
\* Mutated forms: recovery ignores the clock; it skips the rows asked to stop.
Expired_AnyRunning(t) == task[t].status = "running"
Expired_NotCancelled(t) ==
    task[t].status = "running" /\ task[t].expired /\ ~task[t].cancelRequested

Expired(t) == task[t].status = "running" /\ task[t].expired

\* Mutated form: the batch gets the status word of the task.
ReleasedRow_BatchStatus(row, status, batch) ==
    [row EXCEPT !.status = status, !.lease = 0, !.expired = FALSE, !.batch = status]

\* The run is over: the row and its batch get their new status and the lease goes.
ReleasedRow(row, status, batch) ==
    [row EXCEPT !.status = status, !.lease = 0, !.expired = FALSE, !.batch = batch]

\* Mutated forms: a requeued row keeps its generation; one attempt too many.
RecoveredRow_SameGeneration(row) ==
    IF row.attempts >= MaxAttempts
    THEN ReleasedRow(row, "failed", "failed")
    ELSE [row EXCEPT !.status = "queued", !.lease = 0, !.expired = FALSE, !.due = FALSE]
RecoveredRow_OneMore(row) ==
    IF row.attempts > MaxAttempts
    THEN ReleasedRow(row, "failed", "failed")
    ELSE [row EXCEPT !.status = "queued", !.generation = @ + 1, !.lease = 0,
                     !.expired = FALSE, !.due = FALSE]

RecoveredRow(row) ==
    IF row.attempts >= MaxAttempts
    THEN ReleasedRow(row, "failed", "failed")
    ELSE [row EXCEPT !.status = "queued", !.generation = @ + 1, !.lease = 0,
                     !.expired = FALSE, !.due = FALSE]

RecoverExpired(w) ==
    /\ worker[w].pc = "idle"
    /\ task' = [t \in Tasks |-> IF Expired(t) THEN RecoveredRow(task[t]) ELSE task[t]]
    /\ worker' = [worker EXCEPT ![w].pc = "claiming"]
    /\ UNCHANGED <<conversions, apiVars>>

\* Mutated form: a run whose lease is out no longer occupies the slot.
Occupied_LiveOnly == \E t \in Tasks : task[t].status = "running" /\ ~task[t].expired

Occupied == \E t \in Tasks : task[t].status = "running" /\ ~task[t].cancelRequested

Claimable(t) == task[t].status = "queued" /\ ~task[t].cancelRequested /\ task[t].due

\* Mutated form: the cancelled rows are skipped after "limit 1", not before.
FirstInLine_CancelledBlocks(t) ==
    Claimable(t) /\ \A u \in Tasks : task[u].status = "queued" => t <= u

FirstInLine(t) == Claimable(t) /\ \A u \in Tasks : Claimable(u) => t <= u

ClaimedRow(row) ==
    [row EXCEPT !.status = "running", !.attempts = @ + 1, !.lease = row.issued + 1,
                !.expired = FALSE, !.issued = @ + 1]

ClaimTask(w, t) ==
    /\ worker[w].pc = "claiming"
    /\ ~Occupied /\ FirstInLine(t)
    /\ task' = [task EXCEPT ![t] = ClaimedRow(@)]
    /\ worker' = [worker EXCEPT ![w] =
                     [Idle EXCEPT !.pc = "converting", !.task = t,
                                  !.token = task[t].issued + 1,
                                  !.generation = task[t].generation]]
    /\ UNCHANGED <<conversions, apiVars>>

ClaimNothing(w) ==
    /\ worker[w].pc = "claiming"
    /\ Occupied \/ \A t \in Tasks : ~FirstInLine(t)
    /\ worker' = [worker EXCEPT ![w] = Idle]
    /\ UNCHANGED <<task, conversions, apiVars>>

\* One turn of the heartbeat thread: renew the lease, or tell the converter to
\* stop when the row is no longer this worker's or a cancel was requested.
Heartbeat(w) ==
    /\ Busy(w) /\ ~worker[w].stop
    /\ LET t == worker[w].task
       IN  \/ /\ Holds(w) /\ ~task[t].cancelRequested
              /\ task' = [task EXCEPT ![t].expired = FALSE]
              /\ UNCHANGED worker
           \/ /\ ~Holds(w) \/ task[t].cancelRequested
              /\ worker' = [worker EXCEPT ![w].stop = TRUE]
              /\ UNCHANGED task
    /\ UNCHANGED <<conversions, apiVars>>

\* The converter returned, the paper was split and its files were written; the
\* event is tested after both.
ConvertDone(w) ==
    /\ worker[w].pc = "converting" /\ ~worker[w].stop
    /\ worker' = [worker EXCEPT ![w].pc = "saving"]
    /\ UNCHANGED <<task, conversions, apiVars>>

\* The converter, the splitter, the document store or the final transaction
\* raised an error.
ConvertFailed(w) ==
    /\ worker[w].pc \in {"converting", "saving"}
    /\ worker' = [worker EXCEPT ![w].pc = "failing"]
    /\ UNCHANGED <<task, conversions, apiVars>>

ConvertCancelled(w) ==
    /\ worker[w].pc = "converting" /\ worker[w].stop
    /\ worker' = [worker EXCEPT ![w].pc = "stopping"]
    /\ UNCHANGED <<task, conversions, apiVars>>

\* Mutated form: any running row takes the output, whoever leased it.
MaySave_StatusOnly(w) ==
    LET row == task[worker[w].task]
    IN  row.status = "running" /\ ~row.cancelRequested

MaySave(w) ==
    LET row == task[worker[w].task]
    IN  Holds(w) /\ row.generation = worker[w].generation /\ ~row.cancelRequested

SaveConversion(w) ==
    /\ worker[w].pc = "saving" /\ MaySave(w)
    /\ LET t == worker[w].task
       IN  /\ task' = [task EXCEPT ![t] = ReleasedRow(@, "parsed", "needs_review")]
           /\ conversions' = [conversions EXCEPT ![t] = @ \cup
                 {[generation |-> worker[w].generation, token |-> worker[w].token]}]
    /\ worker' = [worker EXCEPT ![w] = Idle]
    /\ UNCHANGED apiVars

\* The final transaction found a row that is not this worker's any more, or a
\* cancel request, and rolled back: discarded_stale_output.
DiscardStaleOutput(w) ==
    /\ worker[w].pc = "saving" /\ ~MaySave(w)
    /\ worker' = [worker EXCEPT ![w] = Idle]
    /\ UNCHANGED <<task, conversions, apiVars>>

WriteFailure(w) ==
    /\ worker[w].pc \in {"failing", "stopping"}
    /\ LET t == worker[w].task
           code == IF worker[w].pc = "stopping" THEN "cancelled" ELSE "failed"
       IN  task' = IF Holds(w)
                   THEN [task EXCEPT ![t] = ReleasedRow(@, code, code)]
                   ELSE task
    /\ worker' = [worker EXCEPT ![w] = Idle]
    /\ UNCHANGED <<conversions, apiVars>>

\* The process is killed with a job in hand and restarted by systemd.
Crash(w) ==
    /\ Busy(w)
    /\ worker' = [worker EXCEPT ![w] = Idle]
    /\ UNCHANGED <<task, conversions, apiVars>>

(***************************************************************************)
(* The HTTP handlers.                                                      *)
(***************************************************************************)
SubmitTask(t) ==
    /\ task[t].status = "absent"
    /\ task' = [task EXCEPT ![t] = [NoRow("queued") EXCEPT !.generation = 1, !.due = TRUE,
                                                           !.batch = "queued"]]
    /\ UNCHANGED <<conversions, apiVars, worker>>

\* task_cancel reads the row with no transaction open ...
CancelRead(t) ==
    /\ task[t].status \in {"queued", "running"}
    /\ cancels' = [cancels EXCEPT ![t] = @ \cup {task[t].status}]
    /\ UNCHANGED <<task, conversions, retryOf, worker>>

\* ... and writes what the status it read calls for, whatever the row is now.
CancelledRow(row, seen) ==
    IF seen = "queued"
    THEN [row EXCEPT !.status = "cancelled", !.cancelRequested = TRUE]
    ELSE [row EXCEPT !.cancelRequested = TRUE]

CancelWrite(t, seen) ==
    /\ seen \in cancels[t]
    /\ cancels' = [cancels EXCEPT ![t] = @ \ {seen}]
    /\ task' = IF task[t].status = "deleted" THEN task
               ELSE [task EXCEPT ![t] = CancelledRow(@, seen)]
    /\ UNCHANGED <<conversions, retryOf, worker>>

RetriedRow(row) ==
    [row EXCEPT !.status = "queued", !.generation = @ + 1, !.attempts = 0,
                !.cancelRequested = FALSE, !.due = TRUE]

\* Mutated form: a task that has a conversion may be retried.
Retriable_WithResult(t) == task[t].status \in {"failed", "cancelled"}

Retriable(t) == task[t].status \in {"failed", "cancelled"} /\ conversions[t] = {}

\* A key already recorded only returns the recorded answer, which is a stutter.
RetryTask(t, k) ==
    /\ retryOf[k] = NoTask /\ Retriable(t)
    /\ task' = [task EXCEPT ![t] = RetriedRow(@)]
    /\ retryOf' = [retryOf EXCEPT ![k] = t]
    /\ UNCHANGED <<conversions, cancels, worker>>

\* confirm_candidates publishes some or all of the candidates of the task; it
\* looks at the candidate rows, not at the status of the task.
ConfirmCandidates(t) ==
    /\ conversions[t] # {} /\ task[t].batch # "saved"
    /\ \E saved \in {"partially_saved", "saved"} :
          task' = [task EXCEPT ![t].batch = saved]
    /\ UNCHANGED <<conversions, apiVars, worker>>

Published(t) == task[t].batch \in {"partially_saved", "saved"}

\* Mutated form: what was published does not protect the task.
Deletable_Published(t) == task[t].status \in Finished

Deletable(t) == task[t].status \in Finished /\ ~Published(t)

DeleteTask(t) ==
    /\ Deletable(t)
    /\ task' = [task EXCEPT ![t] = NoRow("deleted")]
    /\ conversions' = [conversions EXCEPT ![t] = {}]
    /\ UNCHANGED <<apiVars, worker>>

(***************************************************************************)
(* Time.                                                                   *)
(***************************************************************************)
LeaseExpires(t) ==
    /\ task[t].status = "running" /\ ~task[t].expired
    /\ task' = [task EXCEPT ![t].expired = TRUE]
    /\ UNCHANGED <<conversions, apiVars, worker>>

BackoffEnds(t) ==
    /\ task[t].status = "queued" /\ ~task[t].due
    /\ task' = [task EXCEPT ![t].due = TRUE]
    /\ UNCHANGED <<conversions, apiVars, worker>>

-----------------------------------------------------------------------------
Progress(w) ==
    \/ ConvertDone(w)
    \/ ConvertFailed(w)
    \/ ConvertCancelled(w)
    \/ SaveConversion(w)
    \/ DiscardStaleOutput(w)
    \/ WriteFailure(w)

WorkerStep(w) ==
    \/ RecoverExpired(w)
    \/ \E t \in Tasks : ClaimTask(w, t)
    \/ ClaimNothing(w)
    \/ Heartbeat(w)
    \/ Progress(w)
    \/ Crash(w)

TeacherStep(t) ==
    \/ SubmitTask(t)
    \/ CancelRead(t)
    \/ \E seen \in {"queued", "running"} : CancelWrite(t, seen)
    \/ \E k \in RetryKeys : RetryTask(t, k)
    \/ ConfirmCandidates(t)
    \/ DeleteTask(t)

Tick(t) == LeaseExpires(t) \/ BackoffEnds(t)

Next ==
    \/ \E w \in Workers : WorkerStep(w)
    \/ \E t \in Tasks : TeacherStep(t) \/ Tick(t)

Spec == Init /\ [][Next]_vars

\* run_forever polls for ever, a conversion ends within MAX_CONVERSION_SECONDS,
\* a started request finishes, and time passes.  Nothing obliges a teacher to
\* act, a heartbeat to arrive in time or a process to survive.
Fairness ==
    /\ \A w \in Workers :
          /\ WF_vars(RecoverExpired(w))
          /\ WF_vars(ClaimNothing(w) \/ \E t \in Tasks : ClaimTask(w, t))
          /\ WF_vars(Progress(w))
    /\ \A t \in Tasks :
          /\ WF_vars(\E seen \in {"queued", "running"} : CancelWrite(t, seen))
          /\ WF_vars(BackoffEnds(t))
          /\ SF_vars(LeaseExpires(t) /\ \A w \in Workers :
                        Busy(w) => worker[w].task # t \/ ~Holds(w))

FairSpec == Spec /\ Fairness

-----------------------------------------------------------------------------
\* The five variables hold values the tables and the worker processes can hold
\* (document_parse_tasks, document_conversions, content_operation_keys).
TypeOK ==
    /\ task \in [Tasks -> Row]
    /\ conversions \in [Tasks -> SUBSET Conversion]
    /\ cancels \in [Tasks -> SUBSET {"queued", "running"}]
    /\ retryOf \in [RetryKeys -> Tasks \cup {NoTask}]
    /\ worker \in [Workers -> Job]

\* The server converts one document at a time: however many worker processes
\* poll the table, claim_next_task never puts a second task beside one that is
\* running and not asked to stop.
SingleSlot ==
    \A t, u \in Tasks :
        /\ task[t].status = "running" /\ ~task[t].cancelRequested
        /\ task[u].status = "running" /\ ~task[u].cancelRequested
        => t = u

\* Leases, recoveries, cancels and retries never let two runs of the same task
\* go on under one generation, so UNIQUE(task_id, generation) cannot reject the
\* output of either.
GenerationClaimedOnce ==
    \A v, w \in Workers :
        /\ Busy(v) /\ Busy(w) /\ worker[v].task = worker[w].task
        /\ worker[v].generation = worker[w].generation
        => v = w

\* A task has at most one conversion, made under the generation its row still
\* shows: a worker that lost its lease, was cancelled or was retried over never
\* leaves output behind, and nothing restarts a task that has its output.
ConversionIsCurrent ==
    \A t \in Tasks : \A c, d \in conversions[t] :
        c = d /\ c.generation = task[t].generation

\* The task, its batch and its conversion are three tables written by different
\* transactions that must tell one story: a parsed task and a batch in review or
\* published have a conversion, a failed task, a pending one and a failed or
\* cancelled batch have none.
ResultAgrees ==
    \A t \in Tasks :
        /\ task[t].status = "parsed" => conversions[t] # {}
        /\ task[t].batch \in {"needs_review", "partially_saved", "saved"}
              <=> conversions[t] # {}
        /\ task[t].status \in {"queued", "running", "failed"} => conversions[t] = {}

\* A document that keeps killing its worker is given up: between two requests of
\* the teacher it is claimed at most MAX_ATTEMPTS times.
AttemptsBounded ==
    \A t \in Tasks :
        /\ task[t].attempts <= MaxAttempts
        /\ task[t].status = "queued" => task[t].attempts < MaxAttempts

\* Claims exclude each other: one task at a time, one run for each generation, and
\* none beyond the last attempt.
ClaimsAreSound == SingleSlot /\ GenerationClaimedOnce /\ AttemptsBounded

\* What a task shows is the outcome of the generation it is at, in all its tables.
ResultIsCurrent == ConversionIsCurrent /\ ResultAgrees

\* A worker whose lease is live loses it only by its own step or to a cancel: no
\* recovery pass, claim, late failure of an earlier run, retry or deletion takes
\* the row away from it.
LiveLeaseIsKept ==
    [][\A w \in Workers :
          LET t == worker[w].task
          IN  /\ Busy(w) /\ Holds(w) /\ ~task[t].expired
              /\ worker'[w] = worker[w] /\ cancels' = cancels
              => task'[t].status = "running" /\ task'[t].lease = worker[w].token]_vars

\* The queue implements ConversionJob, which sees only whether a task is open,
\* closed, delivered, published or gone, and its conversions.
PhaseOf(row, made) ==
    CASE row.status = "absent" -> "none"
      [] row.status = "deleted" -> "gone"
      [] row.batch \in {"partially_saved", "saved"} -> "published"
      [] row.batch = "needs_review" -> "delivered"
      [] made = {} /\ row.status \in {"queued", "running"} -> "open"
      [] OTHER -> "closed"

Promise == INSTANCE ConversionJob WITH
    Results <- Conversion,
    phase <- [t \in Tasks |-> PhaseOf(task[t], conversions[t])],
    result <- conversions

\* The detailed queue keeps the promise of ConversionJob: at most one conversion
\* ever delivered, none after the task was closed, no published task removed.
KeepsPromise == Promise!JobSpec

\* No task stays in the running state for ever: its worker ends it, or the lease
\* runs out and recover_expired_tasks takes it back.
RunningEnds ==
    \A t \in Tasks : task[t].status = "running" ~> task[t].status # "running"

\* A queued task nobody cancels is eventually parsed or failed, in spite of the
\* tasks before it, crashes of its workers and the backoff of each retry.
QueuedIsServed ==
    \A t \in Tasks :
        task[t].status = "queued" ~>
            task[t].status \in Finished \cup {"deleted"} \/ task[t].cancelRequested

\* The plan of the document pipeline asks of the worker, for timeout, cancel and
\* too many retries, a definite final state: a task asked to stop ends.  It does
\* not always: recovery requeues a row that is asked to stop, and no claim takes it.
CancelReachesTerminal ==
    \A t \in Tasks :
        task[t].status \in {"queued", "running"} /\ task[t].cancelRequested ~>
            task[t].status \in Finished \cup {"deleted"} \/ ~task[t].cancelRequested

\* The design's state machine leaves parsed only forward: "parsed" means the
\* conversion is persisted and can be reviewed.  A cancel that read the row while
\* it was queued breaks this (task_cancel).
ParsedIsNotCancelled ==
    \A t \in Tasks : conversions[t] # {} => task[t].status # "cancelled"
=============================================================================
