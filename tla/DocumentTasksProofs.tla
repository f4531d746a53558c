------------------------ MODULE DocumentTasksProofs ------------------------
(***************************************************************************)
(* Theorems about the conversion queue for any number of tasks, workers    *)
(* and retry keys and any MaxAttempts, checked by TLAPS.                   *)
(***************************************************************************)
EXTENDS DocumentTasks, TLAPS

USE DEF MaxAttemptsAssumption

-----------------------------------------------------------------------------
\* Every way a transaction rewrites a row leaves a row.
LEMMA RowUpdates ==
    ASSUME NEW row \in Row
    PROVE  /\ RecoveredRow(row) \in Row
           /\ ClaimedRow(row) \in Row
           /\ RetriedRow(row) \in Row
           /\ \A seen : CancelledRow(row, seen) \in Row
           /\ \A s \in Statuses, b \in BatchStatuses : ReleasedRow(row, s, b) \in Row
<1>1. row.attempts + 1 \in Nat /\ row.issued + 1 \in Nat /\ row.generation + 1 \in Nat
    BY DEF Row
<1>2. ASSUME NEW s \in Statuses, NEW b \in BatchStatuses
      PROVE  ReleasedRow(row, s, b) \in Row
    BY DEF Row, ReleasedRow
<1>3. RecoveredRow(row) \in Row
    <2>1. ReleasedRow(row, "failed", "failed") \in Row
        BY <1>2 DEF Statuses, BatchStatuses
    <2>2. [row EXCEPT !.status = "queued", !.generation = @ + 1, !.lease = 0,
                      !.expired = FALSE, !.due = FALSE] \in Row
        BY <1>1 DEF Row, Statuses
    <2> QED
        BY <2>1, <2>2 DEF RecoveredRow
<1>4. ClaimedRow(row) \in Row
    BY <1>1 DEF Row, Statuses, ClaimedRow
<1>5. RetriedRow(row) \in Row
    BY <1>1 DEF Row, Statuses, RetriedRow
<1>6. \A seen : CancelledRow(row, seen) \in Row
    BY DEF Row, Statuses, CancelledRow
<1> QED
    BY <1>2, <1>3, <1>4, <1>5, <1>6

LEMMA NoRowType ==
    ASSUME NEW status \in Statuses
    PROVE  NoRow(status) \in Row
    BY DEF Row, Statuses, BatchStatuses, NoRow

LEMMA IdleType == Idle \in Job
    BY DEF Idle, Job

\* Every variable keeps the values its table or process can hold.
THEOREM TypeCorrect == Spec => []TypeOK
<1>1. Init => TypeOK
    BY NoRowType, IdleType DEF Init, TypeOK, Statuses
<1>2. TypeOK /\ [Next]_vars => TypeOK'
    <2> SUFFICES ASSUME TypeOK, [Next]_vars PROVE TypeOK'
        OBVIOUS
    <2> USE DEF TypeOK
    <2>1. ASSUME NEW w \in Workers, RecoverExpired(w) PROVE TypeOK'
        <3>1. task' \in [Tasks -> Row]
            BY <2>1, RowUpdates DEF RecoverExpired
        <3>2. worker' \in [Workers -> Job]
            BY <2>1 DEF RecoverExpired, Job
        <3> QED
            BY <2>1, <3>1, <3>2 DEF RecoverExpired, apiVars
    <2>2. ASSUME NEW w \in Workers, NEW t \in Tasks, ClaimTask(w, t) PROVE TypeOK'
        <3>1. task' \in [Tasks -> Row]
            BY <2>2, RowUpdates DEF ClaimTask
        <3>2. task[t].issued + 1 \in Nat /\ task[t].generation \in Nat
            BY DEF Row
        <3>3. worker' \in [Workers -> Job]
            BY <2>2, <3>2 DEF ClaimTask, Job, Idle
        <3> QED
            BY <2>2, <3>1, <3>3 DEF ClaimTask, apiVars
    <2>3. ASSUME NEW w \in Workers, ClaimNothing(w) PROVE TypeOK'
        BY <2>3, IdleType DEF ClaimNothing, apiVars
    <2>4. ASSUME NEW w \in Workers, Heartbeat(w) PROVE TypeOK'
        <3> DEFINE t == worker[w].task
        <3>1. CASE /\ task' = [task EXCEPT ![t].expired = FALSE]
                   /\ UNCHANGED worker
            <4>1. task' \in [Tasks -> Row]
                BY <3>1 DEF Row
            <4> QED
                BY <2>4, <3>1, <4>1 DEF Heartbeat, apiVars
        <3>2. CASE /\ worker' = [worker EXCEPT ![w].stop = TRUE]
                   /\ UNCHANGED task
            <4>1. worker' \in [Workers -> Job]
                BY <3>2 DEF Job
            <4> QED
                BY <2>4, <3>2, <4>1 DEF Heartbeat, apiVars
        <3> QED
            BY <2>4, <3>1, <3>2 DEF Heartbeat
    <2>5. ASSUME NEW w \in Workers, Progress(w) PROVE TypeOK'
        <3>1. CASE ConvertDone(w)
            BY <3>1 DEF ConvertDone, Job, apiVars
        <3>2. CASE ConvertFailed(w)
            BY <3>2 DEF ConvertFailed, Job, apiVars
        <3>3. CASE ConvertCancelled(w)
            BY <3>3 DEF ConvertCancelled, Job, apiVars
        <3>4. CASE SaveConversion(w)
            <4>1. task' \in [Tasks -> Row]
                BY <3>4, RowUpdates DEF SaveConversion, Statuses, BatchStatuses
            <4>2. [generation |-> worker[w].generation, token |-> worker[w].token]
                    \in Conversion
                BY DEF Conversion, Job
            <4>3. conversions' \in [Tasks -> SUBSET Conversion]
                BY <3>4, <4>2 DEF SaveConversion
            <4> QED
                BY <3>4, <4>1, <4>3, IdleType DEF SaveConversion, apiVars
        <3>5. CASE DiscardStaleOutput(w)
            BY <3>5, IdleType DEF DiscardStaleOutput, apiVars
        <3>6. CASE WriteFailure(w)
            <4>1. task' \in [Tasks -> Row]
                BY <3>6, RowUpdates DEF WriteFailure, Statuses, BatchStatuses, Job
            <4> QED
                BY <3>6, <4>1, IdleType DEF WriteFailure, apiVars
        <3> QED
            BY <2>5, <3>1, <3>2, <3>3, <3>4, <3>5, <3>6 DEF Progress
    <2>6. ASSUME NEW w \in Workers, Crash(w) PROVE TypeOK'
        BY <2>6, IdleType DEF Crash, apiVars
    <2>7. ASSUME NEW t \in Tasks, SubmitTask(t) PROVE TypeOK'
        BY <2>7 DEF SubmitTask, NoRow, Row, Statuses, BatchStatuses, apiVars
    <2>8. ASSUME NEW t \in Tasks, CancelRead(t) PROVE TypeOK'
        BY <2>8 DEF CancelRead
    <2>9. ASSUME NEW t \in Tasks, NEW seen \in {"queued", "running"}, CancelWrite(t, seen)
          PROVE TypeOK'
        BY <2>9, RowUpdates DEF CancelWrite
    <2>10. ASSUME NEW t \in Tasks, NEW k \in RetryKeys, RetryTask(t, k) PROVE TypeOK'
        BY <2>10, RowUpdates DEF RetryTask
    <2>11. ASSUME NEW t \in Tasks, ConfirmCandidates(t) PROVE TypeOK'
        BY <2>11 DEF ConfirmCandidates, Row, BatchStatuses, apiVars
    <2>12. ASSUME NEW t \in Tasks, DeleteTask(t) PROVE TypeOK'
        BY <2>12, NoRowType DEF DeleteTask, Statuses, apiVars
    <2>13. ASSUME NEW t \in Tasks, Tick(t) PROVE TypeOK'
        <3>1. CASE LeaseExpires(t)
            BY <3>1 DEF LeaseExpires, Row, apiVars
        <3>2. CASE BackoffEnds(t)
            BY <3>2 DEF BackoffEnds, Row, apiVars
        <3> QED
            BY <2>13, <3>1, <3>2 DEF Tick
    <2>14. CASE UNCHANGED vars
        BY <2>14 DEF vars
    <2> QED
        BY <2>1, <2>2, <2>3, <2>4, <2>5, <2>6, <2>7, <2>8, <2>9, <2>10, <2>11, <2>12,
           <2>13, <2>14 DEF Next, WorkerStep, TeacherStep
<1> QED
    BY <1>1, <1>2, PTL DEF Spec

-----------------------------------------------------------------------------
(***************************************************************************)
(* The inductive invariant.  A worker with a job remembers a token no      *)
(* later lease reuses and a generation that the row has left behind before *)
(* it can be queued again; the row, its batch and its conversion agree.    *)
(***************************************************************************)
JobIsKnown ==
    \A w \in Workers : Busy(w) =>
        LET job == worker[w]
            row == task[job.task]
        IN  /\ job.task \in Tasks
            /\ row.status # "absent"
            /\ row.status # "deleted" =>
                  /\ job.token <= row.issued
                  /\ job.generation <= row.generation
                  /\ row.status = "queued" => job.generation < row.generation

TokenDrawnOnce ==
    \A v, w \in Workers :
        /\ Busy(v) /\ Busy(w) /\ worker[v].task = worker[w].task
        /\ worker[v].token = worker[w].token
        => v = w

NothingBeforeOrAfter ==
    \A t \in Tasks :
        /\ task[t].status \in {"absent", "deleted"} => conversions[t] = {}
        /\ task[t].status = "absent" => cancels[t] = {}

JobInv == JobIsKnown /\ TokenDrawnOnce /\ GenerationClaimedOnce
RowInv == NothingBeforeOrAfter /\ ResultAgrees /\ ConversionIsCurrent /\ AttemptsBounded

LEMMA JobInvStep ==
    ASSUME TypeOK, JobInv, [Next]_vars
    PROVE  JobInv'
<1> USE DEF JobInv, JobIsKnown, TokenDrawnOnce, GenerationClaimedOnce, Busy
<1>1. ASSUME NEW w \in Workers, RecoverExpired(w) PROVE JobInv'
    <2>1. \A t \in Tasks : /\ task'[t].issued = task[t].issued
                           /\ task'[t].status = task[t].status \/
                              (task[t].status = "running" /\ task'[t].status = "failed") \/
                              (task[t].status = "running" /\ task'[t].status = "queued" /\
                                 task'[t].generation = task[t].generation + 1)
                           /\ task'[t].generation \in {task[t].generation, task[t].generation + 1}
        BY <1>1 DEF RecoverExpired, RecoveredRow, ReleasedRow, Expired, TypeOK, Row
    <2>2. \A v \in Workers : v # w => worker'[v] = worker[v]
        BY <1>1 DEF RecoverExpired, TypeOK
    <2>3. worker'[w].pc = "claiming"
        BY <1>1 DEF RecoverExpired, TypeOK, Job
    <2>4. \A t \in Tasks : task[t].generation \in Nat
        BY DEF TypeOK, Row
    <2>5. \A v \in Workers : worker[v].generation \in Nat
        BY DEF TypeOK, Job
    <2>6. JobIsKnown'
        BY <2>1, <2>2, <2>3, <2>4, <2>5
    <2> QED
        BY <2>2, <2>3, <2>6
<1>2. ASSUME NEW w \in Workers, NEW t \in Tasks, ClaimTask(w, t) PROVE JobInv'
    <2>1. /\ task[t].status = "queued"
          /\ task' = [task EXCEPT ![t] = ClaimedRow(@)]
          /\ task'[t].status = "running" /\ task'[t].issued = task[t].issued + 1
          /\ task'[t].generation = task[t].generation
        BY <1>2 DEF ClaimTask, FirstInLine, Claimable, ClaimedRow, TypeOK, Row
    <2>2. \A v \in Workers : v # w => worker'[v] = worker[v]
        BY <1>2 DEF ClaimTask, TypeOK
    <2>3. /\ worker'[w].task = t /\ worker'[w].token = task[t].issued + 1
          /\ worker'[w].generation = task[t].generation
        BY <1>2 DEF ClaimTask, TypeOK, Idle
    <2>4. \A u \in Tasks : u # t => task'[u] = task[u]
        BY <2>1 DEF TypeOK
    <2>5. task[t].issued \in Nat /\ task[t].generation \in Nat
        BY DEF TypeOK, Row
    <2>6. \A v \in Workers : worker[v].token \in Nat /\ worker[v].generation \in Nat
        BY DEF TypeOK, Job
    <2>7. JobIsKnown'
        BY <2>1, <2>2, <2>3, <2>4, <2>5, <2>6
    <2>8. \A v \in Workers : v # w /\ Busy(v)' /\ worker'[v].task = t =>
              worker'[v].token # worker'[w].token /\ worker'[v].generation # worker'[w].generation
        BY <2>1, <2>2, <2>3, <2>5, <2>6
    <2> QED
        BY <2>2, <2>3, <2>7, <2>8
<1>3. ASSUME NEW w \in Workers, UNCHANGED task,
             \/ worker' = [worker EXCEPT ![w] = Idle]
             \/ /\ \E pc \in {"saving", "failing", "stopping"} :
                       worker' = [worker EXCEPT ![w].pc = pc]
                /\ Busy(w)
             \/ worker' = [worker EXCEPT ![w].stop = TRUE]
      PROVE  JobInv'
    BY <1>3 DEF TypeOK, Job, Idle
<1>4. ASSUME NEW t \in Tasks, NEW row \in Row, task' = [task EXCEPT ![t] = row],
             worker' = worker \/ \E w \in Workers : worker' = [worker EXCEPT ![w] = Idle],
             \/ /\ task[t].status \in Finished /\ row.status = "deleted"
             \/ task[t].status = "absent"
             \/ /\ row.issued = task[t].issued /\ row.status # "absent"
                /\ task[t].status # "deleted"
                /\ \/ /\ row.generation = task[t].generation
                      /\ row.status = "queued" => task[t].status = "queued"
                   \/ row.generation = task[t].generation + 1
      PROVE  JobInv'
    <2>1. \A v \in Workers : Busy(v)' => Busy(v) /\ worker'[v] = worker[v]
        BY <1>4 DEF TypeOK, Idle
    <2>2. \A u \in Tasks : task'[u] = IF u = t THEN row ELSE task[u]
        BY <1>4 DEF TypeOK
    <2>3. task[t].generation \in Nat /\ row.generation \in Nat
        BY DEF TypeOK, Row
    <2>4. \A v \in Workers : worker[v].generation \in Nat
        BY DEF TypeOK, Job
    <2>5. JobIsKnown'
        BY <1>4, <2>1, <2>2, <2>3, <2>4 DEF Finished
    <2> QED
        BY <2>1, <2>5
<1>5. ASSUME NEW w \in Workers, Heartbeat(w) PROVE JobInv'
    <2> DEFINE t == worker[w].task
    <2>1. t \in Tasks
        BY <1>5 DEF Heartbeat
    <2>2. CASE task' = [task EXCEPT ![t].expired = FALSE] /\ UNCHANGED worker
        <3> DEFINE row == [task[t] EXCEPT !.expired = FALSE]
        <3>1. row \in Row /\ task' = [task EXCEPT ![t] = row]
            BY <2>1, <2>2 DEF TypeOK, Row
        <3>2. /\ row.issued = task[t].issued /\ row.status = task[t].status
              /\ row.generation = task[t].generation
            BY <2>1 DEF TypeOK, Row
        <3> QED
            BY <1>4, <2>1, <2>2, <3>1, <3>2
    <2> QED
        BY <1>3, <1>5, <2>2 DEF Heartbeat
<1>6. ASSUME NEW w \in Workers, Progress(w) PROVE JobInv'
    <2> DEFINE t == worker[w].task
    <2>1. CASE SaveConversion(w)
        <3> DEFINE row == ReleasedRow(task[t], "parsed", "needs_review")
        <3>1. t \in Tasks /\ task[t].status = "running"
            BY <2>1 DEF SaveConversion, MaySave, Holds
        <3>2. row \in Row
            BY <3>1, RowUpdates DEF TypeOK, Statuses, BatchStatuses
        <3>3. /\ row.issued = task[t].issued /\ row.status = "parsed"
              /\ row.generation = task[t].generation
            BY <3>1 DEF ReleasedRow, TypeOK, Row
        <3> QED
            BY <1>4, <2>1, <3>1, <3>2, <3>3 DEF SaveConversion
    <2>2. CASE WriteFailure(w) /\ Holds(w)
        <3> DEFINE code == IF worker[w].pc = "stopping" THEN "cancelled" ELSE "failed"
                   row == ReleasedRow(task[t], code, code)
        <3>1. t \in Tasks /\ task[t].status = "running"
            BY <2>2 DEF WriteFailure, Holds
        <3>2. row \in Row
            BY <3>1, RowUpdates DEF TypeOK, Statuses, BatchStatuses
        <3>3. /\ row.issued = task[t].issued /\ row.status = code
              /\ row.generation = task[t].generation
            BY <3>1 DEF ReleasedRow, TypeOK, Row
        <3> QED
            BY <1>4, <2>2, <3>1, <3>2, <3>3 DEF WriteFailure
    <2>3. CASE WriteFailure(w) /\ ~Holds(w)
        BY <1>3, <2>3 DEF WriteFailure
    <2> QED
        BY <1>3, <1>6, <2>1, <2>2, <2>3
        DEF Progress, ConvertDone, ConvertFailed, ConvertCancelled, DiscardStaleOutput
<1>7. ASSUME NEW t \in Tasks, SubmitTask(t) PROVE JobInv'
    BY <1>4, <1>7 DEF SubmitTask, NoRow, Row, Statuses, BatchStatuses
<1>8. ASSUME NEW t \in Tasks, NEW seen \in {"queued", "running"}, CancelWrite(t, seen)
      PROVE JobInv'
    <2> DEFINE row == CancelledRow(task[t], seen)
    <2>1. row \in Row
        BY RowUpdates DEF TypeOK
    <2>2. /\ row.issued = task[t].issued /\ row.generation = task[t].generation
          /\ row.status \in {task[t].status, "cancelled"}
        BY DEF CancelledRow, TypeOK, Row
    <2>3. CASE task[t].status = "deleted"
        BY <1>8, <2>3 DEF CancelWrite
    <2>4. CASE task[t].status # "deleted"
        BY <1>4, <1>8, <2>1, <2>2, <2>4 DEF CancelWrite
    <2> QED
        BY <2>3, <2>4
<1>9. ASSUME NEW t \in Tasks, NEW k \in RetryKeys, RetryTask(t, k) PROVE JobInv'
    <2> DEFINE row == RetriedRow(task[t])
    <2>1. row \in Row
        BY RowUpdates DEF TypeOK
    <2>2. /\ row.issued = task[t].issued /\ row.generation = task[t].generation + 1
          /\ row.status = "queued"
        BY DEF RetriedRow, TypeOK, Row
    <2> QED
        BY <1>4, <1>9, <2>1, <2>2 DEF RetryTask, Retriable
<1>10. ASSUME NEW t \in Tasks, DeleteTask(t) PROVE JobInv'
    BY <1>4, <1>10, NoRowType DEF DeleteTask, Deletable, NoRow, Statuses
<1>11. ASSUME NEW t \in Tasks, CancelRead(t) \/ ConfirmCandidates(t) \/ Tick(t)
       PROVE JobInv'
    <2>1. \A u \in Tasks : /\ task'[u].status = task[u].status
                           /\ task'[u].issued = task[u].issued
                           /\ task'[u].generation = task[u].generation
        BY <1>11 DEF CancelRead, ConfirmCandidates, Tick, LeaseExpires, BackoffEnds, TypeOK, Row
    <2>2. worker' = worker
        BY <1>11 DEF CancelRead, ConfirmCandidates, Tick, LeaseExpires, BackoffEnds
    <2> QED
        BY <2>1, <2>2
<1>12. ASSUME NEW w \in Workers, ClaimNothing(w) \/ Crash(w) PROVE JobInv'
    BY <1>3, <1>12 DEF ClaimNothing, Crash
<1>13. CASE UNCHANGED vars
    BY <1>13 DEF vars
<1> QED
    BY <1>1, <1>2, <1>5, <1>6, <1>7, <1>8, <1>9, <1>10, <1>11, <1>12, <1>13
    DEF Next, WorkerStep, TeacherStep

-----------------------------------------------------------------------------
\* RowInv, one row at a time.
RowFine(row, made, pending) ==
    /\ row.status \in {"absent", "deleted"} => made = {}
    /\ row.status = "absent" => pending = {}
    /\ row.status = "parsed" => made # {}
    /\ row.batch \in {"needs_review", "partially_saved", "saved"} <=> made # {}
    /\ row.status \in {"queued", "running", "failed"} => made = {}
    /\ \A c, d \in made : c = d /\ c.generation = row.generation
    /\ row.attempts <= MaxAttempts
    /\ row.status = "queued" => row.attempts < MaxAttempts

LEMMA RowInvByRow == RowInv <=> \A t \in Tasks : RowFine(task[t], conversions[t], cancels[t])
    BY DEF RowInv, NothingBeforeOrAfter, ResultAgrees, ConversionIsCurrent,
           AttemptsBounded, RowFine

LEMMA RowInvStep ==
    ASSUME TypeOK, JobInv, RowInv, [Next]_vars
    PROVE  RowInv'
<1> DEFINE Fine(t) == RowFine(task[t], conversions[t], cancels[t])
<1>a. \A t \in Tasks : Fine(t)
    BY RowInvByRow
<1>b. SUFFICES ASSUME NEW u \in Tasks PROVE Fine(u)'
    BY DEF RowInv, NothingBeforeOrAfter, ResultAgrees, ConversionIsCurrent,
           AttemptsBounded, RowFine
<1>c. /\ Fine(u) /\ task[u] \in Row
      /\ task[u].attempts \in Nat /\ task[u].generation \in Nat
    BY <1>a DEF TypeOK, Row
<1> USE DEF RowFine
<1>1. ASSUME NEW w \in Workers, RecoverExpired(w) PROVE Fine(u)'
    <2>1. CASE ~Expired(u)
        BY <1>1, <1>c, <2>1 DEF RecoverExpired, apiVars
    <2>2. CASE Expired(u)
        <3>1. /\ task'[u].status = "queued" => task[u].attempts < MaxAttempts
              /\ task'[u].status \in {"queued", "failed"}
              /\ task'[u].batch \in {task[u].batch, "failed"}
              /\ task'[u].attempts = task[u].attempts
            <4>1. task'[u] = RecoveredRow(task[u])
                BY <1>1, <2>2 DEF RecoverExpired
            <4>2. CASE task[u].attempts >= MaxAttempts
                BY <1>c, <4>1, <4>2 DEF RecoveredRow, ReleasedRow, Row
            <4>3. CASE ~(task[u].attempts >= MaxAttempts)
                BY <1>c, <4>1, <4>3, MaxAttemptsAssumption DEF RecoveredRow, Row
            <4> QED
                BY <4>2, <4>3
        <3> QED
            BY <1>1, <1>c, <2>2, <3>1 DEF RecoverExpired, Expired, apiVars
    <2> QED
        BY <2>1, <2>2
<1>2. ASSUME NEW w \in Workers, NEW t \in Tasks, ClaimTask(w, t) PROVE Fine(u)'
    <2>1. CASE u # t
        BY <1>2, <1>c, <2>1 DEF ClaimTask, apiVars, TypeOK
    <2>2. CASE u = t
        <3>1. /\ task[u].status = "queued" /\ task'[u].status = "running"
              /\ task'[u].batch = task[u].batch
              /\ task'[u].attempts = task[u].attempts + 1
            BY <1>2, <1>c, <2>2 DEF ClaimTask, FirstInLine, Claimable, ClaimedRow, TypeOK, Row
        <3> QED
            BY <1>2, <1>c, <3>1, MaxAttemptsAssumption DEF ClaimTask, apiVars
    <2> QED
        BY <2>1, <2>2
<1>3. ASSUME UNCHANGED <<task, conversions, cancels>> PROVE Fine(u)'
    BY <1>3, <1>c
<1>4. ASSUME NEW w \in Workers, Heartbeat(w) PROVE Fine(u)'
    <2>1. /\ task'[u].status = task[u].status /\ task'[u].batch = task[u].batch
          /\ task'[u].generation = task[u].generation
          /\ task'[u].attempts = task[u].attempts
        BY <1>4 DEF Heartbeat, TypeOK, Row
    <2> QED
        BY <1>4, <1>c, <2>1 DEF Heartbeat, apiVars
<1>5. ASSUME NEW w \in Workers, Progress(w) PROVE Fine(u)'
    <2> DEFINE t == worker[w].task
    <2>1. CASE SaveConversion(w)
        <3>1. t \in Tasks /\ task[t].status = "running"
              /\ task[t].generation = worker[w].generation
            BY <2>1 DEF SaveConversion, MaySave, Holds, JobInv, JobIsKnown, Busy
        <3>2. conversions[t] = {}
            BY <1>a, <3>1
        <3>3. task'[u].attempts = task[u].attempts /\ task'[u].generation = task[u].generation
            BY <2>1 DEF SaveConversion, ReleasedRow, TypeOK, Row
        <3>4. CASE u = t
            <4>1. task'[t].status = "parsed" /\ task'[t].batch = "needs_review"
                BY <2>1, <3>1 DEF SaveConversion, ReleasedRow, TypeOK, Row
            <4>2. conversions'[t] = {[generation |-> worker[w].generation,
                                      token |-> worker[w].token]}
                BY <2>1, <3>1, <3>2 DEF SaveConversion, TypeOK
            <4>3. \A c, d \in conversions'[t] : c = d /\ c.generation = task'[t].generation
                BY <3>1, <3>3, <3>4, <4>2
            <4> QED
                BY <1>c, <3>3, <3>4, <4>1, <4>2, <4>3
        <3>5. CASE u # t
            BY <1>c, <2>1, <3>5 DEF SaveConversion, TypeOK, apiVars
        <3> QED
            BY <3>4, <3>5
    <2>2. CASE WriteFailure(w)
        <3>1. u = t /\ Holds(w) => task[u].status = "running" /\ task'[u].status \in {"failed", "cancelled"}
                        /\ task'[u].batch \in {"failed", "cancelled"}
                        /\ task'[u].attempts = task[u].attempts
            BY <1>c, <2>2 DEF WriteFailure, Holds, ReleasedRow, TypeOK, Row
        <3>2. ~(u = t /\ Holds(w)) => task'[u] = task[u]
            BY <2>2 DEF WriteFailure, TypeOK
        <3> QED
            BY <1>c, <2>2, <3>1, <3>2 DEF WriteFailure, apiVars
    <2> QED
        BY <1>3, <1>5, <2>1, <2>2
        DEF Progress, ConvertDone, ConvertFailed, ConvertCancelled, DiscardStaleOutput, apiVars
<1>6. ASSUME NEW t \in Tasks, SubmitTask(t) PROVE Fine(u)'
    <2>1. CASE u # t
        BY <1>6, <1>c, <2>1 DEF SubmitTask, apiVars, TypeOK
    <2>2. CASE u = t
        <3>1. /\ task'[u].status = "queued" /\ task'[u].batch = "queued"
              /\ task'[u].attempts = 0
            BY <1>6, <2>2 DEF SubmitTask, NoRow, TypeOK
        <3> QED
            BY <1>6, <1>c, <2>2, <3>1, MaxAttemptsAssumption DEF SubmitTask, apiVars
    <2> QED
        BY <2>1, <2>2
<1>7. ASSUME NEW t \in Tasks, CancelRead(t) PROVE Fine(u)'
    BY <1>7, <1>c DEF CancelRead, TypeOK
<1>8. ASSUME NEW t \in Tasks, NEW seen \in {"queued", "running"}, CancelWrite(t, seen)
      PROVE Fine(u)'
    <2>1. /\ task'[u].status \in {task[u].status, "cancelled"}
          /\ task'[u].status = "cancelled" /\ task[u].status # "cancelled"
                => task[u].status \notin {"absent", "deleted"}
          /\ task'[u].batch = task[u].batch
          /\ task'[u].generation = task[u].generation
          /\ task'[u].attempts = task[u].attempts
        BY <1>8, <1>c DEF CancelWrite, CancelledRow, TypeOK, Row
    <2>2. cancels'[u] \subseteq cancels[u]
        BY <1>8 DEF CancelWrite, TypeOK
    <2> QED
        BY <1>8, <1>c, <2>1, <2>2 DEF CancelWrite
<1>9. ASSUME NEW t \in Tasks, NEW k \in RetryKeys, RetryTask(t, k) PROVE Fine(u)'
    <2>1. CASE u # t
        BY <1>9, <1>c, <2>1 DEF RetryTask, TypeOK
    <2>2. CASE u = t
        <3>1. /\ task'[u].status = "queued" /\ task'[u].batch = task[u].batch
              /\ task'[u].attempts = 0
            BY <1>9, <1>c, <2>2 DEF RetryTask, RetriedRow, TypeOK, Row
        <3> QED
            BY <1>9, <1>c, <2>2, <3>1, MaxAttemptsAssumption DEF RetryTask, Retriable
    <2> QED
        BY <2>1, <2>2
<1>10. ASSUME NEW t \in Tasks, ConfirmCandidates(t) PROVE Fine(u)'
    BY <1>10, <1>c DEF ConfirmCandidates, apiVars, TypeOK, Row
<1>11. ASSUME NEW t \in Tasks, DeleteTask(t) PROVE Fine(u)'
    <2>1. CASE u # t
        BY <1>11, <1>c, <2>1 DEF DeleteTask, apiVars, TypeOK
    <2>2. CASE u = t
        <3>1. /\ task'[u].status = "deleted" /\ task'[u].batch = "none"
              /\ task'[u].attempts = 0 /\ conversions'[u] = {}
            BY <1>11, <2>2 DEF DeleteTask, NoRow, TypeOK
        <3> QED
            BY <3>1, MaxAttemptsAssumption
    <2> QED
        BY <2>1, <2>2
<1>12. ASSUME NEW t \in Tasks, Tick(t) PROVE Fine(u)'
    BY <1>12, <1>c DEF Tick, LeaseExpires, BackoffEnds, apiVars, TypeOK, Row
<1> QED
    BY <1>1, <1>2, <1>3, <1>4, <1>5, <1>6, <1>7, <1>8, <1>9, <1>10, <1>11, <1>12
    DEF Next, WorkerStep, TeacherStep, ClaimNothing, Crash, apiVars, vars

-----------------------------------------------------------------------------
LEMMA InvHolds == Spec => [](TypeOK /\ JobInv /\ RowInv)
<1>1. Init => JobInv /\ RowInv
    <2>1. Init => JobInv
        BY DEF Init, Idle, JobInv, JobIsKnown, TokenDrawnOnce, GenerationClaimedOnce, Busy
    <2>2. Init => RowInv
        BY MaxAttemptsAssumption, RowInvByRow DEF Init, NoRow, RowFine
    <2> QED
        BY <2>1, <2>2
<1>2. TypeOK /\ JobInv /\ RowInv /\ [Next]_vars => JobInv' /\ RowInv'
    BY JobInvStep, RowInvStep
<1> QED
    BY <1>1, <1>2, TypeCorrect, PTL DEF Spec

\* No two runs of a task share a generation.
THEOREM GenerationsAreUnique == Spec => []GenerationClaimedOnce
    BY InvHolds, PTL DEF JobInv

\* A task has at most one conversion, of the generation its row shows.
THEOREM OneCurrentConversion == Spec => []ConversionIsCurrent
    BY InvHolds, PTL DEF RowInv

\* The task row, its import batch and its conversion tell one story.
THEOREM ResultsAgree == Spec => []ResultAgrees
    BY InvHolds, PTL DEF RowInv

\* Between two requests of the teacher a task is claimed at most MaxAttempts times.
THEOREM AttemptsAreBounded == Spec => []AttemptsBounded
    BY InvHolds, PTL DEF RowInv

\* At most one task is running and not asked to stop.
THEOREM OneSlot == Spec => []SingleSlot
<1>1. Init => SingleSlot
    BY DEF Init, NoRow, SingleSlot
<1>2. TypeOK /\ SingleSlot /\ [Next]_vars => SingleSlot'
    <2> SUFFICES ASSUME TypeOK, SingleSlot, [Next]_vars PROVE SingleSlot'
        OBVIOUS
    <2> DEFINE Live(t) == task[t].status = "running" /\ ~task[t].cancelRequested
    <2>1. ASSUME NEW w \in Workers, NEW t \in Tasks, ClaimTask(w, t) PROVE SingleSlot'
        BY <2>1 DEF ClaimTask, Occupied, TypeOK, SingleSlot
    <2>2. ASSUME \A t \in Tasks : Live(t)' => Live(t) PROVE SingleSlot'
        BY <2>2 DEF SingleSlot
    <2>3. ASSUME NEW w \in Workers, RecoverExpired(w) PROVE SingleSlot'
        <3>1. ASSUME NEW t \in Tasks PROVE Live(t)' => Live(t)
            <4>1. CASE ~Expired(t)
                BY <2>3, <4>1 DEF RecoverExpired
            <4>2. CASE Expired(t)
                BY <2>3, <4>2 DEF RecoverExpired, RecoveredRow, ReleasedRow, TypeOK, Row
            <4> QED
                BY <4>1, <4>2
        <3> QED
            BY <2>2, <3>1
    <2>4. ASSUME NEW w \in Workers, Heartbeat(w) PROVE SingleSlot'
        <3>1. ASSUME NEW t \in Tasks PROVE Live(t)' => Live(t)
            BY <2>4 DEF Heartbeat, TypeOK, Row
        <3> QED
            BY <2>2, <3>1
    <2>5. ASSUME NEW w \in Workers, SaveConversion(w) PROVE SingleSlot'
        BY <2>2, <2>5 DEF SaveConversion, ReleasedRow, TypeOK, Row
    <2>6. ASSUME NEW w \in Workers, WriteFailure(w) PROVE SingleSlot'
        BY <2>2, <2>6 DEF WriteFailure, ReleasedRow, TypeOK, Row
    <2>7. ASSUME NEW t \in Tasks, NEW seen \in {"queued", "running"}, CancelWrite(t, seen)
          PROVE SingleSlot'
        <3>1. ASSUME NEW u \in Tasks PROVE Live(u)' => Live(u)
            BY <2>7 DEF CancelWrite, CancelledRow, TypeOK, Row
        <3> QED
            BY <2>2, <3>1
    <2>8. ASSUME NEW t \in Tasks, NEW k \in RetryKeys, RetryTask(t, k) PROVE SingleSlot'
        BY <2>2, <2>8 DEF RetryTask, RetriedRow, TypeOK, Row
    <2>9. ASSUME NEW t \in Tasks, SubmitTask(t) \/ DeleteTask(t) PROVE SingleSlot'
        <3>1. ASSUME NEW u \in Tasks PROVE Live(u)' => Live(u)
            <4>1. CASE SubmitTask(t)
                BY <4>1 DEF SubmitTask, NoRow, TypeOK
            <4>2. CASE DeleteTask(t)
                BY <4>2 DEF DeleteTask, NoRow, TypeOK
            <4> QED
                BY <2>9, <4>1, <4>2
        <3> QED
            BY <2>2, <3>1
    <2>10. ASSUME NEW t \in Tasks, ConfirmCandidates(t) \/ Tick(t) PROVE SingleSlot'
        BY <2>2, <2>10 DEF ConfirmCandidates, Tick, LeaseExpires, BackoffEnds, TypeOK, Row
    <2>11. ASSUME UNCHANGED task PROVE SingleSlot'
        BY <2>2, <2>11
    <2> QED
        BY <2>1, <2>3, <2>4, <2>5, <2>6, <2>7, <2>8, <2>9, <2>10, <2>11
        DEF Next, WorkerStep, Progress, TeacherStep, ClaimNothing, ConvertDone, ConvertFailed,
            ConvertCancelled, DiscardStaleOutput, Crash, CancelRead, vars
<1> QED
    BY <1>1, <1>2, TypeCorrect, PTL DEF Spec

-----------------------------------------------------------------------------
\* A live lease is lost only by its holder's own step or to a cancel.
THEOREM LeaseIsKept == Spec => LiveLeaseIsKept
<1> DEFINE Kept == \A w \in Workers :
          LET t == worker[w].task
          IN  /\ Busy(w) /\ Holds(w) /\ ~task[t].expired
              /\ worker'[w] = worker[w] /\ cancels' = cancels
              => task'[t].status = "running" /\ task'[t].lease = worker[w].token
<1>1. TypeOK /\ JobInv /\ [Next]_vars => Kept
    <2> SUFFICES ASSUME TypeOK, JobInv, [Next]_vars,
                        NEW w \in Workers, Busy(w), Holds(w), ~task[worker[w].task].expired,
                        worker'[w] = worker[w], cancels' = cancels
                 PROVE  task'[worker[w].task].status = "running" /\
                        task'[worker[w].task].lease = worker[w].token
        OBVIOUS
    <2> DEFINE t == worker[w].task
    <2>0. t \in Tasks /\ task[t].status = "running" /\ task[t].lease = worker[w].token
        BY DEF JobInv, JobIsKnown, Holds
    <2>1. ASSUME NEW v \in Workers, RecoverExpired(v) PROVE task'[t] = task[t]
        BY <2>0, <2>1 DEF RecoverExpired, Expired
    <2>2. ASSUME NEW v \in Workers, NEW u \in Tasks, ClaimTask(v, u) PROVE task'[t] = task[t]
        BY <2>0, <2>2 DEF ClaimTask, FirstInLine, Claimable, TypeOK
    <2>3. ASSUME NEW v \in Workers, Heartbeat(v)
          PROVE  task'[t].status = "running" /\ task'[t].lease = worker[w].token
        BY <2>0, <2>3 DEF Heartbeat, TypeOK, Row
    <2>4. ASSUME NEW v \in Workers, SaveConversion(v) \/ WriteFailure(v) PROVE task'[t] = task[t]
        <3>1. v # w
            BY <2>4 DEF SaveConversion, WriteFailure, Busy, Idle, TypeOK
        <3>2. Holds(v) => worker[v].task # t
            BY <2>0, <2>4, <3>1 DEF SaveConversion, WriteFailure, Holds, JobInv, TokenDrawnOnce, Busy
        <3> QED
            BY <2>0, <2>4, <3>2 DEF SaveConversion, MaySave, WriteFailure, TypeOK
    <2>5. ASSUME NEW u \in Tasks, SubmitTask(u) \/ DeleteTask(u) PROVE task'[t] = task[t]
        BY <2>0, <2>5 DEF SubmitTask, DeleteTask, Deletable, Finished, TypeOK
    <2>6. ASSUME NEW u \in Tasks, NEW seen \in {"queued", "running"}, CancelWrite(u, seen)
          PROVE FALSE
        BY <2>6 DEF CancelWrite, TypeOK
    <2>7. ASSUME NEW u \in Tasks, NEW k \in RetryKeys, RetryTask(u, k) PROVE task'[t] = task[t]
        BY <2>0, <2>7 DEF RetryTask, Retriable, TypeOK
    <2>8. ASSUME NEW u \in Tasks, ConfirmCandidates(u) \/ Tick(u)
          PROVE  task'[t].status = "running" /\ task'[t].lease = worker[w].token
        <3>1. CASE ConfirmCandidates(u)
            BY <2>0, <3>1 DEF ConfirmCandidates, TypeOK, Row
        <3>2. CASE Tick(u)
            BY <2>0, <3>2 DEF Tick, LeaseExpires, BackoffEnds, TypeOK, Row
        <3> QED
            BY <2>8, <3>1, <3>2
    <2>9. ASSUME NEW v \in Workers,
                 \/ ClaimNothing(v) \/ ConvertDone(v) \/ ConvertFailed(v)
                 \/ ConvertCancelled(v) \/ DiscardStaleOutput(v) \/ Crash(v)
          PROVE  task' = task
        BY <2>9 DEF ClaimNothing, ConvertDone, ConvertFailed, ConvertCancelled,
                    DiscardStaleOutput, Crash
    <2>10. ASSUME NEW u \in Tasks, CancelRead(u) PROVE task' = task
        BY <2>10 DEF CancelRead
    <2>11. CASE \E v \in Workers : WorkerStep(v)
        BY <2>0, <2>1, <2>2, <2>3, <2>4, <2>9, <2>11 DEF WorkerStep, Progress
    <2>12. CASE \E u \in Tasks : TeacherStep(u) \/ Tick(u)
        BY <2>0, <2>5, <2>6, <2>7, <2>8, <2>10, <2>12 DEF TeacherStep
    <2>13. CASE UNCHANGED vars
        BY <2>0, <2>13 DEF vars
    <2> QED
        BY <2>11, <2>12, <2>13 DEF Next
<1>2. TypeOK /\ JobInv /\ RowInv /\ [Next]_vars => [Kept]_vars
    BY <1>1
<1> QED
    BY <1>2, InvHolds, PTL DEF Spec, LiveLeaseIsKept

-----------------------------------------------------------------------------
(***************************************************************************)
(* The refinement.  RowFine determines the phase of a row from its status  *)
(* and its batch; each action then is a step of ConversionJob or a stutter.*)
(***************************************************************************)
LEMMA PhaseOfRow ==
    ASSUME NEW row, NEW made, NEW pending, RowFine(row, made, pending)
    PROVE  /\ row.status = "absent" => PhaseOf(row, made) = "none"
           /\ row.status = "deleted" => PhaseOf(row, made) = "gone"
           /\ row.status \in {"queued", "running"} => PhaseOf(row, made) = "open"
           /\ row.status = "failed" => PhaseOf(row, made) = "closed"
           /\ row.status = "cancelled" /\ made = {} => PhaseOf(row, made) = "closed"
           /\ row.batch = "needs_review" => PhaseOf(row, made) = "delivered"
           /\ row.batch \in {"partially_saved", "saved"} => PhaseOf(row, made) = "published"
    BY DEF RowFine, PhaseOf

LEMMA PhaseKept ==
    ASSUME NEW row, NEW made, NEW next,
           next.status = row.status, next.batch = row.batch
    PROVE  PhaseOf(next, made) = PhaseOf(row, made)
    BY DEF PhaseOf

JobPhase == [t \in Tasks |-> PhaseOf(task[t], conversions[t])]

LEMMA JobStep ==
    ASSUME TypeOK, JobInv, RowInv, RowInv', [Next]_vars
    PROVE  [Promise!JobNext]_(Promise!jobVars)
<1> DEFINE Fine(t) == RowFine(task[t], conversions[t], cancels[t])
<1>a. \A t \in Tasks : Fine(t)
    BY RowInvByRow
<1>b. \A t \in Tasks : Fine(t)'
    BY DEF RowInv, NothingBeforeOrAfter, ResultAgrees, ConversionIsCurrent,
           AttemptsBounded, RowFine
<1>c. ASSUME \A t \in Tasks : /\ task'[t].status = task[t].status
                              /\ task'[t].batch = task[t].batch,
             UNCHANGED conversions
      PROVE  UNCHANGED Promise!jobVars
    BY <1>c, PhaseKept DEF Promise!jobVars
\* One row moves from one phase to another and the others stay.
<1>d. ASSUME NEW t \in Tasks, NEW to, PhaseOf(task'[t], conversions'[t]) = to,
             \A u \in Tasks : u # t => task'[u] = task[u] /\ conversions'[u] = conversions[u]
      PROVE  JobPhase' = [JobPhase EXCEPT ![t] = to]
    BY <1>d DEF JobPhase
<1>1. ASSUME NEW w \in Workers, RecoverExpired(w) PROVE Promise!JobNext
    <2> DEFINE S == {t \in Tasks : Expired(t) /\ task[t].attempts >= MaxAttempts}
    <2>1. ASSUME NEW t \in Tasks
          PROVE  /\ t \in S => JobPhase[t] = "open" /\ JobPhase'[t] = "closed"
                 /\ t \notin S => JobPhase'[t] = JobPhase[t]
        <3>1. CASE ~Expired(t)
            BY <1>1, <3>1 DEF RecoverExpired, JobPhase
        <3>2. CASE Expired(t)
            <4>1. task'[t] = RecoveredRow(task[t]) /\ JobPhase[t] = "open"
                BY <1>1, <1>a, <3>2, PhaseOfRow DEF RecoverExpired, Expired, JobPhase
            <4>2. CASE t \in S
                <5>1. task'[t].status = "failed"
                    BY <4>1, <4>2 DEF RecoveredRow, ReleasedRow, TypeOK, Row
                <5> QED
                    BY <1>b, <4>1, <4>2, <5>1, PhaseOfRow DEF JobPhase
            <4>3. CASE t \notin S
                <5>1. task'[t].status = "queued"
                    BY <3>2, <4>1, <4>3 DEF RecoveredRow, TypeOK, Row
                <5> QED
                    BY <1>b, <4>1, <4>3, <5>1, PhaseOfRow DEF JobPhase
            <4> QED
                BY <4>2, <4>3
        <3> QED
            BY <3>1, <3>2
    <2>2. JobPhase' = [t \in Tasks |-> IF t \in S THEN "closed" ELSE JobPhase[t]]
        BY <2>1 DEF JobPhase
    <2>3. S \in SUBSET {t \in Tasks : JobPhase[t] = "open"}
        BY <2>1
    <2> QED
        BY <1>1, <2>2, <2>3 DEF RecoverExpired, Promise!JobNext, Promise!Close, JobPhase
<1>2. ASSUME NEW w \in Workers, NEW t \in Tasks, ClaimTask(w, t)
      PROVE  UNCHANGED Promise!jobVars
    <2>1. task[t].status = "queued" /\ task'[t].status = "running"
        BY <1>2 DEF ClaimTask, FirstInLine, Claimable, ClaimedRow, TypeOK, Row
    <2>2. PhaseOf(task'[t], conversions'[t]) = PhaseOf(task[t], conversions[t])
        BY <1>a, <1>b, <2>1, PhaseOfRow
    <2>3. \A u \in Tasks : u # t => task'[u] = task[u]
        BY <1>2 DEF ClaimTask, TypeOK
    <2> QED
        BY <1>2, <2>2, <2>3 DEF ClaimTask, Promise!jobVars
<1>3. ASSUME NEW w \in Workers, Heartbeat(w) PROVE UNCHANGED Promise!jobVars
    <2>1. \A t \in Tasks : task'[t].status = task[t].status /\ task'[t].batch = task[t].batch
        BY <1>3 DEF Heartbeat, TypeOK, Row
    <2> QED
        BY <1>3, <1>c, <2>1 DEF Heartbeat
<1>4. ASSUME NEW w \in Workers, SaveConversion(w)
      PROVE  \E t \in Tasks : Promise!Deliver(t)
    <2> DEFINE t == worker[w].task
               r == [generation |-> worker[w].generation, token |-> worker[w].token]
               row == ReleasedRow(task[t], "parsed", "needs_review")
    <2>1. t \in Tasks /\ task[t].status = "running"
        BY <1>4 DEF SaveConversion, MaySave, Holds, JobInv, JobIsKnown, Busy
    <2>2. conversions[t] = {} /\ PhaseOf(task[t], conversions[t]) = "open"
        BY <1>a, <2>1, PhaseOfRow DEF RowFine
    <2>3. /\ task' = [task EXCEPT ![t] = row]
          /\ conversions' = [conversions EXCEPT ![t] = {r}]
          /\ task'[t] = row /\ conversions'[t] = {r}
        BY <1>4, <2>1, <2>2 DEF SaveConversion, TypeOK
    <2>4. task'[t].batch = "needs_review"
        BY <2>1, <2>3 DEF ReleasedRow, TypeOK, Row
    <2>5. PhaseOf(task'[t], conversions'[t]) = "delivered"
        BY <1>b, <2>1, <2>4, PhaseOfRow
    <2>6. JobPhase' = [JobPhase EXCEPT ![t] = "delivered"]
        BY <1>d, <2>1, <2>3, <2>5 DEF TypeOK
    <2>7. r \in Conversion
        BY DEF TypeOK, Job, Conversion
    <2> QED
        BY <2>1, <2>2, <2>3, <2>6, <2>7 DEF Promise!Deliver, Promise!Move, JobPhase
<1>5. ASSUME NEW w \in Workers, WriteFailure(w)
      PROVE  UNCHANGED Promise!jobVars \/ Promise!Close
    <2> DEFINE t == worker[w].task
               code == IF worker[w].pc = "stopping" THEN "cancelled" ELSE "failed"
               row == ReleasedRow(task[t], code, code)
    <2>1. CASE ~Holds(w)
        BY <1>5, <2>1 DEF WriteFailure, Promise!jobVars
    <2>2. CASE Holds(w)
        <3>1. t \in Tasks /\ task[t].status = "running"
            BY <1>5, <2>2 DEF WriteFailure, Holds, JobInv, JobIsKnown, Busy
        <3>2. conversions[t] = {} /\ PhaseOf(task[t], conversions[t]) = "open"
            BY <1>a, <3>1, PhaseOfRow DEF RowFine
        <3>3. task' = [task EXCEPT ![t] = row] /\ task'[t] = row /\ conversions' = conversions
            BY <1>5, <2>2, <3>1 DEF WriteFailure, TypeOK
        <3>4. row.status = code
            BY <3>1 DEF ReleasedRow, TypeOK, Row
        <3>5. PhaseOf(task'[t], conversions'[t]) = "closed"
            BY <1>b, <3>1, <3>2, <3>3, <3>4, PhaseOfRow
        <3>6. JobPhase' = [u \in Tasks |-> IF u \in {t} THEN "closed" ELSE JobPhase[u]]
            BY <1>d, <3>1, <3>3, <3>5 DEF JobPhase, TypeOK
        <3>7. {t} \in SUBSET {u \in Tasks : JobPhase[u] = "open"}
            BY <3>1, <3>2 DEF JobPhase
        <3> QED
            BY <3>3, <3>6, <3>7 DEF Promise!Close, JobPhase
    <2> QED
        BY <2>1, <2>2
<1>6. ASSUME NEW t \in Tasks, SubmitTask(t) PROVE Promise!Submit(t)
    <2> DEFINE row == [NoRow("queued") EXCEPT !.generation = 1, !.due = TRUE, !.batch = "queued"]
    <2>1. task' = [task EXCEPT ![t] = row] /\ task'[t] = row /\ conversions' = conversions
        BY <1>6 DEF SubmitTask, TypeOK
    <2>2. PhaseOf(task[t], conversions[t]) = "none"
        BY <1>6, <1>a, PhaseOfRow DEF SubmitTask
    <2>3. task'[t].status = "queued"
        BY <2>1 DEF NoRow
    <2>4. PhaseOf(task'[t], conversions'[t]) = "open"
        BY <1>b, <2>3, PhaseOfRow
    <2>5. JobPhase' = [JobPhase EXCEPT ![t] = "open"]
        BY <1>d, <2>1, <2>4 DEF TypeOK
    <2> QED
        BY <2>1, <2>2, <2>5 DEF Promise!Submit, Promise!Move, JobPhase
<1>7. ASSUME NEW t \in Tasks, NEW seen \in {"queued", "running"}, CancelWrite(t, seen)
      PROVE  UNCHANGED Promise!jobVars \/ Promise!Close
    <2> DEFINE row == CancelledRow(task[t], seen)
    <2>1. CASE task'[t].status = task[t].status
        <3>1. \A u \in Tasks : task'[u].status = task[u].status /\ task'[u].batch = task[u].batch
            BY <1>7, <2>1 DEF CancelWrite, CancelledRow, TypeOK, Row
        <3> QED
            BY <1>7, <1>c, <3>1 DEF CancelWrite
    <2>2. CASE task'[t].status # task[t].status
        <3>1. /\ task' = [task EXCEPT ![t] = row] /\ task'[t] = row
              /\ conversions' = conversions
              /\ row.status = "cancelled" /\ row.batch = task[t].batch
              /\ task[t].status \notin {"deleted", "cancelled"}
            BY <1>7, <2>2 DEF CancelWrite, CancelledRow, TypeOK, Row
        <3>2. task[t].status # "absent"
            BY <1>7, <1>a DEF CancelWrite, RowFine
        <3>3. CASE conversions[t] # {}
            <4>1. task'[t].batch \in {"needs_review", "partially_saved", "saved"}
                BY <1>a, <3>1, <3>3 DEF RowFine
            <4>2. PhaseOf(task'[t], conversions'[t]) = PhaseOf(task[t], conversions[t])
                BY <1>a, <1>b, <3>1, <4>1, PhaseOfRow
            <4>3. \A u \in Tasks : u # t => task'[u] = task[u]
                BY <3>1 DEF TypeOK
            <4> QED
                BY <3>1, <4>2, <4>3 DEF Promise!jobVars
        <3>4. CASE conversions[t] = {} /\ task[t].status = "failed"
            <4>1. PhaseOf(task'[t], conversions'[t]) = PhaseOf(task[t], conversions[t])
                BY <1>a, <1>b, <3>1, <3>4, PhaseOfRow
            <4>2. \A u \in Tasks : u # t => task'[u] = task[u]
                BY <3>1 DEF TypeOK
            <4> QED
                BY <3>1, <4>1, <4>2 DEF Promise!jobVars
        <3>5. CASE conversions[t] = {} /\ task[t].status \in {"queued", "running"}
            <4>1. PhaseOf(task[t], conversions[t]) = "open" /\ PhaseOf(task'[t], conversions'[t]) = "closed"
                BY <1>a, <1>b, <3>1, <3>5, PhaseOfRow
            <4>2. JobPhase' = [u \in Tasks |-> IF u \in {t} THEN "closed" ELSE JobPhase[u]]
                BY <1>d, <3>1, <4>1 DEF JobPhase, TypeOK
            <4>3. {t} \in SUBSET {u \in Tasks : JobPhase[u] = "open"}
                BY <4>1 DEF JobPhase
            <4> QED
                BY <3>1, <4>2, <4>3 DEF Promise!Close, JobPhase
        <3>6. conversions[t] = {} => task[t].status \in {"failed", "queued", "running"}
            BY <1>a, <3>1, <3>2 DEF TypeOK, Row, Statuses, RowFine
        <3> QED
            BY <3>3, <3>4, <3>5, <3>6
    <2> QED
        BY <2>1, <2>2
<1>8. ASSUME NEW t \in Tasks, NEW k \in RetryKeys, RetryTask(t, k) PROVE Promise!Reopen(t)
    <2>1. /\ task[t].status \in {"failed", "cancelled"} /\ conversions[t] = {}
          /\ task'[t].status = "queued" /\ conversions' = conversions
          /\ \A u \in Tasks : u # t => task'[u] = task[u]
        BY <1>8 DEF RetryTask, Retriable, RetriedRow, TypeOK, Row
    <2>2. PhaseOf(task[t], conversions[t]) = "closed" /\ PhaseOf(task'[t], conversions'[t]) = "open"
        BY <1>a, <1>b, <2>1, PhaseOfRow
    <2>3. JobPhase' = [JobPhase EXCEPT ![t] = "open"]
        BY <1>d, <2>1, <2>2
    <2> QED
        BY <2>1, <2>2, <2>3 DEF Promise!Reopen, Promise!Move, JobPhase
<1>9. ASSUME NEW t \in Tasks, ConfirmCandidates(t)
      PROVE  UNCHANGED Promise!jobVars \/ Promise!Publish(t)
    <2>1. /\ task[t].batch \in {"needs_review", "partially_saved"}
          /\ task'[t].batch \in {"partially_saved", "saved"}
          /\ conversions' = conversions
          /\ \A u \in Tasks : u # t => task'[u] = task[u]
        BY <1>9, <1>a DEF ConfirmCandidates, RowFine, TypeOK, Row
    <2>2. /\ PhaseOf(task[t], conversions[t]) \in {"delivered", "published"}
          /\ PhaseOf(task'[t], conversions'[t]) = "published"
        BY <1>a, <1>b, <2>1, PhaseOfRow
    <2>3. JobPhase' = [JobPhase EXCEPT ![t] = "published"]
        BY <1>d, <2>1, <2>2
    <2>4. CASE PhaseOf(task[t], conversions[t]) = "delivered"
        BY <2>1, <2>3, <2>4 DEF Promise!Publish, Promise!Move, JobPhase
    <2>5. CASE PhaseOf(task[t], conversions[t]) = "published"
        BY <2>1, <2>2, <2>5 DEF Promise!jobVars
    <2> QED
        BY <2>2, <2>4, <2>5
<1>10. ASSUME NEW t \in Tasks, DeleteTask(t) PROVE Promise!Remove(t)
    <2>1. /\ task[t].status \in {"parsed", "failed", "cancelled"}
          /\ task[t].batch \notin {"partially_saved", "saved"}
          /\ task'[t].status = "deleted" /\ conversions' = [conversions EXCEPT ![t] = {}]
          /\ \A u \in Tasks : u # t => task'[u] = task[u] /\ conversions'[u] = conversions[u]
        BY <1>10 DEF DeleteTask, Deletable, Finished, Published, NoRow, TypeOK
    <2>2. IF conversions[t] = {} THEN task[t].status # "parsed"
                                 ELSE task[t].batch = "needs_review"
        BY <1>a, <2>1 DEF RowFine
    <2>3. /\ PhaseOf(task[t], conversions[t]) \in {"closed", "delivered"}
          /\ PhaseOf(task'[t], conversions'[t]) = "gone"
        BY <1>a, <1>b, <2>1, <2>2, PhaseOfRow
    <2>4. JobPhase' = [JobPhase EXCEPT ![t] = "gone"]
        BY <1>d, <2>1, <2>3
    <2> QED
        BY <2>1, <2>3, <2>4 DEF Promise!Remove, Promise!Move, JobPhase
<1>11. ASSUME NEW t \in Tasks, Tick(t) PROVE UNCHANGED Promise!jobVars
    <2>1. \A u \in Tasks : task'[u].status = task[u].status /\ task'[u].batch = task[u].batch
        BY <1>11 DEF Tick, LeaseExpires, BackoffEnds, TypeOK, Row
    <2> QED
        BY <1>11, <1>c, <2>1 DEF Tick, LeaseExpires, BackoffEnds
<1>12. ASSUME UNCHANGED <<task, conversions>> PROVE UNCHANGED Promise!jobVars
    BY <1>12 DEF Promise!jobVars
<1>13. CASE \E w \in Workers : WorkerStep(w)
    <2>1. ASSUME NEW w \in Workers,
                 \/ ClaimNothing(w) \/ ConvertDone(w) \/ ConvertFailed(w)
                 \/ ConvertCancelled(w) \/ DiscardStaleOutput(w) \/ Crash(w)
          PROVE  UNCHANGED <<task, conversions>>
        BY <2>1 DEF ClaimNothing, ConvertDone, ConvertFailed, ConvertCancelled,
                    DiscardStaleOutput, Crash
    <2> QED
        BY <1>1, <1>2, <1>3, <1>4, <1>5, <1>12, <1>13, <2>1
        DEF WorkerStep, Progress, Promise!JobNext
<1>14. CASE \E t \in Tasks : TeacherStep(t) \/ Tick(t)
    <2>1. ASSUME NEW t \in Tasks, CancelRead(t) PROVE UNCHANGED <<task, conversions>>
        BY <2>1 DEF CancelRead
    <2> QED
        BY <1>6, <1>7, <1>8, <1>9, <1>10, <1>11, <1>12, <1>14, <2>1
        DEF TeacherStep, Promise!JobNext
<1>15. CASE UNCHANGED vars
    BY <1>12, <1>15 DEF vars
<1> QED
    BY <1>13, <1>14, <1>15 DEF Next

\* The conversion queue implements ConversionJob.
THEOREM QueueKeepsPromise == Spec => KeepsPromise
<1>1. Init => Promise!JobInit
    BY DEF Init, NoRow, PhaseOf, Promise!JobInit
<1>2. TypeOK /\ JobInv /\ RowInv /\ (TypeOK /\ JobInv /\ RowInv)' /\ [Next]_vars
        => [Promise!JobNext]_(Promise!jobVars)
    BY JobStep
<1> QED
    BY <1>1, <1>2, InvHolds, PTL DEF Spec, KeepsPromise, Promise!JobSpec

\* Claims exclude each other, for any number of tasks, workers and retries.
THEOREM SoundClaims == Spec => []ClaimsAreSound
    BY OneSlot, GenerationsAreUnique, AttemptsAreBounded, PTL DEF ClaimsAreSound

\* Task, batch and conversions show the outcome of the task's generation.
THEOREM CurrentResults == Spec => []ResultIsCurrent
    BY OneCurrentConversion, ResultsAgree, PTL DEF ResultIsCurrent
=============================================================================
