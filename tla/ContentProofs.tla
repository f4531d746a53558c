---------------------------- MODULE ContentProofs ----------------------------
(***************************************************************************)
(* The way of a paper into the bank, proved for any number of tasks,       *)
(* workers, images, teachers, parser runs, questions, reviewers' choices,  *)
(* server starts and rows: images keep their rows and files, a parsed task *)
(* shows one run whole, what is published and adopted is what was reviewed *)
(* and audited, and deaths and restarts do no harm.  Each part has its     *)
(* inductive invariant, named in its section; the last section puts them   *)
(* together.  The splitter's properties speak of folds and of SelectSeq    *)
(* and are left to TLC.                                                    *)
(***************************************************************************)
EXTENDS MCContent, FiniteSetTheorems, FunctionTheorems, SequenceTheorems, TLAPS

-----------------------------------------------------------------------------
(***************************************************************************)
(* The object store. The argument rests on the lease: a run has a number   *)
(* of its own, so a worker that lost its lease never holds it again, and   *)
(* as long as it holds it a conversion is under way and the collector      *)
(* touches nothing.                                                        *)
(***************************************************************************)
TaskRow == [status : {"queued", "running", "parsed", "failed", "deleted"},
            lease : 0..MaxRuns, published : BOOLEAN]

Process == [pc : {"idle", "converting"}, task : Tasks \cup {SomeTask}, run : 0..MaxRuns,
            found : SUBSET Assets]

\* The values of the variables that the argument needs.
Typed ==
    /\ task \in [Tasks -> TaskRow]
    /\ worker \in [Workers -> Process]
    /\ convRow \in [Runs -> SUBSET Tasks]
    /\ refs \in [Tasks -> SUBSET Assets]
    /\ runs \in 0..MaxRuns
    /\ row \subseteq Assets /\ content \subseteq Assets
    /\ unlinking \subseteq Objects

\* Runs are numbered in the order of their claims, and no two workers share one.
RunsAreUnique ==
    /\ \A t \in Tasks : task[t].lease <= runs
    /\ \A w \in Workers : Converting(w) => /\ worker[w].task \in Tasks
                                           /\ worker[w].run \in 1..runs
    /\ \A v, w \in Workers : Converting(v) /\ Converting(w) /\ worker[v].run = worker[w].run => v = w

\* What a worker with its lease has found so far is on disk.
HeldIsOnDisk ==
    \A w \in Workers : Converting(w) /\ Holds(w) =>
        \A a \in worker[w].found : a \in file \/ a \in deleted

\* A run whose conversion is recorded or being removed is over.
RecordedIsOver ==
    \A r \in Runs : convRow[r] # {} \/ <<"conversion", r>> \in unlinking =>
        r <= runs /\ \A w \in Workers : Converting(w) => worker[w].run # r

\* A conversion belongs to one task, and none is removed that still does.
OneOwner ==
    \A r \in Runs :
        /\ \A t, u \in convRow[r] : t = u
        /\ <<"conversion", r>> \in unlinking => convRow[r] = {}

StoreInv == Typed /\ RunsAreUnique /\ HeldIsOnDisk /\ RecordedIsOver /\ OneOwner /\ ImagesAreKept

-----------------------------------------------------------------------------
(***************************************************************************)
(* Types.                                                                  *)
(***************************************************************************)
LEMMA TypedInit == StoreInit => Typed
<1> SUFFICES ASSUME StoreInit PROVE Typed
    OBVIOUS
<1>1. task \in [Tasks -> TaskRow]
    BY StoreAssumption DEF StoreInit, Queued, TaskRow
<1>2. worker \in [Workers -> Process]
    BY StoreAssumption DEF StoreInit, Idle, Process
<1> QED
    BY <1>1, <1>2, StoreAssumption DEF StoreInit, Typed

\* A row that is changed stays a row.
LEMMA TaskChange ==
    ASSUME Typed, NEW t \in Tasks
    PROVE  /\ \A s \in {"queued", "running", "parsed", "failed", "deleted"} :
                 [task EXCEPT ![t].status = s] \in [Tasks -> TaskRow]
           /\ \A s \in {"queued", "running", "parsed", "failed", "deleted"}, n \in 0..MaxRuns :
                 [task EXCEPT ![t].status = s, ![t].lease = n] \in [Tasks -> TaskRow]
           /\ [task EXCEPT ![t].published = TRUE] \in [Tasks -> TaskRow]
BY DEF Typed, TaskRow

LEMMA NoLease == 0 \in 0..MaxRuns
BY StoreAssumption

LEMMA IdleIsProcess == Idle \in Process
BY StoreAssumption DEF Idle, Process

LEMMA TypedStep ==
    ASSUME Typed, RunsAreUnique, [StoreNext]_storeVars PROVE Typed'
<1> USE DEF Typed
<1>1. CASE UNCHANGED storeVars
    BY <1>1 DEF storeVars
<1>2. ASSUME NEW w \in Workers, NEW t \in Tasks, Claim(w, t) PROVE Typed'
    <2>1. runs + 1 \in 0..MaxRuns /\ runs' = runs + 1
        BY <1>2, StoreAssumption DEF Claim
    <2>2. task' \in [Tasks -> TaskRow]
        BY <1>2, <2>1, TaskChange DEF Claim
    <2>3. [pc |-> "converting", task |-> t, run |-> runs + 1, found |-> {}] \in Process
        BY <2>1 DEF Process
    <2>4. worker' \in [Workers -> Process]
        BY <1>2, <2>3 DEF Claim
    <2> QED
        BY <1>2, <2>1, <2>2, <2>4 DEF Claim
<1>3. ASSUME NEW w \in Workers, NEW a \in Assets, StoreAsset(w, a) PROVE Typed'
    <2>1. worker' \in [Workers -> Process]
        BY <1>3 DEF StoreAsset, Process
    <2> QED
        BY <1>3, <2>1 DEF StoreAsset
<1>4. ASSUME NEW w \in Workers, WriteConversion(w) PROVE Typed'
    BY <1>4 DEF WriteConversion
<1>5. ASSUME NEW w \in Workers, Record(w) PROVE Typed'
    <2>1. worker[w].task \in Tasks /\ worker[w].found \subseteq Assets /\ worker[w].run \in Runs
        BY <1>5 DEF Record, RunsAreUnique, Process, Runs
    <2>2. task' \in [Tasks -> TaskRow]
        <3> DEFINE t == worker[w].task
        <3>1. \/ task' = [task EXCEPT ![t].status = "parsed", ![t].lease = 0]
              \/ task' = task
            BY <1>5 DEF Record
        <3>2. t \in Tasks
            BY <2>1
        <3> HIDE DEF t
        <3>3. \A s \in {"queued", "running", "parsed", "failed", "deleted"}, n \in 0..MaxRuns :
                 [task EXCEPT ![t].status = s, ![t].lease = n] \in [Tasks -> TaskRow]
            BY <3>2, TaskChange
        <3>4. [task EXCEPT ![t].status = "parsed", ![t].lease = 0] \in [Tasks -> TaskRow]
            BY <3>3, NoLease, Zenon
        <3> QED
            BY <3>1, <3>4
    <2>3. worker' \in [Workers -> Process]
        BY <1>5, IdleIsProcess DEF Record
    <2>4. convRow' \in [Runs -> SUBSET Tasks] /\ refs' \in [Tasks -> SUBSET Assets]
              /\ row' \subseteq Assets
        BY <1>5, <2>1 DEF Record
    <2> QED
        BY <1>5, <2>2, <2>3, <2>4 DEF Record
<1>6. ASSUME NEW w \in Workers, GiveUp(w) PROVE Typed'
    <2>1. worker[w].task \in Tasks
        BY <1>6 DEF GiveUp, RunsAreUnique
    <2>2. task' \in [Tasks -> TaskRow]
        <3> DEFINE t == worker[w].task
        <3>1. \/ task' = [task EXCEPT ![t].status = "failed", ![t].lease = 0]
              \/ task' = task
            BY <1>6 DEF GiveUp
        <3>2. t \in Tasks
            BY <2>1
        <3> HIDE DEF t
        <3>3. \A s \in {"queued", "running", "parsed", "failed", "deleted"}, n \in 0..MaxRuns :
                 [task EXCEPT ![t].status = s, ![t].lease = n] \in [Tasks -> TaskRow]
            BY <3>2, TaskChange
        <3>4. [task EXCEPT ![t].status = "failed", ![t].lease = 0] \in [Tasks -> TaskRow]
            BY <3>3, NoLease, Zenon
        <3> QED
            BY <3>1, <3>4
    <2>3. worker' \in [Workers -> Process]
        BY <1>6, IdleIsProcess DEF GiveUp
    <2> QED
        BY <1>6, <2>2, <2>3 DEF GiveUp
<1>7. ASSUME NEW t \in Tasks, Recover(t) PROVE Typed'
    <2>1. task' \in [Tasks -> TaskRow]
        <3>1. PICK s \in {"queued", "failed"} :
                  task' = [task EXCEPT ![t].status = s, ![t].lease = 0]
            BY <1>7 DEF Recover
        <3> QED
            BY <3>1, TaskChange, NoLease
    <2> QED
        BY <1>7, <2>1 DEF Recover
<1>8. ASSUME NEW t \in Tasks, Retry(t) PROVE Typed'
    <2>1. task' \in [Tasks -> TaskRow]
        BY <1>8, TaskChange DEF Retry
    <2> QED
        BY <1>8, <2>1 DEF Retry
<1>9. ASSUME NEW t \in Tasks, Publish(t) PROVE Typed'
    <2>1. task' \in [Tasks -> TaskRow]
        BY <1>9, TaskChange DEF Publish
    <2> QED
        BY <1>9, <2>1 DEF Publish
<1>10. ASSUME NEW t \in Tasks, DeleteTask(t) PROVE Typed'
    <2>1. task' \in [Tasks -> TaskRow]
        BY <1>10, TaskChange DEF DeleteTask
    <2>2. unlinking' \subseteq Objects
        BY <1>10 DEF DeleteTask, Unreferenced, Objects
    <2>3. convRow' \in [Runs -> SUBSET Tasks] /\ refs' \in [Tasks -> SUBSET Assets]
              /\ row' \subseteq Assets
        BY <1>10 DEF DeleteTask
    <2> QED
        BY <1>10, <2>1, <2>2, <2>3 DEF DeleteTask
<1>11. ASSUME NEW o \in Objects, Unlink(o) PROVE Typed'
    BY <1>11 DEF Unlink
<1>12. CASE StopUnlinking
    BY <1>12 DEF StopUnlinking
<1>13. CASE Age
    BY <1>13 DEF Age
<1>14. CASE Collect
    BY <1>14 DEF Collect
<1> QED
    BY <1>1, <1>2, <1>3, <1>4, <1>5, <1>6, <1>7, <1>8, <1>9, <1>10, <1>11, <1>12, <1>13, <1>14
    DEF StoreNext, Claims, Storing, Writing, Recording, Failing, Recovering, Retrying,
        Publishing, Deleting, Unlinks

-----------------------------------------------------------------------------
(***************************************************************************)
(* How a step moves the workers and the leases.                            *)
(***************************************************************************)
\* A worker that goes on converts the same task in the same run.
GoesOn(w) ==
    /\ worker'[w].pc = worker[w].pc /\ worker'[w].task = worker[w].task
    /\ worker'[w].run = worker[w].run

\* A step that is no claim issues no lease, and lets workers go on or end.
NoClaim ==
    /\ runs' = runs
    /\ \A t \in Tasks : task'[t].lease \in {0, task[t].lease}
    /\ \A t \in Tasks : task'[t].status = "running" => task[t].status = "running" /\ task'[t] = task[t]
    /\ \A w \in Workers : ~Converting(w)' \/ GoesOn(w)

LEMMA OnlyClaimsClaim ==
    ASSUME Typed, RunsAreUnique, [StoreNext]_storeVars,
           \A w \in Workers, t \in Tasks : ~Claim(w, t)
    PROVE  NoClaim
<1> USE DEF Typed, NoClaim, GoesOn, Converting
<1> DEFINE Same == worker' = worker /\ runs' = runs
<1>1. ASSUME task' = task, worker' = worker, runs' = runs PROVE NoClaim
    BY <1>1
<1>2. ASSUME NEW t \in Tasks, NEW s \in {"queued", "failed", "deleted", "parsed"},
             task' = [task EXCEPT ![t].status = s] \/ task' = [task EXCEPT ![t].status = s, ![t].lease = 0],
             runs' = runs, \A w \in Workers : ~Converting(w)' \/ GoesOn(w)
      PROVE  NoClaim
    <2>1. \A u \in Tasks : u # t => task'[u] = task[u]
        BY <1>2
    <2>2. task'[t].lease \in {0, task[t].lease} /\ task'[t].status = s
        BY <1>2 DEF TaskRow
    <2> QED
        BY <1>2, <2>1, <2>2
<1>3. ASSUME NEW w \in Workers, NEW a \in Assets, StoreAsset(w, a) PROVE NoClaim
    <2>1. \A v \in Workers : GoesOn(v)
        BY <1>3 DEF StoreAsset, Process
    <2> QED
        BY <1>3, <2>1 DEF StoreAsset
<1>4. ASSUME NEW w \in Workers, worker' = [worker EXCEPT ![w] = Idle]
      PROVE  \A v \in Workers : ~Converting(v)' \/ GoesOn(v)
    BY <1>4 DEF Idle
<1>5. ASSUME NEW w \in Workers, Record(w) PROVE NoClaim
    <2>1. worker[w].task \in Tasks /\ runs' = runs /\ worker' = [worker EXCEPT ![w] = Idle]
        BY <1>5 DEF Record, RunsAreUnique
    <2>2. CASE Holds(w)
        BY <1>2, <1>4, <1>5, <2>1, <2>2 DEF Record
    <2>3. CASE ~Holds(w)
        BY <1>4, <1>5, <2>1, <2>3 DEF Record
    <2> QED
        BY <2>2, <2>3
<1>6. ASSUME NEW w \in Workers, GiveUp(w) PROVE NoClaim
    <2>1. worker[w].task \in Tasks /\ runs' = runs /\ worker' = [worker EXCEPT ![w] = Idle]
        BY <1>6 DEF GiveUp, RunsAreUnique
    <2>2. CASE task' = task
        BY <1>4, <2>1, <2>2
    <2>3. CASE task' = [task EXCEPT ![worker[w].task].status = "failed", ![worker[w].task].lease = 0]
        BY <1>2, <1>4, <2>1, <2>3
    <2> QED
        BY <1>6, <2>2, <2>3 DEF GiveUp
<1>7. ASSUME NEW t \in Tasks, Recover(t) PROVE NoClaim
    BY <1>2, <1>7 DEF Recover
<1>8. ASSUME NEW t \in Tasks, Retry(t) PROVE NoClaim
    BY <1>2, <1>8 DEF Retry
<1>9. ASSUME NEW t \in Tasks, Publish(t) PROVE NoClaim
    BY <1>9 DEF Publish, TaskRow
<1>10. ASSUME NEW t \in Tasks, DeleteTask(t) PROVE NoClaim
    BY <1>2, <1>10 DEF DeleteTask
<1> QED
    BY <1>1, <1>3, <1>5, <1>6, <1>7, <1>8, <1>9, <1>10
    DEF storeVars, StoreNext, Claims, Storing, Writing, Recording, Failing, Recovering, Retrying,
        Publishing, Deleting, Unlinks, WriteConversion, Unlink, StopUnlinking, Age, Collect

LEMMA UniqueStep ==
    ASSUME Typed, RunsAreUnique, [StoreNext]_storeVars PROVE RunsAreUnique'
<1> USE DEF Typed, RunsAreUnique, Converting
<1>1. ASSUME NEW w \in Workers, NEW t \in Tasks, Claim(w, t) PROVE RunsAreUnique'
    <2>1. runs' = runs + 1 /\ runs \in Nat
        BY <1>1, StoreAssumption DEF Claim
    <2>2. \A u \in Tasks : task'[u].lease <= runs'
        <3>1. \A u \in Tasks : task'[u].lease \in {runs + 1, task[u].lease} /\ task[u].lease \in Nat
            BY <1>1, StoreAssumption DEF Claim, TaskRow
        <3> QED
            BY <2>1, <3>1
    <2>3. worker'[w].run = runs + 1 /\ worker'[w].task = t /\ \A v \in Workers \ {w} : worker'[v] = worker[v]
        BY <1>1 DEF Claim
    <2>4. \A v \in Workers : Converting(v)' => worker'[v].task \in Tasks /\ worker'[v].run \in 1..runs'
        BY <2>1, <2>3
    <2>5. \A v \in Workers \ {w} : Converting(v)' => worker'[v].run # runs + 1
        BY <2>1, <2>3
    <2> QED
        BY <2>2, <2>3, <2>4, <2>5
<1>2. ASSUME NoClaim PROVE RunsAreUnique'
    <2>1. \A t \in Tasks : task'[t].lease <= runs'
        <3>1. \A t \in Tasks : task[t].lease <= runs /\ 0 <= runs /\ runs' = runs
            BY <1>2, StoreAssumption DEF NoClaim
        <3> QED
            BY <1>2, <3>1 DEF NoClaim
    <2> QED
        BY <1>2, <2>1 DEF NoClaim, GoesOn
<1> QED
    BY <1>1, <1>2, OnlyClaimsClaim

-----------------------------------------------------------------------------
(***************************************************************************)
(* Files.                                                                  *)
(***************************************************************************)
OnDiskOrDeleted(a) == a \in file \/ a \in deleted

\* Nothing but the collector takes an image away without a trace.
LEMMA OnlyCollectCollects ==
    ASSUME [StoreNext]_storeVars, ~Collect, NEW a, OnDiskOrDeleted(a) PROVE OnDiskOrDeleted(a)'
<1> USE DEF OnDiskOrDeleted
<1>1. ASSUME NEW o \in Objects, Unlink(o) PROVE OnDiskOrDeleted(a)'
    <2>1. CASE file' = file /\ deleted' = deleted
        BY <2>1
    <2>2. CASE Removed(o) /\ deleted' = IF o[1] = "image" THEN deleted \cup {o[2]} ELSE deleted
        BY <2>2 DEF Removed
    <2> QED
        BY <1>1, <2>1, <2>2 DEF Unlink
<1>2. ASSUME NEW w \in Workers, NEW b \in Assets, StoreAsset(w, b) PROVE OnDiskOrDeleted(a)'
    BY <1>2 DEF StoreAsset
<1> QED
    BY <1>1, <1>2
    DEF storeVars, StoreNext, Claims, Storing, Writing, Recording, Failing, Recovering, Retrying,
        Publishing, Deleting, Unlinks, Claim, WriteConversion, Record, GiveUp, Recover, Retry,
        Publish, DeleteTask, StopUnlinking, Age

\* A worker that has its lease after a step had it before, or has found nothing yet.
LEMMA LeaseIsOld ==
    ASSUME Typed, RunsAreUnique, [StoreNext]_storeVars,
           NEW w \in Workers, Converting(w)', Holds(w)'
    PROVE  worker'[w].found = {} \/ (Converting(w) /\ Holds(w))
<1> USE DEF Typed, RunsAreUnique, Converting, Holds
<1>1. ASSUME NEW v \in Workers, NEW t \in Tasks, Claim(v, t)
      PROVE  worker'[w].found = {} \/ (Converting(w) /\ Holds(w))
    <2>1. CASE v = w
        BY <1>1, <2>1 DEF Claim
    <2>2. CASE v # w
        <3>1. worker'[w] = worker[w]
            BY <1>1, <2>2 DEF Claim
        <3>2. worker[w].run # runs + 1 /\ worker[w].task \in Tasks
            BY <3>1, StoreAssumption
        <3>3. worker[w].task # t
            <4>1. task'[t].lease = runs + 1
                BY <1>1 DEF Claim, TaskRow
            <4> QED
                BY <3>1, <3>2, <4>1
        <3>4. task'[worker[w].task] = task[worker[w].task]
            BY <1>1, <3>2, <3>3 DEF Claim
        <3> QED
            BY <3>1, <3>4
    <2> QED
        BY <2>1, <2>2
<1>2. ASSUME NoClaim PROVE Converting(w) /\ Holds(w)
    BY <1>2 DEF NoClaim, GoesOn
<1> QED
    BY <1>1, <1>2, OnlyClaimsClaim

\* A worker finds an image by storing it.
LEMMA FoundIsStored ==
    ASSUME Typed, [StoreNext]_storeVars, NEW w \in Workers, Converting(w)',
           NEW a \in worker'[w].found, a \notin worker[w].found
    PROVE  a \in file'
<1> USE DEF Typed, Converting
<1>1. ASSUME NEW v \in Workers, NEW b \in Assets, StoreAsset(v, b) PROVE a \in file'
    <2>1. worker' = [worker EXCEPT ![v].found = @ \cup {b}] /\ b \in file'
        BY <1>1 DEF StoreAsset
    <2>2. a = b
        BY <2>1 DEF Process
    <2> QED
        BY <2>1, <2>2
<1>2. ASSUME NEW v \in Workers, NEW t \in Tasks, Claim(v, t) PROVE FALSE
    BY <1>2 DEF Claim
<1>3. ASSUME NEW v \in Workers, worker' = [worker EXCEPT ![v] = Idle] PROVE FALSE
    BY <1>3 DEF Idle
<1>4. ASSUME worker' = worker PROVE FALSE
    BY <1>4
<1> QED
    BY <1>1, <1>2, <1>3, <1>4
    DEF storeVars, StoreNext, Claims, Storing, Writing, Recording, Failing, Recovering, Retrying,
        Publishing, Deleting, Unlinks, WriteConversion, Record, GiveUp, Recover, Retry,
        Publish, DeleteTask, Unlink, StopUnlinking, Age, Collect

LEMMA HeldStep ==
    ASSUME Typed, RunsAreUnique, HeldIsOnDisk, [StoreNext]_storeVars PROVE HeldIsOnDisk'
<1> SUFFICES ASSUME NEW w \in Workers, Converting(w)', Holds(w)', NEW a \in worker'[w].found
             PROVE  OnDiskOrDeleted(a)'
    BY DEF HeldIsOnDisk, OnDiskOrDeleted
<1>1. CASE a \notin worker[w].found
    BY <1>1, FoundIsStored DEF OnDiskOrDeleted
<1>2. CASE a \in worker[w].found
    <2>1. Converting(w) /\ Holds(w)
        BY LeaseIsOld
    <2>2. OnDiskOrDeleted(a)
        BY <1>2, <2>1 DEF HeldIsOnDisk, OnDiskOrDeleted
    <2>3. HasLiveWorker
        BY <2>1 DEF Holds, HasLiveWorker, RunsAreUnique
    <2>4. ~Collect
        BY <2>3 DEF Collect, Orphans
    <2> QED
        BY <2>2, <2>4, OnlyCollectCollects
<1> QED
    BY <1>1, <1>2

-----------------------------------------------------------------------------
(***************************************************************************)
(* Conversions.                                                            *)
(***************************************************************************)
\* A run is recorded by the worker that ends it, which had its lease.
LEMMA OnlyRecordRecords ==
    ASSUME Typed, RunsAreUnique, [StoreNext]_storeVars, NEW r \in Runs
    PROVE  \/ convRow'[r] = convRow[r]
           \/ \E t \in Tasks : DeleteTask(t) /\ convRow'[r] = convRow[r] \ {t}
           \/ \E w \in Workers : /\ Record(w) /\ worker[w].run = r
                                 /\ convRow'[r] = {worker[w].task} /\ worker[w].task \in Tasks
<1> USE DEF Typed, RunsAreUnique
<1>1. ASSUME NEW w \in Workers, Record(w), convRow'[r] # convRow[r]
      PROVE  /\ Record(w) /\ worker[w].run = r
             /\ convRow'[r] = {worker[w].task} /\ worker[w].task \in Tasks
    BY <1>1 DEF Record
<1>2. ASSUME NEW t \in Tasks, DeleteTask(t) PROVE convRow'[r] = convRow[r] \ {t}
    BY <1>2 DEF DeleteTask
<1> QED
    BY <1>1, <1>2
    DEF storeVars, StoreNext, Claims, Storing, Writing, Recording, Failing, Recovering, Retrying,
        Publishing, Deleting, Unlinks, Claim, StoreAsset, WriteConversion, GiveUp, Recover, Retry,
        Publish, Unlink, StopUnlinking, Age, Collect

\* What is to be removed was recorded, or was to be removed before.
LEMMA OnlyDeletesUnlink ==
    ASSUME Typed, [StoreNext]_storeVars, NEW r \in Runs, <<"conversion", r>> \in unlinking'
    PROVE  \/ <<"conversion", r>> \in unlinking /\ \A t \in Tasks : ~DeleteTask(t)
           \/ \E t \in Tasks : DeleteTask(t) /\ t \in convRow[r]
<1>1. ASSUME NEW t \in Tasks, DeleteTask(t) PROVE t \in convRow[r]
    BY <1>1 DEF DeleteTask
<1>2. ASSUME \A t \in Tasks : ~DeleteTask(t) PROVE <<"conversion", r>> \in unlinking
    BY <1>2
    DEF storeVars, StoreNext, Claims, Storing, Writing, Recording, Failing, Recovering, Retrying,
        Publishing, Deleting, Unlinks, Claim, StoreAsset, WriteConversion, Record, GiveUp, Recover,
        Retry, Publish, Unlink, StopUnlinking, Age, Collect
<1> QED
    BY <1>1, <1>2

LEMMA OwnerStep ==
    ASSUME Typed, RunsAreUnique, RecordedIsOver, OneOwner, [StoreNext]_storeVars PROVE OneOwner'
<1> SUFFICES ASSUME NEW r \in Runs
             PROVE  /\ \A t, u \in convRow'[r] : t = u
                    /\ <<"conversion", r>> \in unlinking' => convRow'[r] = {}
    BY DEF OneOwner
<1>1. \A t, u \in convRow'[r] : t = u
    <2>1. \A t, u \in convRow[r] : t = u
        BY DEF OneOwner
    <2>2. convRow'[r] \subseteq convRow[r] \/ \E t \in Tasks : convRow'[r] = {t}
        BY OnlyRecordRecords
    <2> QED
        BY <2>1, <2>2
<1>2. ASSUME <<"conversion", r>> \in unlinking' PROVE convRow'[r] = {}
    <2>1. ASSUME NEW t \in Tasks, DeleteTask(t), t \in convRow[r] PROVE convRow'[r] = {}
        <3>1. convRow'[r] = convRow[r] \ {t}
            BY <2>1 DEF DeleteTask, Typed
        <3> QED
            BY <2>1, <3>1 DEF OneOwner
    <2>2. ASSUME <<"conversion", r>> \in unlinking, \A t \in Tasks : ~DeleteTask(t)
          PROVE  convRow'[r] = {}
        <3>1. convRow[r] = {}
            BY <2>2 DEF OneOwner
        <3>2. ASSUME NEW w \in Workers, Record(w), worker[w].run = r PROVE FALSE
            BY <2>2, <3>2 DEF RecordedIsOver, Record
        <3> QED
            BY <2>2, <3>1, <3>2, OnlyRecordRecords
    <2> QED
        BY <1>2, <2>1, <2>2, OnlyDeletesUnlink
<1> QED
    BY <1>1, <1>2

LEMMA OverStep ==
    ASSUME Typed, RunsAreUnique, RecordedIsOver, [StoreNext]_storeVars PROVE RecordedIsOver'
<1> DEFINE Over(r) == r <= runs /\ \A w \in Workers : Converting(w) => worker[w].run # r
<1>1. SUFFICES ASSUME NEW r \in Runs, convRow'[r] # {} \/ <<"conversion", r>> \in unlinking'
               PROVE  r <= runs' /\ \A w \in Workers : Converting(w)' => worker'[w].run # r
    BY DEF RecordedIsOver
<1>2. ASSUME Over(r) PROVE r <= runs' /\ \A w \in Workers : Converting(w)' => worker'[w].run # r
    <2>1. ASSUME NEW v \in Workers, NEW t \in Tasks, Claim(v, t)
          PROVE r <= runs' /\ \A w \in Workers : Converting(w)' => worker'[w].run # r
        <3>1. runs' = runs + 1 /\ r # runs + 1 /\ r <= runs'
            BY <1>2, <2>1, StoreAssumption DEF Claim, Typed, Runs
        <3> QED
            BY <1>2, <2>1, <3>1 DEF Claim, Typed, Converting
    <2>2. ASSUME NoClaim PROVE r <= runs' /\ \A w \in Workers : Converting(w)' => worker'[w].run # r
        BY <1>2, <2>2 DEF NoClaim, GoesOn, Converting
    <2> QED
        BY <2>1, <2>2, OnlyClaimsClaim
<1>3. ASSUME NEW w \in Workers, Record(w), worker[w].run = r
      PROVE  r <= runs' /\ \A v \in Workers : Converting(v)' => worker'[v].run # r
    <2>1. Converting(w) /\ worker' = [worker EXCEPT ![w] = Idle] /\ runs' = runs
        BY <1>3 DEF Record
    <2>2. r <= runs
        BY <1>3, <2>1, StoreAssumption DEF RunsAreUnique, Typed
    <2>3. \A v \in Workers \ {w} : Converting(v)' => Converting(v) /\ worker'[v] = worker[v]
        BY <2>1 DEF Converting, Typed
    <2>4. ~Converting(w)'
        BY <2>1 DEF Converting, Idle, Typed
    <2> QED
        BY <1>3, <2>1, <2>2, <2>3, <2>4 DEF RunsAreUnique
<1>4. \/ convRow[r] # {} \/ <<"conversion", r>> \in unlinking
      \/ \E w \in Workers : Record(w) /\ worker[w].run = r
    BY <1>1, OnlyRecordRecords, OnlyDeletesUnlink
<1> QED
    BY <1>2, <1>3, <1>4 DEF RecordedIsOver

-----------------------------------------------------------------------------
(***************************************************************************)
(* Rows.                                                                   *)
(***************************************************************************)
LEMMA UsedStep ==
    ASSUME Typed, RunsAreUnique, UsedImagesAreRecorded, [StoreNext]_storeVars
    PROVE  UsedImagesAreRecorded'
<1> USE DEF Typed, UsedImagesAreRecorded
<1>1. ASSUME NEW w \in Workers, Record(w) PROVE UsedImagesAreRecorded'
    <2>1. worker[w].task \in Tasks
        BY <1>1 DEF Record, RunsAreUnique
    <2> QED
        BY <1>1, <2>1 DEF Record
<1>2. ASSUME NEW t \in Tasks, DeleteTask(t) PROVE UsedImagesAreRecorded'
    BY <1>2 DEF DeleteTask, Unreferenced
<1>3. ASSUME NEW t \in Tasks, Publish(t) PROVE UsedImagesAreRecorded'
    BY <1>3 DEF Publish
<1> QED
    BY <1>1, <1>2, <1>3
    DEF storeVars, StoreNext, Claims, Storing, Writing, Recording, Failing, Recovering, Retrying,
        Publishing, Deleting, Unlinks, Claim, StoreAsset, WriteConversion, GiveUp, Recover, Retry,
        Unlink, StopUnlinking, Age, Collect

\* Images and conversions with a row keep their file.
LEMMA SparedStep ==
    ASSUME StoreInv, [StoreNext]_storeVars PROVE CollectorSparesLiveWork'
<1> USE DEF StoreInv
<1>1. ASSUME NEW a \in row' PROVE a \in file' \/ a \in deleted'
    <2>1. CASE a \in row
        <3>1. OnDiskOrDeleted(a)
            BY <2>1 DEF ImagesAreKept, CollectorSparesLiveWork, OnDiskOrDeleted
        <3>2. CASE Collect
            BY <2>1, <3>1, <3>2 DEF Collect, Orphans, OldAndUnreferenced, OnDiskOrDeleted
        <3> QED
            BY <3>1, <3>2, OnlyCollectCollects DEF OnDiskOrDeleted
    <2>2. CASE a \notin row
        <3>1. PICK w \in Workers : Record(w) /\ Holds(w) /\ a \in worker[w].found
            BY <1>1, <2>2
            DEF storeVars, StoreNext, Claims, Storing, Writing, Recording, Failing, Recovering,
                Retrying, Publishing, Deleting, Unlinks, Claim, StoreAsset, WriteConversion, Record,
                GiveUp, Recover, Retry, Publish, DeleteTask, Unlink, StopUnlinking, Age, Collect
        <3>2. OnDiskOrDeleted(a)
            BY <3>1 DEF Record, HeldIsOnDisk, OnDiskOrDeleted
        <3> QED
            BY <3>1, <3>2 DEF Record, OnDiskOrDeleted
    <2> QED
        BY <2>1, <2>2
<1>2. ASSUME NEW r \in Runs, convRow'[r] # {} PROVE r \in conv'
    <2>1. r \in conv
        <3>1. CASE convRow[r] # {}
            BY <3>1 DEF ImagesAreKept, CollectorSparesLiveWork
        <3>2. CASE \E w \in Workers : Record(w) /\ worker[w].run = r
            BY <3>2 DEF Record
        <3> QED
            BY <1>2, <3>1, <3>2, OnlyRecordRecords
    <2>2. ASSUME NEW o \in Objects, Unlink(o), r \notin conv' PROVE FALSE
        <3>1. o[1] = "conversion" /\ o[2] = r
            BY <2>1, <2>2 DEF Unlink, Removed
        <3>2. o = <<"conversion", r>>
            BY <3>1 DEF Objects
        <3>3. convRow[r] = {} /\ convRow' = convRow
            BY <2>2, <3>2 DEF Unlink, OneOwner
        <3> QED
            BY <1>2, <3>3
    <2>3. ASSUME Collect, r \notin conv' PROVE FALSE
        <3>1. <<"conversion", r>> \in OldAndUnreferenced /\ convRow' = convRow
            BY <2>1, <2>3 DEF Collect, Orphans
        <3> QED
            BY <1>2, <3>1 DEF OldAndUnreferenced
    <2> QED
        BY <2>1, <2>2, <2>3
        DEF storeVars, StoreNext, Claims, Storing, Writing, Recording, Failing, Recovering,
            Retrying, Publishing, Deleting, Unlinks, Claim, StoreAsset, WriteConversion, Record,
            GiveUp, Recover, Retry, Publish, DeleteTask, StopUnlinking, Age
<1> QED
    BY <1>1, <1>2 DEF CollectorSparesLiveWork

LEMMA StoreInvInit == StoreInit => StoreInv
<1> SUFFICES ASSUME StoreInit PROVE StoreInv
    OBVIOUS
<1>1. Typed
    BY TypedInit
<1>2. RunsAreUnique /\ HeldIsOnDisk
    BY StoreAssumption DEF StoreInit, RunsAreUnique, HeldIsOnDisk, Converting, Idle, Queued
<1>3. RecordedIsOver /\ OneOwner
    BY DEF StoreInit, RecordedIsOver, OneOwner
<1>4. ImagesAreKept
    BY DEF StoreInit, ImagesAreKept, CollectorSparesLiveWork, UsedImagesAreRecorded
<1> QED
    BY <1>1, <1>2, <1>3, <1>4 DEF StoreInv

-----------------------------------------------------------------------------
(***************************************************************************)
(* The older intake: what a task shows is the output on file, whoever runs *)
(* it again, and a question is there before its item says so.              *)
(***************************************************************************)
ItemIds  == Nat \X Nat
RawItem  == [number : Nat, sure : BOOLEAN, stem : BOOLEAN, warnings : SUBSET I!Warnings]
ItemRow  == [id : ItemIds, number : Nat, saved : Nat, warnings : SUBSET I!Warnings,
             review : {"ready", "needs_review", "saved"}]
Request  == [pc : {"idle", "parsing", "marking"}, run : Nat, item : ItemIds, question : Nat]

IntakeTyped ==
    /\ status \in {"none", "queued", "running", "parsed", "failed"}
    /\ items \subseteq ItemRow /\ \A i \in items : i.review = "ready" => i.warnings = {}
    /\ output \in [run : Nat, raw : Seq(RawItem)]
    /\ itemCount \in Nat /\ savedCount \in Nat /\ parses \in 0..MaxParses
    /\ teacher \in [Teachers -> Request]
    /\ IsFiniteSet(made)

\* The items are those of the output on file, whatever the task is doing.
ItemsOfOutput ==
    /\ {i.id : i \in items} = {<<output.run, k>> : k \in DOMAIN output.raw}
    /\ \A i, j \in items : i.id = j.id => i = j
    /\ itemCount = Len(output.raw)
    /\ status = "parsed" => output.raw # <<>>
    /\ \A i, j \in items : i.review = "ready" /\ j.review = "ready" /\ i.number = j.number => i = j

\* A question is made before its item is marked.
QuestionFirst ==
    /\ \A i \in items : i.review = "saved" => [id |-> i.saved, item |-> i.id] \in made
    /\ \A t \in Teachers : teacher[t].pc = "marking" =>
          [id |-> teacher[t].question, item |-> teacher[t].item] \in made
    /\ savedCount <= Cardinality(made)

IntakeInv == IntakeTyped /\ ItemsOfOutput /\ QuestionFirst

LEMMA SameSizeInIntake == \A s : I!Cardinality(s) = Cardinality(s)
BY Zenon DEF I!Cardinality, Cardinality

LEMMA NobodyWaits == I!Nobody \in Request /\ I!Nobody.pc = "idle"
BY DEF I!Nobody, I!NoItem, Request, ItemIds

\* Requests that begin are well formed.
LEMMA RequestsBegin ==
    ASSUME NEW n \in Nat, NEW id \in ItemIds, NEW q \in Nat
    PROVE  /\ [I!Nobody EXCEPT !.pc = "parsing", !.run = n] \in Request
           /\ [I!Nobody EXCEPT !.pc = "parsing", !.run = n].pc = "parsing"
           /\ [I!Nobody EXCEPT !.pc = "marking", !.item = id, !.question = q] \in Request
           /\ [I!Nobody EXCEPT !.pc = "marking", !.item = id, !.question = q].item = id
           /\ [I!Nobody EXCEPT !.pc = "marking", !.item = id, !.question = q].question = q
BY DEF I!Nobody, I!NoItem, Request, ItemIds

LEMMA IntakeStarts == ASSUME I!IntakeInit, I!IntakeAssumption PROVE IntakeInv
<1>1. IsFiniteSet({}) /\ Cardinality({}) = 0
    BY FS_EmptySet
<1>2. IntakeTyped
  <2>1. output \in [run : Nat, raw : Seq(RawItem)]
      BY DEF I!IntakeInit
  <2>2. teacher \in [Teachers -> Request]
      BY NobodyWaits DEF I!IntakeInit
  <2> QED
      BY <1>1, <2>1, <2>2 DEF I!IntakeInit, I!IntakeAssumption, IntakeTyped
<1>3. ItemsOfOutput
    BY DEF I!IntakeInit, ItemsOfOutput
<1>4. QuestionFirst
    BY <1>1, NobodyWaits DEF I!IntakeInit, QuestionFirst
<1> QED
    BY <1>2, <1>3, <1>4 DEF IntakeInv

\* What parsers return has items of the expected form.
LEMMA ParsedIsTyped ==
    ASSUME I!IntakeAssumption PROVE \A raw \in I!Parsed : raw \in Seq(RawItem)
BY DEF I!IntakeAssumption, RawItem

LEMMA NormalizedRow ==
    ASSUME NEW n \in Nat, NEW raw \in Seq(RawItem), NEW k \in DOMAIN raw
    PROVE  I!Number(raw, k) \in Nat /\ I!Warned(raw, k) \subseteq I!Warnings
<1>1. raw[k] \in RawItem /\ k \in Nat
    OBVIOUS
<1>2. raw[k].number \in Nat /\ raw[k].warnings \subseteq I!Warnings
    BY <1>1 DEF RawItem
<1>3. "low_confidence" \in I!Warnings /\ "missing_stem" \in I!Warnings
    BY DEF I!Warnings
<1> QED
    BY <1>1, <1>2, <1>3 DEF I!Number, I!Warned

\* The items of a run: one for each raw item, and ready only with a number of its own.
LEMMA NormalizedIs ==
    ASSUME NEW n \in Nat, NEW raw \in Seq(RawItem)
    PROVE  /\ I!Normalized(n, raw) \subseteq ItemRow
           /\ \A i \in I!Normalized(n, raw) :
                 /\ i.review # "saved"
                 /\ i.review = "ready" => i.warnings = {}
           /\ {i.id : i \in I!Normalized(n, raw)} = {<<n, k>> : k \in DOMAIN raw}
           /\ \A i, j \in I!Normalized(n, raw) :
                 /\ i.id = j.id => i = j
                 /\ i.review = "ready" /\ j.review = "ready" /\ i.number = j.number => i = j
<1> DEFINE form(k) ==
      [id |-> <<n, k>>, number |-> I!Number(raw, k), saved |-> 0,
       warnings |-> I!Warned(raw, k)
                      \cup (IF I!Repeated(raw, k) THEN {"duplicate_question_number"} ELSE {}),
       review |-> IF I!ReadyItem(raw, k) THEN "ready" ELSE "needs_review"]
<1>1. I!Normalized(n, raw) = {form(k) : k \in DOMAIN raw}
    BY DEF I!Normalized
<1>2. \A k \in DOMAIN raw :
        /\ form(k).id = <<n, k>> /\ form(k).number = I!Number(raw, k)
        /\ form(k).review = IF I!ReadyItem(raw, k) THEN "ready" ELSE "needs_review"
        /\ form(k).warnings = I!Warned(raw, k)
             \cup (IF I!Repeated(raw, k) THEN {"duplicate_question_number"} ELSE {})
    OBVIOUS
<1>3. \A k \in DOMAIN raw : form(k) \in ItemRow
  <2> SUFFICES ASSUME NEW k \in DOMAIN raw PROVE form(k) \in ItemRow
      OBVIOUS
  <2>1. I!Number(raw, k) \in Nat /\ I!Warned(raw, k) \subseteq I!Warnings
      BY NormalizedRow
  <2>2. <<n, k>> \in ItemIds
      BY DEF ItemIds
  <2>3. "duplicate_question_number" \in I!Warnings
      BY DEF I!Warnings
  <2> QED
      BY <2>1, <2>2, <2>3 DEF ItemRow
<1>4. \A k \in DOMAIN raw : form(k).review = "ready" => I!ReadyItem(raw, k)
    BY <1>2
<1>5. \A k \in DOMAIN raw : I!ReadyItem(raw, k) => form(k).warnings = {}
    BY <1>2 DEF I!ReadyItem
<1>6. \A k, m \in DOMAIN raw :
        I!ReadyItem(raw, k) /\ I!Number(raw, k) = I!Number(raw, m) => k = m
    BY DEF I!ReadyItem, I!Repeated
<1>7. \A k \in DOMAIN raw : form(k).review # "saved"
    BY <1>2
<1> HIDE DEF form
<1>8. {i.id : i \in {form(k) : k \in DOMAIN raw}} = {<<n, k>> : k \in DOMAIN raw}
    BY <1>2
<1>9. \A k, m \in DOMAIN raw : form(k).id = form(m).id => k = m
    BY <1>2
<1>10. \A k, m \in DOMAIN raw :
        form(k).review = "ready" /\ form(m).review = "ready" /\ form(k).number = form(m).number => k = m
    BY <1>2, <1>4, <1>6
<1> QED
    BY <1>1, <1>3, <1>4, <1>5, <1>7, <1>8, <1>9, <1>10

LEMMA FinishRunKeeps ==
    ASSUME IntakeInv, I!IntakeAssumption, NEW t \in Teachers, I!FinishRun(t) PROVE IntakeInv'
<1> USE DEF IntakeInv
<1>1. PICK raw \in I!Parsed :
        /\ items' = I!Normalized(teacher[t].run, raw)
        /\ output' = [run |-> teacher[t].run, raw |-> raw]
        /\ itemCount' = Len(raw)
        /\ status' = IF raw = <<>> THEN "failed" ELSE "parsed"
    BY DEF I!FinishRun, I!Replaced
<1>2. raw \in Seq(RawItem) /\ teacher[t].run \in Nat
    BY ParsedIsTyped DEF IntakeTyped, Request
<1>3. teacher' = [teacher EXCEPT ![t] = I!Nobody] /\ UNCHANGED <<savedCount, made, parses>>
    BY DEF I!FinishRun
<1>4. output'.run = teacher[t].run /\ output'.raw = raw
    BY <1>1
<1>5. IntakeTyped'
  <2>1. output' \in [run : Nat, raw : Seq(RawItem)]
      BY <1>1, <1>2
  <2>2. teacher' \in [Teachers -> Request]
      BY <1>3, NobodyWaits DEF IntakeTyped
  <2>3. items' \subseteq ItemRow /\ \A i \in items' : i.review = "ready" => i.warnings = {}
      BY <1>1, <1>2, NormalizedIs
  <2>4. itemCount' \in Nat
      BY <1>1, <1>2
  <2>5. status' \in {"none", "queued", "running", "parsed", "failed"}
      BY <1>1
  <2> QED
      BY <1>3, <2>1, <2>2, <2>3, <2>4, <2>5 DEF IntakeTyped
<1>6. ItemsOfOutput'
  <2>1. {i.id : i \in items'} = {<<output'.run, k>> : k \in DOMAIN output'.raw}
      BY <1>1, <1>2, <1>4, NormalizedIs
  <2>2. \A i, j \in items' :
          /\ i.id = j.id => i = j
          /\ i.review = "ready" /\ j.review = "ready" /\ i.number = j.number => i = j
      BY <1>1, <1>2, NormalizedIs
  <2>3. itemCount' = Len(output'.raw) /\ (status' = "parsed" => output'.raw # <<>>)
      BY <1>1, <1>4
  <2> QED
      BY <2>1, <2>2, <2>3 DEF ItemsOfOutput
<1>7. QuestionFirst'
  <2>1. \A i \in items' : i.review # "saved"
      BY <1>1, <1>2, NormalizedIs
  <2>2. \A u \in Teachers : teacher'[u].pc = "marking" => teacher'[u] = teacher[u]
      BY <1>3, NobodyWaits DEF IntakeTyped
  <2> QED
      BY <1>3, <2>1, <2>2 DEF QuestionFirst
<1> QED
    BY <1>5, <1>6, <1>7

\* A request that ends, or begins another run, touches no item.
LEMMA RequestChanges ==
    ASSUME IntakeInv, NEW t \in Teachers, NEW r \in Request, r.pc # "marking",
           teacher' = [teacher EXCEPT ![t] = r],
           status' \in {"none", "queued", "running", "failed", status},
           parses' \in 0..MaxParses,
           UNCHANGED <<items, output, itemCount, savedCount, made>>
    PROVE  IntakeInv'
<1> USE DEF IntakeInv
<1>1. teacher' \in [Teachers -> Request]
    BY DEF IntakeTyped
<1>2. \A u \in Teachers : teacher'[u].pc = "marking" => teacher'[u] = teacher[u]
    BY DEF IntakeTyped
<1>3. status' \in {"none", "queued", "running", "parsed", "failed"}
    BY DEF IntakeTyped
<1>4. IntakeTyped'
    BY <1>1, <1>3 DEF IntakeTyped
<1>5. ItemsOfOutput'
    BY DEF ItemsOfOutput
<1>6. QuestionFirst'
    BY <1>2 DEF QuestionFirst
<1> QED
    BY <1>4, <1>5, <1>6

LEMMA CreateQuestionKeeps ==
    ASSUME IntakeInv, NEW t \in Teachers, NEW i \in items, I!CreateQuestion(t, i) PROVE IntakeInv'
<1> USE DEF IntakeInv
<1> DEFINE q == Cardinality(made) + 1
           r == [I!Nobody EXCEPT !.pc = "marking", !.item = i.id, !.question = q]
<1>1. /\ made' = made \cup {[id |-> q, item |-> i.id]}
      /\ teacher' = [teacher EXCEPT ![t] = r]
      /\ UNCHANGED <<status, items, output, itemCount, savedCount, parses>>
    BY SameSizeInIntake DEF I!CreateQuestion
<1>2. IsFiniteSet(made) /\ Cardinality(made) \in Nat
    BY FS_CardinalityType DEF IntakeTyped
<1>3. q \in Nat /\ i.id \in ItemIds
    BY <1>2 DEF IntakeTyped, ItemRow
<1>4. r \in Request /\ r.item = i.id /\ r.question = q
    BY <1>3, RequestsBegin
<1>5. IsFiniteSet(made') /\ Cardinality(made') \in Nat /\ Cardinality(made) <= Cardinality(made')
  <2> DEFINE new == [id |-> q, item |-> i.id]
  <2>1. made' = made \cup {new}
      BY <1>1
  <2> HIDE DEF new
  <2>2. /\ IsFiniteSet(made \cup {new})
        /\ Cardinality(made \cup {new}) \in {Cardinality(made), Cardinality(made) + 1}
      BY <1>2, FS_AddElement
  <2> QED
      BY <1>2, <2>1, <2>2
<1>6. [id |-> q, item |-> i.id] \in made'
    BY <1>1
<1> HIDE DEF q, r
<1>7. IntakeTyped'
    BY <1>1, <1>4, <1>5 DEF IntakeTyped
<1>8. ItemsOfOutput'
    BY <1>1 DEF ItemsOfOutput
<1>9. QuestionFirst'
  <2>1. \A u \in Teachers : u # t => teacher'[u] = teacher[u]
      BY <1>1 DEF IntakeTyped
  <2>2. teacher'[t] = r
      BY <1>1 DEF IntakeTyped
  <2>3. made \subseteq made'
      BY <1>1
  <2>4. \A u \in Teachers : teacher'[u].pc = "marking" =>
          [id |-> teacher'[u].question, item |-> teacher'[u].item] \in made'
      BY <1>4, <1>6, <2>1, <2>2, <2>3 DEF QuestionFirst
  <2>5. savedCount' <= Cardinality(made')
    <3>1. savedCount <= Cardinality(made) /\ savedCount' = savedCount /\ savedCount \in Nat
        BY <1>1 DEF QuestionFirst, IntakeTyped
    <3> QED
        BY <1>2, <1>5, <3>1
  <2> QED
      BY <1>1, <2>3, <2>4, <2>5 DEF QuestionFirst
<1> QED
    BY <1>7, <1>8, <1>9

LEMMA MarkSavedKeeps ==
    ASSUME IntakeInv, NEW t \in Teachers, I!MarkSaved(t) PROVE IntakeInv'
<1> USE DEF IntakeInv
<1> DEFINE mark(i) == IF i.id = teacher[t].item
                      THEN [i EXCEPT !.saved = teacher[t].question, !.review = "saved"] ELSE i
<1>1. /\ items' = {mark(i) : i \in items}
      /\ savedCount' = I!Cardinality({i \in items' : i.review = "saved"})
      /\ teacher' = [teacher EXCEPT ![t] = I!Nobody]
      /\ UNCHANGED <<status, output, itemCount, made, parses>>
      /\ teacher[t].pc = "marking"
    BY DEF I!MarkSaved
<1>2. teacher[t].question \in Nat
    BY DEF IntakeTyped, Request
<1>3. \A i \in items :
        /\ mark(i) \in ItemRow /\ mark(i).id = i.id
        /\ mark(i).number = i.number /\ mark(i).warnings = i.warnings
        /\ mark(i).review \in {i.review, "saved"}
        /\ mark(i).review = "saved" =>
              \/ mark(i) = i
              \/ mark(i).saved = teacher[t].question /\ i.id = teacher[t].item
        /\ mark(i).review # "saved" => mark(i) = i
    BY <1>2 DEF IntakeTyped, ItemRow
<1> HIDE DEF mark
<1>4. \A i \in items' : i.review = "saved" => [id |-> i.saved, item |-> i.id] \in made
  <2> SUFFICES ASSUME NEW i \in items, mark(i).review = "saved"
               PROVE  [id |-> mark(i).saved, item |-> mark(i).id] \in made
      BY <1>1
  <2>1. CASE mark(i) = i
      BY <2>1 DEF QuestionFirst
  <2>2. CASE mark(i).saved = teacher[t].question /\ i.id = teacher[t].item
      BY <1>1, <1>3, <2>2 DEF QuestionFirst
  <2> QED
      BY <1>3, <2>1, <2>2
<1>5. \A i, j \in items' : i.id = j.id => i = j
    BY <1>1, <1>3 DEF ItemsOfOutput
<1>6. savedCount' \in Nat /\ savedCount' <= Cardinality(made)
  <2> DEFINE marked == {i \in items' : i.review = "saved"}
             of == [i \in marked |-> [id |-> i.saved, item |-> i.id]]
  <2>1. of \in [marked -> made]
      BY <1>4
  <2>2. \A i, j \in marked : of[i] = of[j] => i = j
    <3> SUFFICES ASSUME NEW i \in marked, NEW j \in marked, of[i] = of[j] PROVE i = j
        OBVIOUS
    <3>1. of[i].item = i.id /\ of[j].item = j.id
        OBVIOUS
    <3> QED
        BY <1>5, <3>1
  <2>3. of \in Injection(marked, made)
      BY <2>1, <2>2, Fun_IsInj
  <2>4. IsFiniteSet(marked) /\ Cardinality(marked) <= Cardinality(made)
      BY <2>3, FS_Injection DEF IntakeTyped
  <2>5. Cardinality(marked) \in Nat
      BY <2>4, FS_CardinalityType
  <2> QED
      BY <1>1, <2>4, <2>5, SameSizeInIntake
<1>7. IntakeTyped'
  <2>1. items' \subseteq ItemRow
      BY <1>1, <1>3
  <2>2. \A i \in items' : i.review = "ready" => i.warnings = {}
      BY <1>1, <1>3 DEF IntakeTyped
  <2>3. teacher' \in [Teachers -> Request]
      BY <1>1, NobodyWaits DEF IntakeTyped
  <2> QED
      BY <1>1, <1>6, <2>1, <2>2, <2>3 DEF IntakeTyped
<1>8. ItemsOfOutput'
  <2>1. {i.id : i \in items'} = {i.id : i \in items}
    <3>1. \A i \in items' : \E j \in items : i.id = j.id
        BY <1>1, <1>3
    <3>2. \A j \in items : \E i \in items' : i.id = j.id
        BY <1>1, <1>3
    <3> QED
        BY <3>1, <3>2
  <2>2. \A i \in items' : i.review = "ready" => i \in items
      BY <1>1, <1>3
  <2> QED
      BY <1>1, <1>5, <2>1, <2>2 DEF ItemsOfOutput
<1>9. QuestionFirst'
  <2>1. \A u \in Teachers : teacher'[u].pc = "marking" => teacher'[u] = teacher[u]
      BY <1>1, NobodyWaits DEF IntakeTyped
  <2> QED
      BY <1>1, <1>4, <1>6, <2>1 DEF QuestionFirst
<1> QED
    BY <1>7, <1>8, <1>9

LEMMA IntakeStep == ASSUME IntakeInv, I!IntakeAssumption, I!IntakeNext PROVE IntakeInv'
<1>1. CASE I!CreateTask
  <2>1. IntakeTyped'
      BY <1>1 DEF IntakeInv, IntakeTyped, I!CreateTask
  <2> QED
      BY <1>1, <2>1 DEF IntakeInv, ItemsOfOutput, QuestionFirst, I!CreateTask
<1>2. CASE I!BeginRuns
  <2>1. PICK t \in Teachers : I!BeginRun(t)
      BY <1>2 DEF I!BeginRuns
  <2>2. parses \in 0..MaxParses /\ MaxParses \in Nat /\ parses < MaxParses
      BY <2>1 DEF I!BeginRun, IntakeInv, IntakeTyped, I!IntakeAssumption
  <2>3. parses + 1 \in 0..MaxParses /\ parses + 1 \in Nat
      BY <2>2
  <2>4. /\ [I!Nobody EXCEPT !.pc = "parsing", !.run = parses + 1] \in Request
        /\ [I!Nobody EXCEPT !.pc = "parsing", !.run = parses + 1].pc # "marking"
    <3>1. <<0, 0>> \in ItemIds
        BY DEF ItemIds
    <3> QED
        BY <2>3, <3>1, RequestsBegin
  <2> QED
      BY <2>1, <2>3, <2>4, RequestChanges DEF I!BeginRun
<1>3. CASE I!FinishRuns
    BY <1>3, FinishRunKeeps DEF I!FinishRuns
<1>4. CASE I!RunsFail \/ I!RunsDie \/ I!SavesDie
  <2>1. PICK t \in Teachers : I!RunFails(t) \/ I!RunDies(t) \/ I!SaveDies(t)
      BY <1>4 DEF I!RunsFail, I!RunsDie, I!SavesDie
  <2>2. /\ teacher' = [teacher EXCEPT ![t] = I!Nobody]
        /\ status' \in {"failed", status}
        /\ UNCHANGED <<items, output, itemCount, savedCount, made, parses>>
      BY <2>1 DEF I!RunFails, I!RunDies, I!SaveDies
  <2>3. parses \in 0..MaxParses
      BY DEF IntakeInv, IntakeTyped
  <2> QED
      BY <2>2, <2>3, NobodyWaits, RequestChanges
<1>5. CASE I!Creating
    BY <1>5, CreateQuestionKeeps DEF I!Creating
<1>6. CASE I!Marking
    BY <1>6, MarkSavedKeeps DEF I!Marking
<1> QED
    BY <1>1, <1>2, <1>3, <1>4, <1>5, <1>6 DEF I!IntakeNext

\* Items and raw items are as many.
LEMMA ItemsAreCounted ==
    ASSUME IntakeInv PROVE IsFiniteSet(items) /\ itemCount = Cardinality(items)
<1> DEFINE n == Len(output.raw)
           of == [i \in items |-> i.id[2]]
<1>1. output.raw \in Seq(RawItem)
    BY DEF IntakeInv, IntakeTyped
<1>2. n \in Nat /\ DOMAIN output.raw = 1..n
    BY <1>1
<1>3. \A i \in items : \E k \in 1..n : i.id = <<output.run, k>>
    BY <1>2 DEF IntakeInv, ItemsOfOutput
<1>4. of \in [items -> 1..n]
    BY <1>3
<1>5. \A i, j \in items : of[i] = of[j] => i = j
  <2> SUFFICES ASSUME NEW i \in items, NEW j \in items, of[i] = of[j] PROVE i = j
      OBVIOUS
  <2>1. i.id = j.id
      BY <1>3
  <2> QED
      BY <2>1 DEF IntakeInv, ItemsOfOutput
<1>6. \A k \in 1..n : \E i \in items : of[i] = k
  <2> SUFFICES ASSUME NEW k \in 1..n PROVE \E i \in items : of[i] = k
      OBVIOUS
  <2>1. <<output.run, k>> \in {i.id : i \in items}
      BY <1>2 DEF IntakeInv, ItemsOfOutput
  <2>2. PICK i \in items : i.id = <<output.run, k>>
      BY <2>1
  <2> QED
      BY <2>2
<1>7. of \in Injection(items, 1..n) /\ of \in Surjection(items, 1..n)
    BY <1>4, <1>5, <1>6, Fun_IsInj, Fun_IsSurj
<1>8. IsFiniteSet(1..n) /\ Cardinality(1..n) = n
  <2>1. 0 <= n /\ 1 \in Int /\ n \in Int
      BY <1>2
  <2> QED
      BY <1>2, <2>1, FS_Interval
<1>9. IsFiniteSet(items) /\ Cardinality(items) = Cardinality(1..n)
    BY <1>7, <1>8, FS_Injection
<1> QED
    BY <1>8, <1>9 DEF IntakeInv, ItemsOfOutput

LEMMA IntakeHolds ==
    ASSUME IntakeInv PROVE I!IntakeTypeOK /\ I!ParsedIsWhole /\ I!SavedHasQuestion
<1>1. I!IntakeTypeOK
    BY DEF IntakeInv, IntakeTyped, ItemRow, I!IntakeTypeOK
<1>2. I!ParsedIsWhole
  <2>1. ASSUME status = "parsed" PROVE items # {}
    <3>1. output.raw \in Seq(RawItem) /\ output.raw # <<>>
        BY <2>1 DEF IntakeInv, IntakeTyped, ItemsOfOutput
    <3>2. 1 \in DOMAIN output.raw
        BY <3>1
    <3>3. <<output.run, 1>> \in {i.id : i \in items}
        BY <3>2 DEF IntakeInv, ItemsOfOutput
    <3> QED
        BY <3>3
  <2> QED
      BY <2>1, ItemsAreCounted, SameSizeInIntake DEF IntakeInv, ItemsOfOutput, I!ParsedIsWhole
<1>3. I!SavedHasQuestion
    BY SameSizeInIntake DEF IntakeInv, QuestionFirst, I!SavedHasQuestion
<1> QED
    BY <1>1, <1>2, <1>3

-----------------------------------------------------------------------------
(***************************************************************************)
(* The pipeline. PipeInv relates the stage, the reviews and the audits to  *)
(* what was read at each step; CleanInv adds what a run meets that nobody  *)
(* edits and no reviewer defers, and from it a restarted runner is never   *)
(* stopped.                                                                *)
(***************************************************************************)
\* The stages from one on.
StageNames == {"upload_paper", "wait_paper", "review_paper", "confirm_paper", "upload_answers",
               "wait_answers", "attach_answers", "review_answers", "watchdog_content", "publish",
               "generate_tags", "watchdog_tags", "adopt_tags", "verify", "complete"}
FromWatchdog == {"watchdog_content", "publish", "generate_tags", "watchdog_tags", "adopt_tags",
              "verify", "complete"}
FromAnswers == FromWatchdog \cup {"review_answers"}
FromPublish == FromWatchdog \ {"watchdog_content"}
FromTags    == FromPublish \ {"publish"}
FromAudit   == FromTags \ {"generate_tags"}
FromAdopt   == FromAudit \ {"watchdog_tags"}
BeforePaper   == {"upload_paper", "wait_paper"}
BeforeConfirm == BeforePaper \cup {"review_paper"}
BeforeAttach  == BeforeConfirm \cup {"confirm_paper", "upload_answers", "wait_answers"}

Numbers == [Items -> Nat]
Tag     == Choices \cup {L!NoTags}


PipeTyped ==
    /\ stage \in StageNames
    /\ actions \in [L!Names -> [expected : Numbers, sent : BOOLEAN, result : BOOLEAN]]
    /\ reviews \in [L!Audits -> [body : Nat, tags : Tag, verdict : {"none", "pass", "blocked"}]]
    /\ checked \in [{"paper", "answers"} -> Numbers]
    /\ watched \in [{"content", "tags"} -> SUBSET Items]
    /\ watched["content"] \subseteq Sampled
    /\ proposal \in [Items -> [tags : Tag, version : Nat]]
    /\ deferred \subseteq Items
    /\ stopped \in {"", "watchdog", "conversion", "conflict", "changed", "quality", "visual"}
    /\ runner \in [pc : {"off", "ready", "asking", "passed", "want", "send", "sent", "saved"},
                   name : L!Names \cup L!Audits, seen : Numbers, body : Nat, tags : Tag]
    /\ item \in [Items -> [rev : Nat, body : Nat, text : Nat, active : BOOLEAN]]
    /\ keys \in [L!Names -> Numbers]
    /\ question \in [Items -> [body : Nat, version : Nat, revision : Nat, tags : Tag]]
    /\ audited \in [content : Numbers, tags : [Items -> Tag]]
    /\ edits \in Nat /\ troubles \in Nat

\* A revision is a save, and every document was written by one.
SavesCount == \A i \in Items : /\ item[i].rev >= 1 /\ item[i].body <= item[i].rev
                               /\ item[i].text <= item[i].body

\* The stages at which an operation is asked for, and those of an audit.
StagesOf(what) ==
    CASE what = "paper"     -> {"review_paper"}
      [] what = "answers"   -> {"review_answers"}
      [] what = "defer"     -> {"review_paper", "attach_answers"}
      [] what = "confirm"   -> {"confirm_paper"}
      [] what = "reconfirm" -> {"confirm_paper"}
      [] what = "attach"    -> {"attach_answers"}
      [] what = "publish"   -> {"publish"}
      [] what = "adopt"     -> {"adopt_tags"}
      [] what = "content"   -> {"watchdog_content"}
      [] what = "tags"      -> {"watchdog_tags"}

Acting == runner.pc \in {"want", "send", "sent", "saved"}

\* What the runner is about to do belongs to the stage, and is on file when it
\* has to be.
RunnerFits ==
    /\ Acting => runner.name \in L!Names
    /\ runner.pc = "asking" => runner.name \in L!Audits
    /\ runner.pc = "passed" => runner.name \in {"content", "tags"} \X Items
    /\ runner.pc \notin {"off", "ready"} => stage \in StagesOf(runner.name[1])
    /\ runner.pc \in {"send", "sent", "saved"} => actions[runner.name].sent
    /\ runner.pc = "saved" => actions[runner.name].result
    /\ \A n \in L!Names : actions[n].result => actions[n].sent

\* No operation is on file before its stage.
RequestsInTime ==
    \A n \in L!Names : actions[n].sent =>
       /\ n[1] = "paper"   => stage \notin BeforePaper
       /\ n[1] = "confirm" => stage \notin BeforeConfirm
       /\ n[1] = "answers" => stage \in FromAnswers
       /\ n[1] = "publish" => stage \in FromPublish
       /\ n[1] = "adopt"   => stage \in FromAdopt

\* Answers are reviewed at their stage, and all of them when it ends.
AnswersReviewed ==
    /\ stage \notin FromAnswers => \A i \in Items : checked["answers"][i] = 0
    /\ stage \in FromWatchdog => \A i \in Items : item[i].active => checked["answers"][i] # 0

\* The watchdog passes the documents whose answers were reviewed.
ContentAudited ==
    /\ watched["content"] # {} => stage \in FromWatchdog
    /\ \A i \in watched["content"] : audited["content"][i] = checked["answers"][i]
    /\ runner.pc \in {"asking", "passed"} /\ runner.name[1] = "content" =>
          /\ runner.name[2] \in Sampled
          /\ runner.body = checked["answers"][runner.name[2]]

\* Documents that still have the revision that is to be published were reviewed
\* and, in the sample, audited.
Explained(e) ==
    \A i \in Items :
       /\ e[i] <= item[i].rev
       /\ item[i].active /\ item[i].rev = e[i] =>
             /\ item[i].body = checked["answers"][i]
             /\ i \in Sampled => item[i].body = audited["content"][i]
PublicationExplained ==
    /\ \A n \in L!Names : n[1] = "publish" /\ actions[n].sent => Explained(actions[n].expected)
    /\ Acting /\ runner.name[1] = "publish" => Explained(runner.seen)

\* Nothing is published before its stage.
NothingPublished == stage \notin FromPublish => \A i \in Items : question[i].body = 0

\* The watchdog passes the tags that are proposed, and all of the sample when its
\* stage ends.
TagsAudited ==
    /\ watched["tags"] # {} => stage \in FromAudit
    /\ \A i \in watched["tags"] : audited["tags"][i] = proposal[i].tags
    /\ runner.pc \in {"asking", "passed"} /\ runner.name[1] = "tags" =>
          runner.tags = proposal[runner.name[2]].tags
    /\ stage \in FromAdopt => \A i \in Sampled : item[i].active => i \in watched["tags"]

PipeInv ==
    /\ PipeTyped /\ SavesCount /\ RunnerFits /\ RequestsInTime /\ AnswersReviewed
    /\ ContentAudited /\ PublicationExplained /\ NothingPublished /\ TagsAudited

-----------------------------------------------------------------------------
\* A run in which nobody edited and no deferral was asked for.
Clean == edits = 0 /\ ~L!DeferralAsked

AllThere == deferred = {} /\ \A i \in Items : item[i].active

\* The save of one item: carried out, or the item is as it was seen.
SavesStand ==
    \A p \in {"paper", "answers"}, i \in Items :
       LET n == <<p, i>>
           e == actions[n].expected
       IN  /\ keys[n] # L!Nothing => actions[n].sent
           /\ stage \in StagesOf(p) /\ actions[n].sent =>
                /\ e[i] >= 1
                /\ \/ keys[n] = e /\ item[i].rev = e[i] + 1 /\ item[i].body = e[i] + 1
                   \/ keys[n] = L!Nothing /\ item[i].rev = e[i]
           /\ runner.pc \notin {"off", "ready", "passed"} /\ runner.name = n =>
                /\ checked[p][i] = 0
                /\ runner.pc \in {"asking", "want"} /\ ~actions[n].sent =>
                      runner.seen[i] = item[i].rev

\* The operations on the whole paper likewise.
PaperStands ==
    /\ actions[<<"attach", "whole">>].sent => stage \notin BeforeAttach
    /\ \A w \in {"confirm", "attach", "publish"} :
          LET n == <<w, "whole">>
          IN  /\ keys[n] # L!Nothing => actions[n].sent
              /\ stage \in StagesOf(w) /\ actions[n].sent =>
                   /\ \E i \in Items : actions[n].expected[i] # 0
                   /\ \/ actions[n].expected = L!Revisions
                      \/ w = "attach" /\ keys[n] = actions[n].expected
              /\ runner.pc = "want" /\ runner.name = n /\ ~actions[n].sent => runner.seen = L!Revisions
    /\ runner.pc \notin {"off", "ready"} => runner.name[1] # "reconfirm"

\* What was done is remembered.
DoneIsRemembered ==
    /\ \A n \in L!Names : n[1] # "adopt" /\ actions[n].result => keys[n] = actions[n].expected
    /\ runner.pc \in {"sent", "saved"} /\ runner.name[1] # "adopt" =>
          keys[runner.name] = actions[runner.name].expected
    /\ keys[<<"confirm", "whole">>] # L!Nothing
         /\ stage \in {"confirm_paper", "upload_answers", "wait_answers", "attach_answers"} => L!PaperConfirmed
    /\ stage \in {"upload_answers", "wait_answers", "attach_answers"} => L!PaperConfirmed
    /\ keys[<<"publish", "whole">>] # L!Nothing => \A i \in Items : question[i].version = 1
    /\ stage \in FromTags => \A i \in Items : question[i].version = 1

\* The inventory.
InventoryStands ==
    /\ stage \in FromAnswers => \A i \in Items : checked["paper"][i] = 0
    /\ stage # "attach_answers" => \A i \in Items :
          checked["paper"][i] # 0 => checked["paper"][i] = item[i].body
    /\ \A i \in Items : checked["answers"][i] # 0 => checked["answers"][i] = item[i].body
    /\ \A i \in Items : question[i].body # 0 => question[i].body = item[i].body

TagsAdopted == \A i \in Items : /\ question[i].version = proposal[i].version
                                /\ question[i].revision = 1 /\ question[i].tags = proposal[i].tags
TagsStand ==
    /\ \A i \in Items : proposal[i].version = 1 \/ proposal[i] = L!NoTagsYet
    /\ stage \in FromAudit => \A i \in Items : proposal[i].version = 1
    /\ \/ \A i \in Items : question[i].revision = 0
       \/ stage \in FromAdopt /\ TagsAdopted
    /\ (runner.pc \in {"sent", "saved"} /\ runner.name[1] = "adopt")
         \/ stage \in {"verify", "complete"}
         \/ (\E n \in L!Names : n[1] = "adopt" /\ actions[n].result) => TagsAdopted

Calm ==
    /\ stopped \notin {"conflict", "changed"}
    /\ AllThere /\ SavesStand /\ PaperStands /\ DoneIsRemembered /\ InventoryStands /\ TagsStand
CleanInv == Clean => Calm

-----------------------------------------------------------------------------
LEMMA StagesAre ==
    /\ \A k \in 1..15 : L!Stages[k] \in StageNames
    /\ L!After("upload_paper") = "wait_paper" /\ L!After("wait_paper") = "review_paper"
    /\ L!After("review_paper") = "confirm_paper" /\ L!After("confirm_paper") = "upload_answers"
    /\ L!After("upload_answers") = "wait_answers" /\ L!After("wait_answers") = "attach_answers"
    /\ L!After("attach_answers") = "review_answers"
    /\ L!After("review_answers") = "watchdog_content" /\ L!After("watchdog_content") = "publish"
    /\ L!After("publish") = "generate_tags" /\ L!After("generate_tags") = "watchdog_tags"
    /\ L!After("watchdog_tags") = "adopt_tags" /\ L!After("adopt_tags") = "verify"
    /\ L!After("verify") = "complete"
    /\ \A s \in StageNames : \E k \in 1..15 : s = L!Stages[k]
<1>1. /\ L!Stages[1] = "upload_paper" /\ L!Stages[2] = "wait_paper" /\ L!Stages[3] = "review_paper"
      /\ L!Stages[4] = "confirm_paper" /\ L!Stages[5] = "upload_answers"
      /\ L!Stages[6] = "wait_answers" /\ L!Stages[7] = "attach_answers"
      /\ L!Stages[8] = "review_answers" /\ L!Stages[9] = "watchdog_content"
      /\ L!Stages[10] = "publish" /\ L!Stages[11] = "generate_tags"
      /\ L!Stages[12] = "watchdog_tags" /\ L!Stages[13] = "adopt_tags"
      /\ L!Stages[14] = "verify" /\ L!Stages[15] = "complete"
    BY DEF L!Stages
<1>2. \A k \in 1..15 : k \in {1, 2, 3, 4, 5, 6, 7, 8, 9, 10, 11, 12, 13, 14, 15}
    OBVIOUS
<1>3. \A j, k \in {1, 2, 3, 4, 5, 6, 7, 8, 9, 10, 11, 12, 13, 14, 15} :
         L!Stages[j] = L!Stages[k] => j = k
    BY <1>1
<1>4. \A j \in 1..14 : L!After(L!Stages[j]) = L!Stages[j + 1]
  <2> SUFFICES ASSUME NEW j \in 1..14 PROVE L!After(L!Stages[j]) = L!Stages[j + 1]
    OBVIOUS
  <2>1. \A k \in 1..14 : L!Stages[k] = L!Stages[j] => k = j
    BY <1>2, <1>3
  <2>2. (CHOOSE k \in 1..14 : L!Stages[k] = L!Stages[j]) = j
    BY <2>1
  <2> QED
    BY <2>2 DEF L!After
<1>5. \A k \in 1..15 : L!Stages[k] \in StageNames
    BY <1>1, <1>2 DEF StageNames
<1>6. \A s \in StageNames : \E k \in 1..15 : s = L!Stages[k]
    BY <1>1 DEF StageNames
<1> QED
    BY <1>1, <1>4, <1>5, <1>6

-----------------------------------------------------------------------------
(***************************************************************************)
(* Steps that leave the questions and most of the file alone.              *)
(***************************************************************************)
PCs     == {"off", "ready", "asking", "passed", "want", "send", "sent", "saved"}
Reasons == {"", "watchdog", "conversion", "conflict", "changed", "quality", "visual"}
RunnerType   == [pc : PCs, name : L!Names \cup L!Audits, seen : Numbers, body : Nat, tags : Tag]
ActionType   == [expected : Numbers, sent : BOOLEAN, result : BOOLEAN]
ReviewType   == [body : Nat, tags : Tag, verdict : {"none", "pass", "blocked"}]
ProposalType == [tags : Tag, version : Nat]
ItemType     == [rev : Nat, body : Nat, text : Nat, active : BOOLEAN]
QuestionType == [body : Nat, version : Nat, revision : Nat, tags : Tag]

LEMMA TypesAre ==
    ASSUME PipeTyped
    PROVE  /\ stage \in StageNames /\ actions \in [L!Names -> ActionType]
           /\ reviews \in [L!Audits -> ReviewType]
           /\ checked \in [{"paper", "answers"} -> Numbers]
           /\ watched \in [{"content", "tags"} -> SUBSET Items] /\ watched["content"] \subseteq Sampled
           /\ proposal \in [Items -> ProposalType] /\ deferred \subseteq Items
           /\ stopped \in Reasons /\ runner \in RunnerType
           /\ item \in [Items -> ItemType] /\ keys \in [L!Names -> Numbers]
           /\ question \in [Items -> QuestionType]
           /\ audited \in [content : Numbers, tags : [Items -> Tag]]
           /\ edits \in Nat /\ troubles \in Nat
    BY DEF PipeTyped, PCs, Reasons, RunnerType, ActionType, ReviewType, ProposalType, ItemType,
           QuestionType

LEMMA TypedAgain ==
    ASSUME stage' \in StageNames, actions' \in [L!Names -> ActionType],
           reviews' \in [L!Audits -> ReviewType],
           checked' \in [{"paper", "answers"} -> Numbers],
           watched' \in [{"content", "tags"} -> SUBSET Items], watched'["content"] \subseteq Sampled,
           proposal' \in [Items -> ProposalType], deferred' \subseteq Items,
           stopped' \in Reasons, runner' \in RunnerType,
           item' \in [Items -> ItemType], keys' \in [L!Names -> Numbers],
           question' \in [Items -> QuestionType],
           audited' \in [content : Numbers, tags : [Items -> Tag]],
           edits' \in Nat, troubles' \in Nat
    PROVE  PipeTyped'
    BY DEF PipeTyped, PCs, Reasons, RunnerType, ActionType, ReviewType, ProposalType, ItemType,
           QuestionType, StageNames, Numbers, Tag, L!Names, L!Audits, L!NoTags, L!Whole

LEMMA ValuesAre ==
    ASSUME PipeTyped
    PROVE  /\ L!Nothing \in Numbers /\ L!Revisions \in Numbers
           /\ \A i \in Items : L!Nothing[i] = 0 /\ L!OneOf(i) \in Numbers
           /\ \A i \in Items : L!OneOf(i)[i] = item[i].rev
           /\ \A i \in Items : L!Revisions[i] = (IF item[i].active THEN item[i].rev ELSE 0)
           /\ L!Off \in RunnerType /\ L!Ready \in RunnerType
           /\ L!Off.pc = "off" /\ L!Ready.pc = "ready"
           /\ \A n \in L!Names, e \in Numbers :
                 /\ L!Want(n, e) \in RunnerType /\ L!Want(n, e).pc = "want"
                 /\ L!Want(n, e).name = n /\ L!Want(n, e).seen = e
<1>1. \A i \in Items : item[i].rev \in Nat
    BY DEF PipeTyped
<1>2. /\ L!Nothing \in Numbers /\ L!Revisions \in Numbers
      /\ \A i \in Items : L!Nothing[i] = 0 /\ L!OneOf(i) \in Numbers
      /\ \A i \in Items : L!OneOf(i)[i] = item[i].rev
      /\ \A i \in Items : L!Revisions[i] = (IF item[i].active THEN item[i].rev ELSE 0)
    BY <1>1 DEF L!Nothing, Numbers, L!Revisions, L!OneOf
<1>3. <<"confirm", L!Whole>> \in L!Names
    BY DEF L!Names
<1>4. L!Off = [pc |-> "off", name |-> <<"confirm", L!Whole>>, seen |-> L!Nothing,
               body |-> 0, tags |-> L!NoTags]
    BY DEF L!Off
<1>5. L!Off \in RunnerType /\ L!Off.pc = "off"
    BY <1>2, <1>3, <1>4 DEF RunnerType, PCs, Tag
<1>6. L!Ready \in RunnerType /\ L!Ready.pc = "ready"
    BY <1>2, <1>3, <1>4 DEF L!Ready, RunnerType, PCs, Tag
<1>7. ASSUME NEW n \in L!Names, NEW e \in Numbers
      PROVE  /\ L!Want(n, e) \in RunnerType /\ L!Want(n, e).pc = "want"
             /\ L!Want(n, e).name = n /\ L!Want(n, e).seen = e
    BY <1>2, <1>3, <1>4 DEF L!Want, RunnerType, PCs, Tag
<1> QED
    BY <1>2, <1>5, <1>6, <1>7

\* The runner turns to something else.
LEMMA RunnerMoves ==
    ASSUME PipeInv,
           UNCHANGED <<stage, actions, checked, watched, proposal, item, keys, question, audited>>,
           reviews' \in [L!Audits -> ReviewType], stopped' \in Reasons, deferred' \subseteq Items,
           edits' \in Nat, troubles' \in Nat, runner' \in RunnerType,
           runner'.pc \in {"off", "ready", "asking", "passed", "want", "saved", "send"},
           runner'.pc \in {"want", "send", "saved"} => runner'.name \in L!Names,
           runner'.pc = "asking" => runner'.name \in L!Audits,
           runner'.pc = "passed" => runner'.name \in {"content", "tags"} \X Items,
           runner'.pc \notin {"off", "ready"} => stage \in StagesOf(runner'.name[1]),
           runner'.pc \in {"send", "saved"} => actions[runner'.name].sent,
           runner'.pc = "saved" => actions[runner'.name].result,
           runner'.pc \in {"asking", "passed"} /\ runner'.name[1] = "content" =>
                runner'.name[2] \in Sampled /\ runner'.body = checked["answers"][runner'.name[2]],
           runner'.pc \in {"want", "send", "saved"} /\ runner'.name[1] = "publish" =>
                Explained(runner'.seen),
           runner'.pc \in {"asking", "passed"} /\ runner'.name[1] = "tags" =>
                runner'.tags = proposal[runner'.name[2]].tags
    PROVE  PipeInv'
<1> USE DEF PipeInv
<1>1. PipeTyped'
    BY TypesAre, TypedAgain, Zenon
<1>2. SavesCount' /\ RequestsInTime' /\ AnswersReviewed' /\ NothingPublished'
    BY DEF SavesCount, RequestsInTime, AnswersReviewed, NothingPublished, BeforePaper,
           BeforeConfirm, BeforeAttach, FromAnswers, FromPublish, FromTags, FromAudit, FromAdopt,
           FromWatchdog, L!Names, L!Whole
<1>3. RunnerFits'
    BY DEF RunnerFits, Acting, L!Names, L!Audits, L!Whole, StagesOf
<1>4. ContentAudited'
    BY DEF ContentAudited, FromWatchdog
<1>5. \A e : Explained(e) => Explained(e)'
    BY DEF Explained
<1>6. PublicationExplained'
    BY <1>5 DEF PublicationExplained, Acting, Explained, L!Names, L!Whole
<1>7. TagsAudited'
    BY DEF TagsAudited, FromPublish, FromTags, FromAudit, FromAdopt, FromWatchdog
<1> QED
    BY <1>1, <1>2, <1>3, <1>4, <1>6, <1>7

\* It stops, starts, or stays as it is.
LEMMA RunnerRests ==
    ASSUME PipeInv,
           UNCHANGED <<stage, actions, checked, watched, proposal, item, keys, question, audited>>,
           reviews' \in [L!Audits -> ReviewType], stopped' \in Reasons, deferred' \subseteq Items,
           edits' \in Nat, troubles' \in Nat, runner' \in {runner, L!Off, L!Ready}
    PROVE  PipeInv'
<1>1. PipeTyped
    BY DEF PipeInv
<1>2. CASE runner' = runner
  <2> USE DEF PipeInv
  <2>1. PipeTyped'
    BY <1>2, TypesAre, TypedAgain, Zenon
  <2>2. SavesCount' /\ RequestsInTime' /\ AnswersReviewed' /\ NothingPublished'
    BY DEF SavesCount, RequestsInTime, AnswersReviewed, NothingPublished, BeforePaper,
           BeforeConfirm, BeforeAttach, FromAnswers, FromPublish, FromTags, FromAudit, FromAdopt,
           FromWatchdog, L!Names, L!Whole
  <2>3. RunnerFits'
    BY <1>2 DEF RunnerFits, Acting, L!Names, L!Audits, L!Whole, StagesOf
  <2>4. ContentAudited'
    BY <1>2 DEF ContentAudited, FromWatchdog
  <2>5. PublicationExplained'
    BY <1>2 DEF PublicationExplained, Acting, Explained, L!Names, L!Whole
  <2>6. TagsAudited'
    BY <1>2 DEF TagsAudited, FromPublish, FromTags, FromAudit, FromAdopt, FromWatchdog
  <2> QED
    BY <2>1, <2>2, <2>3, <2>4, <2>5, <2>6
<1>3. CASE runner' \in {L!Off, L!Ready}
  <2>1. runner' \in RunnerType /\ runner'.pc \in {"off", "ready"}
    BY <1>1, <1>3, ValuesAre
  <2> QED
    BY <2>1, RunnerMoves
<1> QED
    BY <1>2, <1>3

\* The stage ends.
LEMMA StageEnds ==
    ASSUME PipeInv,
           UNCHANGED <<actions, reviews, watched, proposal, deferred, stopped, item, keys, question,
                       audited, edits, troubles>>,
           L!Advance, stage # "complete",
           checked' \in [{"paper", "answers"} -> Numbers], checked'["answers"] = checked["answers"],
           stage = "review_answers" => \A i \in Items : item[i].active => checked["answers"][i] # 0,
           stage = "watchdog_tags" => \A i \in Sampled : item[i].active => i \in watched["tags"]
    PROVE  PipeInv'
<1> USE DEF PipeInv
<1>1. stage' = L!After(stage) /\ runner' = L!Ready
    BY DEF L!Advance
<1>2. runner' \in RunnerType /\ runner'.pc = "ready"
    BY <1>1, ValuesAre
<1>3. stage \in StageNames
    BY DEF PipeTyped
<1>4. stage' \in StageNames
    BY <1>1, <1>3, StagesAre DEF StageNames
<1>5. /\ stage' \in FromWatchdog <=> stage \in FromWatchdog \/ stage = "review_answers"
      /\ stage' \in FromAnswers <=> stage \in FromAnswers \/ stage = "attach_answers"
      /\ stage' \in FromPublish <=> stage \in FromPublish \/ stage = "watchdog_content"
      /\ stage' \in FromTags <=> stage \in FromTags \/ stage = "publish"
      /\ stage' \in FromAudit <=> stage \in FromAudit \/ stage = "generate_tags"
      /\ stage' \in FromAdopt <=> stage \in FromAdopt \/ stage = "watchdog_tags"
      /\ stage' \in BeforePaper => stage \in BeforePaper
      /\ stage' \in BeforeConfirm => stage \in BeforeConfirm
      /\ stage' \in BeforeAttach => stage \in BeforeAttach
  <2> USE DEF FromWatchdog, FromAnswers, FromPublish, FromTags, FromAudit, FromAdopt, BeforePaper,
              BeforeConfirm, BeforeAttach
  <2>1. CASE stage \in BeforeAttach
    BY <1>1, <2>1, StagesAre
  <2>2. CASE stage \in {"attach_answers"} \cup FromAnswers
    BY <1>1, <2>2, StagesAre
  <2> QED
    BY <1>3, <2>1, <2>2 DEF StageNames
<1>6. PipeTyped'
    BY <1>2, <1>4, TypesAre, TypedAgain, Zenon
<1>7. SavesCount' /\ RunnerFits' /\ PublicationExplained'
  <2>1. SavesCount'
    BY DEF SavesCount
  <2>2. RunnerFits'
    BY <1>2 DEF RunnerFits, Acting, L!Names, L!Audits, L!Whole, StagesOf
  <2>3. PublicationExplained'
    BY <1>2 DEF PublicationExplained, Acting, Explained, L!Names, L!Whole
  <2> QED
    BY <2>1, <2>2, <2>3
<1> HIDE DEF PipeInv
<1>8. RequestsInTime'
  <2> SUFFICES ASSUME NEW n \in L!Names, actions[n].sent
               PROVE  /\ n[1] = "paper"   => stage' \notin BeforePaper
                      /\ n[1] = "confirm" => stage' \notin BeforeConfirm
                      /\ n[1] = "answers" => stage' \in FromAnswers
                      /\ n[1] = "publish" => stage' \in FromPublish
                      /\ n[1] = "adopt"   => stage' \in FromAdopt
    BY DEF RequestsInTime, L!Names, L!Whole, FromWatchdog, FromAnswers, FromPublish, FromTags, FromAudit, FromAdopt,
           BeforePaper, BeforeConfirm, BeforeAttach
  <2> QED
    BY <1>5 DEF RequestsInTime, PipeInv
<1>9. AnswersReviewed'
  <2>1. \A i \in Items : stage' \notin FromAnswers => checked'["answers"][i] = 0
    BY <1>5 DEF AnswersReviewed, PipeInv
  <2>2. stage' \in FromWatchdog => \A i \in Items : item[i].active => checked["answers"][i] # 0
    BY <1>5 DEF AnswersReviewed, PipeInv
  <2> QED
    BY <2>1, <2>2 DEF AnswersReviewed, FromAnswers, FromWatchdog
<1>10. ContentAudited'
  <2>1. watched["content"] # {} => stage' \in FromWatchdog
    BY <1>5 DEF ContentAudited, PipeInv
  <2>2. \A i \in watched["content"] : audited["content"][i] = checked["answers"][i]
    BY DEF ContentAudited, PipeInv
  <2> QED
    BY <1>2, <2>1, <2>2 DEF ContentAudited, FromWatchdog
<1>11. NothingPublished'
  <2>1. stage' \notin FromPublish => \A i \in Items : question[i].body = 0
    BY <1>5 DEF NothingPublished, PipeInv
  <2> QED
    BY <2>1 DEF NothingPublished, FromPublish, FromWatchdog
<1>12. TagsAudited'
  <2>1. watched["tags"] # {} => stage' \in FromAudit
    BY <1>5 DEF TagsAudited, PipeInv
  <2>2. \A i \in watched["tags"] : audited["tags"][i] = proposal[i].tags
    BY DEF TagsAudited, PipeInv
  <2>3. stage' \in FromAdopt => \A i \in Sampled : item[i].active => i \in watched["tags"]
    BY <1>5 DEF TagsAudited, PipeInv
  <2> QED
    BY <1>2, <2>1, <2>2, <2>3
    DEF TagsAudited, FromAdopt, FromAudit, FromTags, FromPublish, FromWatchdog
<1> QED
    BY <1>6, <1>7, <1>8, <1>9, <1>10, <1>11, <1>12 DEF PipeInv

-----------------------------------------------------------------------------
(***************************************************************************)
(* What the run publishes and adopts: every action.                        *)
(***************************************************************************)
LEMMA PipeStarts == ASSUME L!PipelineInit, L!PipelineAssumption PROVE PipeInv
<1> USE DEF L!PipelineInit, L!PipelineAssumption
<1>1. /\ L!Nothing \in Numbers /\ L!NoTags \in Tag /\ L!NoAction \in ActionType
      /\ L!NoReview \in ReviewType /\ L!NoTagsYet \in ProposalType
      /\ L!NoAction.sent = FALSE /\ L!NoAction.result = FALSE
      /\ \A i \in Items : L!Nothing[i] = 0
  <2>1. L!Nothing \in Numbers /\ L!NoTags \in Tag /\ \A i \in Items : L!Nothing[i] = 0
    BY DEF L!Nothing, Numbers, Tag
  <2> QED
    BY <2>1 DEF L!NoAction, ActionType, L!NoReview, ReviewType, L!NoTagsYet, ProposalType
<1>2. \A n \in L!Names : actions[n] = L!NoAction
    OBVIOUS
<1>3. runner = L!Off /\ runner \in RunnerType /\ runner.pc = "off"
  <2>1. <<"confirm", L!Whole>> \in L!Names
    BY DEF L!Names
  <2> QED
    BY <1>1, <2>1 DEF L!Off, RunnerType, PCs
<1>4. /\ checked["answers"] = L!Nothing /\ watched["content"] = {} /\ watched["tags"] = {}
    OBVIOUS
<1>5. \A i \in Items : /\ item[i] = [rev |-> 1, body |-> 1, text |-> 1, active |-> TRUE]
                       /\ question[i] = [body |-> 0, version |-> 0, revision |-> 0, tags |-> L!NoTags]
    OBVIOUS
<1>6. PipeTyped
  <2>1. item \in [Items -> ItemType] /\ question \in [Items -> QuestionType]
    BY <1>1 DEF ItemType, QuestionType
  <2>2. /\ stage \in StageNames /\ stopped \in Reasons /\ edits \in Nat /\ troubles \in Nat
        /\ deferred \subseteq Items
    BY DEF StageNames, Reasons
  <2>3. /\ actions \in [L!Names -> ActionType] /\ reviews \in [L!Audits -> ReviewType]
        /\ checked \in [{"paper", "answers"} -> Numbers] /\ keys \in [L!Names -> Numbers]
        /\ watched \in [{"content", "tags"} -> SUBSET Items] /\ watched["content"] \subseteq Sampled
        /\ proposal \in [Items -> ProposalType]
    BY <1>1, <1>4
  <2>4. audited \in [content : Numbers, tags : [Items -> Tag]]
    BY <1>1
  <2> QED
    BY <1>3, <2>1, <2>2, <2>3, <2>4
    DEF PipeTyped, PCs, Reasons, RunnerType, ActionType, ReviewType, ProposalType, ItemType,
        QuestionType
<1>7. SavesCount
  <2>1. \A i \in Items : item[i].rev = 1 /\ item[i].body = 1 /\ item[i].text = 1
    BY <1>5
  <2>2. \A i \in Items : /\ item[i].rev >= 1 /\ item[i].body <= item[i].rev
                         /\ item[i].text <= item[i].body
    <3> HIDE DEF L!PipelineInit
    <3> QED
        BY <2>1
  <2> QED
    BY <2>2 DEF SavesCount
<1>8. RunnerFits /\ RequestsInTime
    BY <1>1, <1>2, <1>3 DEF RunnerFits, RequestsInTime, Acting
<1>9. AnswersReviewed /\ NothingPublished
    BY <1>1, <1>4, <1>5 DEF AnswersReviewed, NothingPublished, FromWatchdog, FromAnswers
<1>10. ContentAudited /\ PublicationExplained /\ TagsAudited
    BY <1>1, <1>2, <1>3, <1>4 DEF ContentAudited, PublicationExplained, TagsAudited, Acting,
       FromAdopt, FromAudit, FromTags, FromPublish, FromWatchdog
<1> QED
    BY <1>6, <1>7, <1>8, <1>9, <1>10 DEF PipeInv

LEMMA HaltKeeps == ASSUME PipeInv, NEW why \in Reasons, L!Halt(why) PROVE PipeInv'
<1>1. /\ stopped' \in {why, stopped} /\ runner' = L!Off
      /\ UNCHANGED <<L!fileVars, L!dbVars, audited, edits, troubles>>
    BY DEF L!Halt
<1>2. /\ UNCHANGED <<stage, actions, checked, watched, proposal, item, keys, question, audited>>
      /\ UNCHANGED <<reviews, deferred, edits, troubles>>
    BY <1>1 DEF L!fileVars, L!dbVars
<1>3. stopped' \in Reasons /\ reviews \in [L!Audits -> ReviewType] /\ deferred \subseteq Items
      /\ edits \in Nat /\ troubles \in Nat
    BY <1>1, TypesAre DEF PipeInv
<1> QED
    BY <1>1, <1>2, <1>3, RunnerRests

\* Starting, ending, dying, stopping and being resumed.
LEMMA ProcessKeeps ==
    ASSUME PipeInv,
           L!Start \/ L!Leave \/ L!Die \/ L!NoticeStop \/ L!Monitor \/ L!Resume \/ L!CommitFails
             \/ L!InventoryFails \/ L!Converts \/ L!Looking
    PROVE  PipeInv'
<1>1. /\ stopped \in Reasons /\ reviews \in [L!Audits -> ReviewType] /\ deferred \subseteq Items
      /\ edits \in Nat /\ troubles \in Nat
    BY TypesAre DEF PipeInv
<1>2. {"watchdog", "conflict", "changed", "conversion", "quality", "visual", ""} \subseteq Reasons
    BY DEF Reasons
<1>3. CASE L!Start \/ L!Leave \/ L!Die
  <2>1. /\ runner' \in {L!Off, L!Ready} /\ troubles' \in {troubles, troubles + 1}
        /\ UNCHANGED <<L!fileVars, stopped, L!dbVars, audited, edits>>
    BY <1>3 DEF L!Start, L!Leave, L!Die
  <2>2. /\ UNCHANGED <<stage, actions, checked, watched, proposal, item, keys, question, audited>>
        /\ UNCHANGED <<reviews, deferred, stopped, edits>> /\ troubles' \in Nat
    BY <1>1, <2>1 DEF L!fileVars, L!dbVars
  <2> QED
    BY <1>1, <2>1, <2>2, RunnerRests
<1>4. CASE L!NoticeStop \/ L!CommitFails \/ L!InventoryFails
    BY <1>2, <1>4, HaltKeeps DEF L!NoticeStop, L!CommitFails, L!InventoryFails
<1>5. CASE L!Monitor
  <2>1. /\ UNCHANGED <<stage, actions, checked, watched, proposal, item, keys, question, audited>>
        /\ UNCHANGED <<reviews, deferred, edits, troubles, runner>> /\ stopped' = "watchdog"
    BY <1>5 DEF L!Monitor, L!fileVars, L!dbVars
  <2> QED
    BY <1>1, <1>2, <2>1, RunnerRests
<1>6. CASE L!Resume
  <2>1. /\ UNCHANGED <<stage, actions, checked, watched, proposal, item, keys, question, audited>>
        /\ UNCHANGED <<deferred, edits, runner>> /\ stopped' = "" /\ troubles' = troubles + 1
        /\ reviews' = [a \in L!Audits |->
              IF reviews[a].verdict = "blocked" \/ a[1] \in L!AuditsOf(stage) THEN L!NoReview
              ELSE reviews[a]]
    BY <1>6 DEF L!Resume, L!dbVars
  <2>2. L!NoReview \in ReviewType
    BY DEF L!NoReview, ReviewType, Tag
  <2>3. reviews' \in [L!Audits -> ReviewType]
    BY <1>1, <2>1, <2>2
  <2>4. troubles' \in Nat
    <3>1. troubles' = troubles + 1 /\ troubles \in Nat
        BY <1>1, <2>1
    <3> QED
        BY <3>1
  <2>5. stopped' \in Reasons
    BY <2>1 DEF Reasons
  <2>6. deferred' \subseteq Items /\ edits' \in Nat /\ runner' = runner
    BY <1>1, <2>1
  <2> QED
    BY <2>1, <2>3, <2>4, <2>5, <2>6, RunnerRests
<1>7. CASE L!Converts \/ L!Looking
  <2>1. /\ UNCHANGED <<stage, actions, checked, watched, proposal, item, keys, question, audited>>
        /\ UNCHANGED <<reviews, deferred, stopped, edits, troubles, runner>>
    BY <1>7 DEF L!Converts, L!Looking, L!Convert, L!VisualReceipt, L!fileVars, L!dbVars
  <2> QED
    BY <1>1, <2>1, RunnerRests
<1> QED
    BY <1>3, <1>4, <1>5, <1>6, <1>7

\* The ends of the stages.
LEMMA StagesKeep ==
    ASSUME PipeInv,
           L!EndStage \/ L!Uploads \/ L!Waits \/ L!Reviewed \/ L!Watched \/ L!AllProposed \/ L!Verify
    PROVE  PipeInv'
<1>1. checked \in [{"paper", "answers"} -> Numbers] /\ L!Nothing \in Numbers
    BY TypesAre, ValuesAre DEF PipeInv
<1>2. CASE L!EndStage
  <2>1. /\ runner.pc = "saved" /\ runner.name[2] = "whole" /\ L!Advance
        /\ checked' = IF runner.name[1] = "attach" THEN [checked EXCEPT !["paper"] = L!Nothing]
                      ELSE checked
        /\ UNCHANGED <<actions, reviews, watched, proposal, deferred, stopped, item, keys, question,
                       audited, edits, troubles>>
    BY <1>2 DEF L!EndStage, L!Running, L!Whole, L!dbVars
  <2>2. checked' \in [{"paper", "answers"} -> Numbers] /\ checked'["answers"] = checked["answers"]
    BY <1>1, <2>1
  <2>3. runner.name \in L!Names /\ stage \in StagesOf(runner.name[1])
    BY <2>1 DEF PipeInv, RunnerFits, Acting
  <2>4. "whole" \notin Items
    BY ContentAssumption DEF L!PipelineAssumption
  <2>5. runner.name[1] \in {"confirm", "reconfirm", "attach", "publish", "adopt"}
    BY <2>1, <2>3, <2>4 DEF L!Names
  <2>6. stage \notin {"complete", "review_answers", "watchdog_tags"}
    BY <2>3, <2>5 DEF StagesOf
  <2> QED
    BY <2>1, <2>2, <2>6, StageEnds
<1>3. CASE L!Uploads
  <2>1. /\ stage \in {"upload_paper", "upload_answers"} /\ L!Advance
        /\ UNCHANGED <<actions, reviews, checked, watched, proposal, deferred, stopped, item, keys,
                       question, audited, edits, troubles>>
    BY <1>3 DEF L!Uploads, L!Upload
  <2> QED
    BY <1>1, <2>1, StageEnds
<1>4. CASE L!Waits
  <2>1. PICK r \in {"paper", "answers"} : L!Wait(r)
    BY <1>4 DEF L!Waits
  <2>2. CASE conversion[r] = "parsed" /\ L!Advance
    <3>1. /\ stage \in {"wait_paper", "wait_answers"} /\ L!Advance
          /\ UNCHANGED <<actions, reviews, checked, watched, proposal, deferred, stopped, item, keys,
                         question, audited, edits, troubles>>
        BY <2>1, <2>2 DEF L!Wait, L!dbVars, L!Halt, L!fileVars
    <3> QED
        BY <1>1, <3>1, StageEnds
  <2>3. CASE L!Halt("conversion")
    BY <2>3, HaltKeeps DEF Reasons
  <2> QED
    BY <2>1, <2>2, <2>3 DEF L!Wait
<1>5. CASE L!Reviewed
  <2>1. PICK p \in {"paper", "answers"} : L!AllReviewed(p)
    BY <1>5 DEF L!Reviewed
  <2>2. /\ stage = L!ReviewStage(p) /\ \A i \in L!ActiveItems : checked[p][i] # 0
        /\ L!Advance
        /\ UNCHANGED <<actions, reviews, checked, watched, proposal, deferred, stopped, item, keys,
                       question, audited, edits, troubles>>
    BY <2>1 DEF L!AllReviewed, L!Inspecting, L!At, L!dbVars
  <2>3. stage = "review_paper" \/ (stage = "review_answers" /\ p = "answers")
    BY <2>2 DEF L!ReviewStage
  <2>4. stage = "review_answers" => \A i \in Items : item[i].active => checked["answers"][i] # 0
    BY <2>2, <2>3 DEF L!ActiveItems
  <2> QED
    BY <1>1, <2>2, <2>3, <2>4, StageEnds
<1>6. CASE L!Watched
  <2>1. PICK w \in {"content", "tags"} : L!AllWatched(w)
    BY <1>6 DEF L!Watched
  <2>2. /\ stage = L!WatchStage(w) /\ Sampled \cap L!ActiveItems \subseteq watched[w]
        /\ L!Advance
        /\ UNCHANGED <<actions, reviews, checked, watched, proposal, deferred, stopped, item, keys,
                       question, audited, edits, troubles>>
    BY <2>1 DEF L!AllWatched, L!Inspecting, L!At, L!dbVars
  <2>3. stage = "watchdog_content" \/ (stage = "watchdog_tags" /\ w = "tags")
    BY <2>2 DEF L!WatchStage
  <2>4. Sampled \subseteq Items
    BY ContentAssumption DEF L!PipelineAssumption
  <2>5. stage = "watchdog_tags" => \A i \in Sampled : item[i].active => i \in watched["tags"]
    BY <2>2, <2>3, <2>4 DEF L!ActiveItems
  <2> QED
    BY <1>1, <2>2, <2>3, <2>5, StageEnds
<1>7. CASE L!AllProposed
  <2>1. /\ stage = "generate_tags" /\ L!Advance
        /\ UNCHANGED <<actions, reviews, checked, watched, proposal, deferred, stopped, item, keys,
                       question, audited, edits, troubles>>
    BY <1>7 DEF L!AllProposed, L!At, L!dbVars
  <2> QED
    BY <1>1, <2>1, StageEnds
<1>8. CASE L!Verify
  <2>1. CASE L!Adopted
    <3>1. /\ stage = "verify" /\ L!Advance
          /\ UNCHANGED <<actions, reviews, checked, watched, proposal, deferred, stopped, item, keys,
                         question, audited, edits, troubles>>
        BY <1>8, <2>1 DEF L!Verify, L!Inspecting, L!At, L!dbVars
    <3> QED
        BY <1>1, <3>1, StageEnds
  <2>2. CASE ~L!Adopted
    <3>1. L!Halt("changed")
        BY <1>8, <2>2 DEF L!Verify
    <3> QED
        BY <3>1, HaltKeeps DEF Reasons
  <2> QED
    BY <2>1, <2>2
<1> QED
    BY <1>2, <1>3, <1>4, <1>5, <1>6, <1>7, <1>8

\* Nothing but the runner, and a look at a figure, changes.
Turning == UNCHANGED <<stage, actions, reviews, checked, watched, proposal, deferred, stopped, item,
                       keys, question, audited, edits, troubles>>

LEMMA WantKeeps ==
    ASSUME PipeInv, Turning, NEW n \in L!Names, NEW e \in Numbers, runner' = L!Want(n, e),
           stage \in StagesOf(n[1]), n[1] = "publish" => Explained(e)
    PROVE  PipeInv'
<1>1. /\ runner' \in RunnerType /\ runner'.pc = "want" /\ runner'.name = n /\ runner'.seen = e
    BY ValuesAre DEF PipeInv
<1>2. /\ UNCHANGED <<stage, actions, checked, watched, proposal, item, keys, question, audited>>
      /\ UNCHANGED <<reviews, stopped, deferred, edits, troubles>>
    BY DEF Turning
<1>3. /\ stopped' \in Reasons /\ reviews' \in [L!Audits -> ReviewType] /\ deferred' \subseteq Items
      /\ edits' \in Nat /\ troubles' \in Nat
    BY <1>2, TypesAre DEF PipeInv
<1> QED
    BY <1>1, <1>2, <1>3, RunnerMoves

\* An audit is asked for, or its verdict is on file.
LEMMA AuditKeeps ==
    ASSUME PipeInv, Turning, NEW w \in {"paper", "answers", "content", "tags"}, NEW i \in Items,
           NEW r, runner' = r, r.pc \in {"asking", "passed"}, r \in RunnerType, r.name = <<w, i>>,
           r.pc = "passed" => w \in {"content", "tags"},
           r.body = L!Body(<<w, i>>), r.tags = L!TagsIn(<<w, i>>),
           stage \in StagesOf(w), w = "content" => L!InventoryValid /\ item[i].active /\ i \in Sampled
    PROVE  PipeInv'
<1>1. <<w, i>> \in L!Audits
    BY DEF L!Audits
<1>2. /\ UNCHANGED <<stage, actions, checked, watched, proposal, item, keys, question, audited>>
      /\ UNCHANGED <<reviews, stopped, deferred, edits, troubles>>
    BY DEF Turning
<1>3. /\ stopped' \in Reasons /\ reviews' \in [L!Audits -> ReviewType] /\ deferred' \subseteq Items
      /\ edits' \in Nat /\ troubles' \in Nat
    BY <1>2, TypesAre DEF PipeInv
<1>4. ASSUME w = "content" PROVE r.body = checked["answers"][i]
  <2>1. stage \in FromWatchdog
    BY <1>4 DEF StagesOf, FromWatchdog
  <2>2. checked["answers"][i] # 0
    BY <1>4, <2>1 DEF PipeInv, AnswersReviewed
  <2>3. checked["answers"][i] = item[i].body
    BY <1>4, <2>2 DEF L!InventoryValid, L!ActiveItems
  <2> QED
    BY <2>3 DEF L!Body
<1>5. w = "tags" => r.tags = proposal[i].tags
    BY DEF L!TagsIn
<1>6. w = "content" => i \in Sampled
    OBVIOUS
<1> QED
    BY <1>1, <1>2, <1>3, <1>4, <1>5, <1>6, RunnerMoves

LEMMA AskKeeps ==
    ASSUME PipeInv, NEW w \in {"paper", "answers", "content", "tags"}, NEW i \in Items,
           L!Ask(<<w, i>>), stage \in StagesOf(w), w = "content" => L!InventoryValid /\ item[i].active /\ i \in Sampled
    PROVE  PipeInv'
<1> DEFINE r == [pc |-> "asking", name |-> <<w, i>>, seen |-> L!OneOf(i), body |-> L!Body(<<w, i>>),
                 tags |-> L!TagsIn(<<w, i>>)]
<1>1. runner' = r /\ Turning
    BY DEF L!Ask, Turning, L!fileVars, L!dbVars
<1>2. L!Body(<<w, i>>) \in Nat /\ L!TagsIn(<<w, i>>) \in Tag
    BY TypesAre DEF PipeInv, L!Body, L!TagsIn, ItemType, ProposalType, Tag
<1>3. r \in RunnerType
    BY <1>2, ValuesAre DEF PipeInv, RunnerType, PCs, L!Audits
<1>4. r.pc = "asking" /\ r.name = <<w, i>> /\ r.body = L!Body(<<w, i>>) /\ r.tags = L!TagsIn(<<w, i>>)
    OBVIOUS
<1> HIDE DEF r
<1> QED
    BY <1>1, <1>3, <1>4, AuditKeeps

\* Reviews of the paper and of the answers.
LEMMA ReviewsKeep ==
    ASSUME PipeInv, L!Reviewing \/ L!Repeating \/ L!ByAgents \/ L!Deferring
    PROVE  PipeInv'
<1>1. /\ \A p \in {"paper", "answers", "defer"}, i \in Items : <<p, i>> \in L!Names
      /\ \A i \in Items : L!OneOf(i) \in Numbers
    BY ValuesAre DEF L!Names, PipeInv
<1>2. /\ L!ReviewStage("paper") \in StagesOf("paper")
      /\ L!ReviewStage("answers") \in StagesOf("answers")
      /\ "review_paper" \in StagesOf("paper") /\ "review_answers" \in StagesOf("answers")
      /\ {"review_paper", "attach_answers"} \subseteq StagesOf("defer")
    BY DEF StagesOf, L!ReviewStage
<1>3. CASE L!Reviewing
  <2>1. PICK p \in {"paper", "answers"} : \E i \in Items : L!ReviewOne(p, i)
    BY <1>3 DEF L!Reviewing
  <2>2. PICK i \in Items : L!ReviewOne(p, i)
    BY <2>1
  <2>3. stage \in StagesOf(p)
    BY <1>2, <2>2 DEF L!ReviewOne, L!ToReview, L!Inspecting, L!At
  <2>4. CASE L!Ask(<<p, i>>)
    BY <2>3, <2>4, AskKeeps
  <2>5. CASE L!Unusable(<<p, i>>)
    BY <2>5, HaltKeeps DEF L!Unusable, Reasons
  <2> QED
    BY <2>2, <2>4, <2>5 DEF L!ReviewOne
<1>4. CASE L!Repeating
  <2>1. PICK p \in {"paper", "answers"} : \E i \in Items : L!ReviewAgain(p, i)
    BY <1>4 DEF L!Repeating
  <2>2. PICK i \in Items : L!ReviewAgain(p, i)
    BY <2>1
  <2>3. stage \in StagesOf(p)
    BY <1>2, <2>2 DEF L!ReviewAgain, L!ToReview, L!Inspecting, L!At
  <2>4. runner' = L!Want(<<p, i>>, L!OneOf(i)) /\ Turning
    BY <2>2 DEF L!ReviewAgain, Turning, L!fileVars, L!dbVars
  <2> QED
    BY <1>1, <2>3, <2>4, WantKeeps
<1>5. CASE L!ByAgents
  <2>1. PICK i \in Items : L!AgentPaperReview(i) \/ L!AgentAnswerReview(i)
    BY <1>5 DEF L!ByAgents
  <2>2. CASE L!AgentPaperReview(i)
    <3>1. stage = "review_paper" /\ runner' = L!Want(<<"paper", i>>, L!OneOf(i)) /\ Turning
        BY <2>2 DEF L!AgentPaperReview, Turning, L!fileVars, L!dbVars
    <3> QED
        BY <1>1, <1>2, <3>1, WantKeeps
  <2>3. CASE L!AgentAnswerReview(i)
    <3>1. stage = "review_answers" /\ runner' = L!Want(<<"answers", i>>, L!OneOf(i)) /\ Turning
        BY <2>3 DEF L!AgentAnswerReview, Turning, L!fileVars, L!dbVars
    <3> QED
        BY <1>1, <1>2, <3>1, WantKeeps
  <2> QED
    BY <2>1, <2>2, <2>3
<1>6. CASE L!Deferring
  <2>1. PICK i \in Items : L!Defer(i)
    BY <1>6 DEF L!Deferring
  <2>2. /\ stage \in {"review_paper", "attach_answers"}
        /\ runner' = L!Want(<<"defer", i>>, L!OneOf(i)) /\ Turning
    BY <2>1 DEF L!Defer, Turning, L!fileVars, L!dbVars
  <2> QED
    BY <1>1, <1>2, <2>2, WantKeeps
<1> QED
    BY <1>3, <1>4, <1>5, <1>6

\* Operations on the whole paper.  What is to be published was reviewed and audited.
LEMMA RequestsKeep ==
    ASSUME PipeInv, L!ConfirmPaper \/ L!AttachAnswers \/ L!Publish \/ L!AdoptTags
    PROVE  PipeInv'
<1>1. /\ \A n \in {"confirm", "reconfirm", "attach", "publish", "adopt"} : <<n, L!Whole>> \in L!Names
      /\ L!Revisions \in Numbers
    BY ValuesAre DEF L!Names, PipeInv
<1>2. ASSUME NEW n \in {"confirm", "reconfirm", "attach", "publish", "adopt"}, L!Request(n),
             stage \in StagesOf(n), n = "publish" => Explained(L!Revisions)
      PROVE  PipeInv'
  <2>1. runner' = L!Want(<<n, L!Whole>>, L!Revisions) /\ Turning
    BY <1>2 DEF L!Request, Turning, L!fileVars, L!dbVars
  <2> QED
    BY <1>1, <1>2, <2>1, WantKeeps
<1>3. CASE L!ConfirmPaper
  <2>1. stage = "confirm_paper" /\ (L!Request("confirm") \/ L!Request("reconfirm"))
    BY <1>3 DEF L!ConfirmPaper, L!Inspecting, L!At
  <2> QED
    BY <1>2, <2>1 DEF StagesOf
<1>4. CASE L!AttachAnswers
  <2>1. stage = "attach_answers" /\ (L!Request("attach") \/ L!Halt("conflict"))
    BY <1>4 DEF L!AttachAnswers, L!At
  <2> QED
    BY <1>2, <2>1, HaltKeeps DEF StagesOf, Reasons
<1>5. CASE L!Publish
  <2>1. stage = "publish" /\ L!InventoryValid
    BY <1>5 DEF L!Publish, L!Inspecting, L!At
  <2>2. CASE watched["content"] = Sampled \cap L!ActiveItems
    <3>1. ASSUME NEW i \in Items
          PROVE  /\ L!Revisions[i] <= item[i].rev
                 /\ item[i].active /\ item[i].rev = L!Revisions[i] =>
                       /\ item[i].body = checked["answers"][i]
                       /\ i \in Sampled => item[i].body = audited["content"][i]
      <4>1. L!Revisions[i] = (IF item[i].active THEN item[i].rev ELSE 0) /\ item[i].rev \in Nat
        BY ValuesAre DEF PipeInv, PipeTyped
      <4>2. ASSUME item[i].active PROVE item[i].body = checked["answers"][i]
        <5>1. checked["answers"][i] # 0
            BY <2>1, <4>2 DEF PipeInv, AnswersReviewed, FromWatchdog
        <5> QED
            BY <2>1, <4>2, <5>1 DEF L!InventoryValid, L!ActiveItems
      <4>3. ASSUME item[i].active, i \in Sampled PROVE audited["content"][i] = checked["answers"][i]
        BY <2>2, <4>3 DEF L!ActiveItems, PipeInv, ContentAudited
      <4> QED
        BY <4>1, <4>2, <4>3
    <3>2. Explained(L!Revisions)
        BY <3>1 DEF Explained
    <3>3. L!Request("publish")
        BY <1>5, <2>2 DEF L!Publish
    <3> QED
        BY <1>2, <2>1, <3>2, <3>3 DEF StagesOf
  <2>3. CASE watched["content"] # Sampled \cap L!ActiveItems
    <3>1. L!Halt("quality")
        BY <1>5, <2>3 DEF L!Publish
    <3> QED
        BY <3>1, HaltKeeps DEF Reasons
  <2> QED
    BY <2>2, <2>3
<1>6. CASE L!AdoptTags
  <2>1. stage = "adopt_tags" /\ L!Request("adopt")
    BY <1>6 DEF L!AdoptTags, L!At
  <2> QED
    BY <1>2, <2>1 DEF StagesOf
<1> QED
    BY <1>3, <1>4, <1>5, <1>6

\* The watchdog asks for an audit or takes its verdict.
LEMMA WatchingKeeps == ASSUME PipeInv, L!Watching \/ L!Rewatching PROVE PipeInv'
<1>1. /\ L!WatchStage("content") \in StagesOf("content") /\ L!WatchStage("tags") \in StagesOf("tags")
    BY DEF StagesOf, L!WatchStage
<1>2. CASE L!Watching
  <2>1. PICK w \in {"content", "tags"} : \E i \in Items : L!WatchOne(w, i)
    BY <1>2 DEF L!Watching
  <2>2. PICK i \in Items : L!WatchOne(w, i)
    BY <2>1
  <2>3. stage \in StagesOf(w) /\ L!InventoryValid /\ item[i].active /\ i \in Sampled
    BY <1>1, <2>2 DEF L!WatchOne, L!ToWatch, L!Inspecting, L!At, L!ActiveItems
  <2>4. CASE L!Ask(<<w, i>>)
    BY <2>3, <2>4, AskKeeps
  <2>5. CASE L!Unusable(<<w, i>>)
    BY <2>5, HaltKeeps DEF L!Unusable, Reasons
  <2>6. CASE L!Halt("visual")
    BY <2>6, HaltKeeps DEF Reasons
  <2> QED
    BY <2>2, <2>4, <2>5, <2>6 DEF L!WatchOne
<1>3. CASE L!Rewatching
  <2>1. PICK w \in {"content", "tags"} : \E i \in Items : L!WatchAgain(w, i)
    BY <1>3 DEF L!Rewatching
  <2>2. PICK i \in Items : L!WatchAgain(w, i)
    BY <2>1
  <2>3. stage \in StagesOf(w) /\ L!InventoryValid /\ item[i].active /\ i \in Sampled
    BY <1>1, <2>2 DEF L!WatchAgain, L!ToWatch, L!Inspecting, L!At, L!ActiveItems
  <2> DEFINE r == [pc |-> "passed", name |-> <<w, i>>, seen |-> L!Nothing,
                   body |-> L!Body(<<w, i>>), tags |-> L!TagsIn(<<w, i>>)]
  <2>4. runner' = r /\ Turning
    BY <2>2 DEF L!WatchAgain, Turning, L!fileVars, L!dbVars
  <2>5. L!Body(<<w, i>>) \in Nat /\ L!TagsIn(<<w, i>>) \in Tag
    BY TypesAre DEF PipeInv, L!Body, L!TagsIn, ItemType, ProposalType, Tag
  <2>6. r \in RunnerType
    BY <2>5, ValuesAre DEF PipeInv, RunnerType, PCs, L!Audits
  <2>7. r.pc = "passed" /\ r.name = <<w, i>> /\ r.body = L!Body(<<w, i>>) /\ r.tags = L!TagsIn(<<w, i>>)
    OBVIOUS
  <2> HIDE DEF r
  <2> QED
    BY <2>3, <2>4, <2>6, <2>7, AuditKeeps
<1> QED
    BY <1>2, <1>3

\* An operation's request or its result is put on file.
LEMMA RequestKeeps ==
    ASSUME PipeInv, Acting, NEW n \in L!Names, n = runner.name, NEW r \in ActionType,
           actions' = [actions EXCEPT ![n] = r], r.sent,
           n[1] = "publish" => Explained(r.expected),
           runner' \in RunnerType, runner'.pc \in {"send", "saved"}, runner'.name = n,
           runner'.seen = runner.seen, runner'.pc = "saved" => r.result,
           UNCHANGED <<stage, reviews, checked, watched, proposal, deferred, stopped, item, keys,
                       question, audited, edits, troubles>>
    PROVE  PipeInv'
<1> USE DEF PipeInv
<1>1. PipeTyped'
  <2>1. actions' \in [L!Names -> ActionType]
    BY TypesAre
  <2> QED
    BY <2>1, TypesAre, TypedAgain, Zenon
<1>2. /\ actions'[n] = r /\ \A m \in L!Names : m # n => actions'[m] = actions[m]
    BY DEF PipeTyped
<1>3. SavesCount' /\ AnswersReviewed' /\ NothingPublished'
    BY DEF SavesCount, AnswersReviewed, NothingPublished, FromAnswers, FromPublish, FromTags,
           FromAudit, FromAdopt, FromWatchdog
<1>4. ContentAudited' /\ TagsAudited'
    BY DEF ContentAudited, TagsAudited, FromAnswers, FromPublish, FromTags, FromAudit, FromAdopt,
           FromWatchdog
<1>5. stage \in StagesOf(n[1])
    BY DEF RunnerFits, Acting
<1> HIDE DEF PipeInv
<1>6. RunnerFits'
  <2>1. \A m \in L!Names : actions'[m].result => actions'[m].sent
    BY <1>2 DEF PipeInv, RunnerFits
  <2>2. runner'.pc \notin {"off", "ready"} => stage' \in StagesOf(runner'.name[1])
    BY <1>5
  <2> QED
    BY <1>2, <2>1, <2>2 DEF RunnerFits, Acting, L!Names, L!Audits, L!Whole, StagesOf
<1>7. RequestsInTime'
  <2> SUFFICES ASSUME NEW m \in L!Names, actions'[m].sent
               PROVE  /\ m[1] = "paper"   => stage \notin BeforePaper
                      /\ m[1] = "confirm" => stage \notin BeforeConfirm
                      /\ m[1] = "answers" => stage \in FromAnswers
                      /\ m[1] = "publish" => stage \in FromPublish
                      /\ m[1] = "adopt"   => stage \in FromAdopt
    BY DEF RequestsInTime, L!Names, L!Whole, FromWatchdog, FromAnswers, FromPublish, FromTags,
           FromAudit, FromAdopt, BeforePaper, BeforeConfirm
  <2>1. CASE m = n
    BY <1>5, <2>1 DEF StagesOf, FromWatchdog, FromAnswers, FromPublish, FromTags, FromAudit,
       FromAdopt, BeforePaper, BeforeConfirm
  <2>2. CASE m # n
    BY <1>2, <2>2 DEF PipeInv, RequestsInTime
  <2> QED
    BY <2>1, <2>2
<1>8. PublicationExplained'
  <2>1. \A e : Explained(e) => Explained(e)'
    BY DEF Explained
  <2>2. \A m \in L!Names : m[1] = "publish" /\ actions'[m].sent => Explained(actions'[m].expected)
    BY <1>2 DEF PipeInv, PublicationExplained
  <2>3. runner'.name[1] = "publish" => Explained(runner'.seen)
    BY DEF PipeInv, PublicationExplained
  <2> QED
    BY <2>1, <2>2, <2>3 DEF PublicationExplained, Explained, L!Names, L!Whole
<1> QED
    BY <1>1, <1>3, <1>4, <1>6, <1>7, <1>8 DEF PipeInv

LEMMA FilesKeep == ASSUME PipeInv, L!Persist \/ L!SaveResult PROVE PipeInv'
<1> DEFINE n == runner.name
<1>1. CASE L!Persist
  <2>1. /\ runner.pc = "want" /\ actions' = [actions EXCEPT ![n] = L!OnFile(n)]
        /\ runner' = [runner EXCEPT !.pc = IF L!OnFile(n).result THEN "saved" ELSE "send"]
        /\ UNCHANGED <<stage, reviews, checked, watched, proposal, deferred, stopped, item, keys,
                       question, audited, edits, troubles>>
    BY <1>1 DEF L!Persist, L!Running, L!dbVars
  <2>2. Acting /\ n \in L!Names
    BY <2>1 DEF PipeInv, RunnerFits, Acting
  <2>3. actions[n] \in ActionType /\ runner \in RunnerType
    BY <2>2, TypesAre DEF PipeInv
  <2> DEFINE r == L!OnFile(n)
             new == [L!NoAction EXCEPT !.expected = runner.seen, !.sent = TRUE]
  <2>4. new \in ActionType /\ new.sent /\ new.expected = runner.seen
    BY <2>3, ValuesAre DEF PipeInv, L!NoAction, ActionType, RunnerType
  <2>5. (r = actions[n] /\ actions[n].sent) \/ r = new
    BY DEF L!OnFile
  <2> HIDE DEF new
  <2>6. n[1] = "publish" => Explained(r.expected)
    BY <2>2, <2>4, <2>5 DEF PipeInv, PublicationExplained
  <2>7. r \in ActionType /\ r.sent
    BY <2>3, <2>4, <2>5
  <2>8. /\ runner' \in RunnerType /\ runner'.pc = (IF r.result THEN "saved" ELSE "send")
        /\ runner'.name = n /\ runner'.seen = runner.seen
    BY <2>1, <2>3 DEF RunnerType, PCs
  <2> HIDE DEF r
  <2>9. actions' = [actions EXCEPT ![n] = r]
    BY <2>1 DEF r
  <2>10. runner'.pc \in {"send", "saved"} /\ (runner'.pc = "saved" => r.result)
    BY <2>8
  <2> HIDE DEF n
  <2> QED
    BY <2>1, <2>2, <2>6, <2>7, <2>8, <2>9, <2>10, RequestKeeps DEF n
<1>2. CASE L!SaveResult
  <2>1. /\ runner.pc = "sent" /\ actions' = [actions EXCEPT ![n].result = TRUE]
        /\ runner' = [runner EXCEPT !.pc = "saved"]
        /\ UNCHANGED <<stage, reviews, checked, watched, proposal, deferred, stopped, item, keys,
                       question, audited, edits, troubles>>
    BY <1>2 DEF L!SaveResult, L!Running, L!dbVars
  <2>2. Acting /\ n \in L!Names /\ actions[n].sent
    BY <2>1 DEF PipeInv, RunnerFits, Acting
  <2>3. actions[n] \in ActionType /\ runner \in RunnerType /\ actions \in [L!Names -> ActionType]
    BY <2>2, TypesAre DEF PipeInv
  <2> DEFINE r == [actions[n] EXCEPT !.result = TRUE]
  <2>4. r \in ActionType /\ r.sent /\ r.expected = actions[n].expected /\ r.result
    BY <2>2, <2>3 DEF ActionType
  <2>5. actions' = [actions EXCEPT ![n] = r]
    BY <2>1, <2>3
  <2> HIDE DEF r
  <2>6. n[1] = "publish" => Explained(r.expected)
    BY <2>2, <2>4 DEF PipeInv, PublicationExplained
  <2>7. /\ runner' \in RunnerType /\ runner'.pc = "saved"
        /\ runner'.name = n /\ runner'.seen = runner.seen
    BY <2>1, <2>3 DEF RunnerType, PCs
  <2> QED
    BY <2>1, <2>2, <2>4, <2>5, <2>6, <2>7, RequestKeeps
<1> QED
    BY <1>1, <1>2

-----------------------------------------------------------------------------
\* The rows of the questions change: every change of a row writes a new revision or
\* takes the row away.
RowsMove ==
    \A i \in Items :
       \/ item'[i] = item[i]
       \/ /\ item'[i].rev = item[i].rev + 1 /\ item'[i].active = item[i].active
          /\ item'[i].body <= item'[i].rev /\ item'[i].text <= item'[i].body
       \/ /\ item'[i].rev = item[i].rev /\ ~item'[i].active
          /\ item'[i].body = item[i].body /\ item'[i].text = item[i].text

LEMMA RowsKeep ==
    ASSUME PipeInv, RowsMove,
           UNCHANGED <<stage, actions, reviews, checked, watched, proposal, deferred, stopped, audited>>,
           item' \in [Items -> ItemType], question' \in [Items -> QuestionType],
           keys' \in [L!Names -> Numbers], edits' \in Nat, troubles' \in Nat,
           \/ runner' = runner
           \/ runner.pc = "send" /\ runner' = [runner EXCEPT !.pc = "sent"],
           stage \notin FromPublish => \A i \in Items : question'[i].body = 0
    PROVE  PipeInv'
<1>1. item \in [Items -> ItemType] /\ runner \in RunnerType
    BY TypesAre DEF PipeInv
<1>2. /\ runner' \in RunnerType /\ runner'.name = runner.name /\ runner'.seen = runner.seen
      /\ runner'.body = runner.body /\ runner'.tags = runner.tags
      /\ runner'.pc = runner.pc \/ (runner.pc = "send" /\ runner'.pc = "sent")
    BY <1>1 DEF RunnerType, PCs
<1>3. \A i \in Items : item[i].rev \in Nat /\ item'[i].rev \in Nat
    BY <1>1 DEF ItemType
<1>4. \A i \in Items : /\ item'[i].active => item[i].active
                       /\ item'[i].active /\ item'[i].rev = item[i].rev => item'[i] = item[i]
  <2> SUFFICES ASSUME NEW i \in Items
               PROVE  /\ item'[i].active => item[i].active
                      /\ item'[i].active /\ item'[i].rev = item[i].rev => item'[i] = item[i]
    OBVIOUS
  <2> QED
    BY <1>3 DEF RowsMove
<1>5. \A i \in Items : item'[i].rev >= item[i].rev
    BY <1>3 DEF RowsMove
<1> USE DEF PipeInv
<1>6. PipeTyped'
    BY <1>2, TypesAre, TypedAgain, Zenon
<1>7. SavesCount'
  <2> SUFFICES ASSUME NEW i \in Items
               PROVE  /\ item'[i].rev >= 1 /\ item'[i].body <= item'[i].rev
                      /\ item'[i].text <= item'[i].body
    BY DEF SavesCount
  <2>1. item[i].rev >= 1 /\ item[i].body <= item[i].rev /\ item[i].text <= item[i].body
    BY DEF SavesCount
  <2> QED
    BY <1>3, <2>1 DEF RowsMove
<1>8. RequestsInTime'
    BY DEF RequestsInTime, BeforePaper,
           BeforeConfirm, BeforeAttach, FromAnswers, FromPublish, FromTags, FromAudit, FromAdopt,
           FromWatchdog, L!Names, L!Whole
<1>9. AnswersReviewed'
    BY <1>4 DEF AnswersReviewed, FromAnswers, FromWatchdog
<1>10. RunnerFits'
    BY <1>2 DEF RunnerFits, Acting, L!Names, L!Audits, L!Whole, StagesOf
<1>11. ContentAudited'
    BY <1>2 DEF ContentAudited, FromWatchdog
<1>12. NothingPublished'
    BY DEF NothingPublished, FromPublish, FromWatchdog
<1>13. TagsAudited'
  <2>1. Sampled \subseteq Items
    BY ContentAssumption DEF L!PipelineAssumption
  <2> QED
    BY <1>2, <1>4, <2>1 DEF TagsAudited, FromPublish, FromTags, FromAudit, FromAdopt, FromWatchdog
<1> HIDE DEF PipeInv
<1>14. ASSUME NEW e \in Numbers, Explained(e) PROVE Explained(e)'
  <2> SUFFICES ASSUME NEW i \in Items
               PROVE  /\ e[i] <= item'[i].rev
                      /\ item'[i].active /\ item'[i].rev = e[i] =>
                            /\ item'[i].body = checked["answers"][i]
                            /\ i \in Sampled => item'[i].body = audited["content"][i]
    BY DEF Explained
  <2>1. e[i] \in Nat /\ e[i] <= item[i].rev
    BY <1>14 DEF Numbers, Explained
  <2>2. e[i] <= item'[i].rev
    BY <1>3, <1>5, <2>1
  <2>3. ASSUME item'[i].active, item'[i].rev = e[i]
        PROVE  item'[i] = item[i]
    BY <1>3, <1>4, <1>5, <2>1, <2>3
  <2>4. ASSUME item'[i].active, item'[i].rev = e[i]
        PROVE  /\ item'[i].body = checked["answers"][i]
               /\ i \in Sampled => item'[i].body = audited["content"][i]
    BY <1>14, <2>3, <2>4 DEF Explained
  <2> QED
    BY <2>2, <2>4
<1>15. PublicationExplained'
  <2>1. \A m \in L!Names : actions[m].expected \in Numbers
    BY TypesAre DEF PipeInv, ActionType
  <2>2. runner.seen \in Numbers
    BY <1>1 DEF RunnerType
  <2>3. \A m \in L!Names : m[1] = "publish" /\ actions[m].sent => Explained(actions[m].expected)'
    BY <1>14, <2>1 DEF PipeInv, PublicationExplained
  <2>4. Acting' => Acting
    BY <1>2 DEF Acting
  <2>5. Acting' /\ runner'.name[1] = "publish" => Explained(runner.seen)'
    BY <1>2, <1>14, <2>2, <2>4 DEF PipeInv, PublicationExplained, Explained
  <2> QED
    BY <2>3, <2>5 DEF PublicationExplained, Explained, L!Names, L!Whole, Acting
<1> QED
    BY <1>6, <1>7, <1>8, <1>9, <1>10, <1>11, <1>12, <1>13, <1>15 DEF PipeInv

LEMMA CommitKeeps == ASSUME PipeInv, L!Commit PROVE PipeInv'
<1> DEFINE n == runner.name
<1>1. /\ runner.pc = "send" /\ runner' = [runner EXCEPT !.pc = "sent"]
      /\ IF L!Recovers(n) THEN UNCHANGED L!dbVars
         ELSE L!MayCommit(n, actions[n].expected) /\ L!Apply(n)
      /\ UNCHANGED <<L!fileVars, stopped, audited, edits, troubles>>
    BY DEF L!Commit, L!Running
<1>2. /\ item \in [Items -> ItemType] /\ question \in [Items -> QuestionType]
      /\ keys \in [L!Names -> Numbers] /\ actions \in [L!Names -> ActionType]
      /\ proposal \in [Items -> ProposalType] /\ edits \in Nat /\ troubles \in Nat
    BY TypesAre DEF PipeInv
<1>3. n \in L!Names /\ stage \in StagesOf(n[1])
    BY <1>1 DEF PipeInv, RunnerFits, Acting
<1>4. UNCHANGED <<stage, actions, reviews, checked, watched, proposal, deferred, stopped, audited, edits,
                  troubles>>
    BY <1>1 DEF L!fileVars
<1>5. stage \notin FromPublish => \A i \in Items : question[i].body = 0
    BY DEF PipeInv, NothingPublished
<1>6. \A i \in Items : /\ item[i] \in ItemType /\ item[i].rev \in Nat /\ item[i].body \in Nat
                       /\ item[i].text \in Nat /\ item[i].body <= item[i].rev
                       /\ item[i].text <= item[i].body /\ question[i] \in QuestionType
    BY <1>2 DEF ItemType, PipeInv, SavesCount
<1>7. CASE L!Recovers(n)
  <2>1. item' = item /\ question' = question /\ keys' = keys
    BY <1>1, <1>7 DEF L!dbVars
  <2>2. RowsMove
    BY <2>1 DEF RowsMove
  <2> QED
    BY <1>1, <1>2, <1>4, <1>5, <2>1, <2>2, RowsKeep
<1>8. CASE ~L!Recovers(n)
  <2>1. L!MayCommit(n, actions[n].expected) /\ L!Apply(n)
    BY <1>1, <1>8
  <2>2. /\ item' = CASE n[1] \in {"paper", "answers"} -> L!Saved(n)
                     [] n[1] = "defer"  -> [item EXCEPT ![n[2]].active = FALSE]
                     [] n[1] = "attach" -> L!Attached
                     [] OTHER -> item
        /\ question' = CASE n[1] = "publish" -> L!Published [] n[1] = "adopt" -> L!Tagged [] OTHER -> question
        /\ keys' = IF n[1] = "adopt" THEN keys ELSE [keys EXCEPT ![n] = actions[n].expected]
    BY <2>1 DEF L!Apply
  <2>3. keys' \in [L!Names -> Numbers]
    BY <1>2, <1>3, <2>2 DEF ActionType
  <2>4. n[1] \in {"paper", "answers", "defer"} => n[2] \in Items
    BY <1>3 DEF L!Names
  <2>5. item' \in [Items -> ItemType] /\ RowsMove
    <3>1. CASE n[1] \in {"paper", "answers"}
      <4> DEFINE new == item[n[2]].rev + 1
                 entry == [item[n[2]] EXCEPT !.rev = new, !.body = new,
                                           !.text = IF n[1] = "paper" THEN new ELSE @]
      <4>1. n[2] \in Items
        BY <2>4, <3>1
      <4>2. new \in Nat /\ item[n[2]].text <= new
        BY <1>6, <4>1
      <4>3. item' = [item EXCEPT ![n[2]] = entry]
        BY <1>2, <2>2, <3>1, <4>1 DEF L!Saved
      <4>4. entry \in ItemType /\ entry.rev = new /\ entry.active = item[n[2]].active /\ entry.body = new
            /\ entry.text \in {new, item[n[2]].text}
        BY <1>6, <4>1, <4>2 DEF ItemType
      <4> HIDE DEF entry
      <4>5. item' \in [Items -> ItemType] /\ \A i \in Items : i # n[2] => item'[i] = item[i]
        BY <1>2, <4>1, <4>3, <4>4
      <4>6. item'[n[2]] = entry
        BY <1>2, <4>1, <4>3
      <4>7. entry.body <= entry.rev /\ entry.text <= entry.body
        <5>1. new <= new
            BY <4>2
        <5> QED
            BY <4>2, <4>4, <5>1
      <4> QED
        BY <4>4, <4>5, <4>6, <4>7 DEF RowsMove
    <3>2. CASE n[1] = "defer"
      <4> DEFINE entry == [item[n[2]] EXCEPT !.active = FALSE]
      <4>1. n[2] \in Items
        BY <2>4, <3>2
      <4>2. item' = [item EXCEPT ![n[2]] = entry]
        BY <1>2, <2>2, <3>2, <4>1
      <4>3. /\ entry \in ItemType /\ entry.rev = item[n[2]].rev /\ ~entry.active
            /\ entry.body = item[n[2]].body /\ entry.text = item[n[2]].text
        BY <1>6, <4>1 DEF ItemType
      <4> HIDE DEF entry
      <4> QED
        BY <1>2, <4>1, <4>2, <4>3 DEF RowsMove
    <3>3. CASE n[1] = "attach"
      <4>1. item' = L!Attached
        BY <2>2, <3>3
      <4>2. \A i \in Items : item'[i] = IF item[i].active
                 THEN [item[i] EXCEPT !.rev = @ + 1, !.body = item[i].rev + 1] ELSE item[i]
        BY <4>1 DEF L!Attached
      <4>3. ASSUME NEW i \in Items, item[i].active
            PROVE  /\ item'[i] \in ItemType
                   /\ item'[i].rev = item[i].rev + 1 /\ item'[i].active = item[i].active
                   /\ item'[i].body = item[i].rev + 1 /\ item'[i].text = item[i].text
        <5>1. item'[i] = [item[i] EXCEPT !.rev = item[i].rev + 1, !.body = item[i].rev + 1]
            BY <4>2, <4>3
        <5>2. item[i] \in ItemType /\ item[i].rev + 1 \in Nat
            BY <1>6
        <5> QED
            BY <5>1, <5>2 DEF ItemType
      <4>4. ASSUME NEW i \in Items, item[i].active
            PROVE  item'[i].body <= item'[i].rev /\ item'[i].text <= item'[i].body
        <5>1. /\ item'[i].rev = item[i].rev + 1 /\ item'[i].body = item[i].rev + 1
              /\ item'[i].text = item[i].text
            BY <4>3, <4>4
        <5>2. item[i].rev \in Nat /\ item[i].text \in Nat /\ item[i].text <= item[i].rev
            BY <1>6
        <5> QED
            BY <5>1, <5>2
      <4>5. ASSUME NEW i \in Items, ~item[i].active PROVE item'[i] = item[i] /\ item[i] \in ItemType
        BY <1>6, <4>2, <4>5
      <4>6. item' \in [Items -> ItemType]
        BY <4>1, <4>3, <4>5 DEF L!Attached
      <4> QED
        BY <4>3, <4>4, <4>5, <4>6 DEF RowsMove
    <3>4. CASE n[1] \notin {"paper", "answers", "defer", "attach"}
      <4>1. item' = item
        BY <2>2, <3>4
      <4> QED
        BY <1>2, <4>1 DEF RowsMove
    <3> QED
        BY <3>1, <3>2, <3>3, <3>4
  <2>6. /\ question' \in [Items -> QuestionType]
        /\ stage \notin FromPublish => \A i \in Items : question'[i].body = 0
    <3>1. CASE n[1] = "publish"
      <4>1. question' = L!Published /\ stage \in FromPublish
        BY <1>3, <2>2, <3>1 DEF StagesOf, FromPublish, FromWatchdog
      <4>2. \A i \in Items : (IF item[i].active
                THEN [body |-> item[i].body, version |-> 1, revision |-> 0, tags |-> L!NoTags]
                ELSE question[i]) \in QuestionType
        BY <1>6 DEF QuestionType, Tag
      <4>3. L!Published \in [Items -> QuestionType]
        BY <4>2 DEF L!Published
      <4> QED
        BY <4>1, <4>3
    <3>2. CASE n[1] = "adopt"
      <4>1. question' = L!Tagged /\ stage \in FromPublish
        BY <1>3, <2>2, <3>2 DEF StagesOf, FromPublish, FromWatchdog
      <4>2. ASSUME NEW i \in Items
            PROVE  [question[i] EXCEPT !.revision = @ + 1, !.tags = proposal[i].tags] \in QuestionType
        <5>1. question[i].revision \in Nat /\ proposal[i].tags \in Tag
            BY <1>2, <1>6 DEF QuestionType, ProposalType
        <5>2. question[i].revision + 1 \in Nat
            BY <5>1
        <5> QED
            BY <1>6, <5>1, <5>2 DEF QuestionType
      <4>3. L!Tagged \in [Items -> QuestionType]
        BY <1>6, <4>2 DEF L!Tagged
      <4> QED
        BY <4>1, <4>3
    <3>3. CASE n[1] \notin {"publish", "adopt"}
      <4>1. question' = question
        BY <2>2, <3>3
      <4> QED
        BY <1>2, <1>5, <4>1
    <3> QED
        BY <3>1, <3>2, <3>3
  <2> QED
    BY <1>1, <1>2, <1>4, <2>3, <2>5, <2>6, RowsKeep
<1> QED
    BY <1>7, <1>8

\* Teachers edit candidates and questions.
LEMMA EditingKeeps == ASSUME PipeInv, L!Editing PROVE PipeInv'
<1>1. PICK i \in Items : L!EditCandidate(i) \/ L!EditQuestion(i)
    BY DEF L!Editing
<1>2. /\ item \in [Items -> ItemType] /\ question \in [Items -> QuestionType]
      /\ keys \in [L!Names -> Numbers] /\ edits \in Nat /\ troubles \in Nat
    BY TypesAre DEF PipeInv
<1>3. stage \notin FromPublish => \A j \in Items : question[j].body = 0
    BY DEF PipeInv, NothingPublished
<1>4. edits' = edits + 1 /\ troubles' = troubles + 1 /\ runner' = runner /\ keys' = keys
      /\ UNCHANGED <<stage, actions, reviews, checked, watched, proposal, deferred, stopped, audited>>
    BY <1>1 DEF L!EditCandidate, L!EditQuestion, L!fileVars
<1>5. edits' \in Nat /\ troubles' \in Nat
  <2>1. edits' = edits + 1 /\ troubles' = troubles + 1 /\ edits \in Nat /\ troubles \in Nat
    BY <1>2, <1>4
  <2> QED
    BY <2>1
<1>6. CASE L!EditCandidate(i)
  <2> DEFINE new == item[i].rev + 1
  <2>1. item[i] \in ItemType /\ new \in Nat /\ item[i].body <= new /\ item[i].text <= new
        /\ item[i].text <= item[i].body /\ new <= new
    <3>1. item[i].rev \in Nat /\ item[i].body \in Nat /\ item[i].text \in Nat
          /\ item[i].body <= item[i].rev /\ item[i].text <= item[i].body
        BY <1>2 DEF ItemType, PipeInv, SavesCount
    <3> QED
        BY <1>2, <3>1
  <2>2. /\ question' = question
        /\ \E entry \in {[item[i] EXCEPT !.rev = new], [item[i] EXCEPT !.rev = new, !.body = new],
                       [item[i] EXCEPT !.rev = new, !.body = new, !.text = new]} :
              item' = [item EXCEPT ![i] = entry]
    BY <1>6 DEF L!EditCandidate
  <2>3. PICK entry \in {[item[i] EXCEPT !.rev = new], [item[i] EXCEPT !.rev = new, !.body = new],
                      [item[i] EXCEPT !.rev = new, !.body = new, !.text = new]} :
             item' = [item EXCEPT ![i] = entry]
    BY <2>2
  <2> HIDE DEF new
  <2>4. /\ entry \in ItemType /\ entry.rev = new /\ entry.active = item[i].active
        /\ entry.body \in {item[i].body, new} /\ entry.text \in {item[i].text, new}
        /\ entry.text = new => entry.body = new \/ entry.text = item[i].text
    BY <2>1, <2>3 DEF ItemType
  <2>5. entry.body <= entry.rev /\ entry.text <= entry.body
    BY <2>1, <2>4
  <2>6. item' \in [Items -> ItemType] /\ RowsMove
    BY <1>2, <2>3, <2>4, <2>5 DEF RowsMove, new
  <2> QED
    BY <1>2, <1>3, <1>4, <1>5, <2>2, <2>6, RowsKeep
<1>7. CASE L!EditQuestion(i)
  <2>1. question[i].body # 0 /\ item' = item
    BY <1>7 DEF L!EditQuestion
  <2>2. stage \in FromPublish
    BY <1>3, <2>1
  <2>3. question' \in [Items -> QuestionType]
    <3>1. question[i] \in QuestionType
        BY <1>2
    <3>2. question[i].version \in Nat /\ question[i].revision \in Nat
        BY <3>1 DEF QuestionType
    <3>3. question[i].version + 1 \in Nat /\ question[i].revision + 1 \in Nat /\ 99 \in Nat
        BY <3>2
    <3>4. CASE question' = [question EXCEPT ![i].body = L!EditedBody, ![i].version = @ + 1]
      <4>1. [question[i] EXCEPT !.body = L!EditedBody, !.version = @ + 1] \in QuestionType
        BY <3>1, <3>3 DEF QuestionType, L!EditedBody
      <4>2. question' = [question EXCEPT ![i] = [question[i] EXCEPT !.body = L!EditedBody, !.version = @ + 1]]
        BY <1>2, <3>4
      <4> QED
        BY <1>2, <4>1, <4>2
    <3>5. CASE \E t \in Choices : question' = [question EXCEPT ![i].revision = @ + 1, ![i].tags = t]
      <4>1. PICK t \in Choices : question' = [question EXCEPT ![i].revision = @ + 1, ![i].tags = t]
        BY <3>5
      <4>2. [question[i] EXCEPT !.revision = @ + 1, !.tags = t] \in QuestionType
        BY <3>1, <3>3 DEF QuestionType, Tag
      <4>3. question' = [question EXCEPT ![i] = [question[i] EXCEPT !.revision = @ + 1, !.tags = t]]
        BY <1>2, <4>1
      <4> QED
        BY <1>2, <4>2, <4>3
    <3> QED
        BY <1>7, <3>4, <3>5 DEF L!EditQuestion
  <2>4. RowsMove
    BY <2>1 DEF RowsMove
  <2> QED
    BY <1>2, <1>4, <1>5, <2>1, <2>2, <2>3, <2>4, RowsKeep
<1> QED
    BY <1>1, <1>6, <1>7

\* A verdict is kept and used.
LEMMA AnswersKeep == ASSUME PipeInv, L!Answers PROVE PipeInv'
<1>1. PICK v \in {"pass", "blocked"} : L!Answer(v)
    BY DEF L!Answers
<1> DEFINE a == runner.name
           r == [body |-> runner.body, tags |-> runner.tags, verdict |-> v]
<1>2. /\ runner.pc = "asking" /\ reviews' = [reviews EXCEPT ![a] = r]
      /\ runner' = IF v = "blocked" THEN L!Ready
                   ELSE IF a[1] \in {"paper", "answers"} THEN L!Want(a, runner.seen)
                   ELSE [runner EXCEPT !.pc = "passed"]
      /\ UNCHANGED <<stage, actions, checked, watched, proposal, item, keys, question, audited>>
      /\ UNCHANGED <<stopped, deferred, edits, troubles>>
    BY <1>1 DEF L!Answer, L!Running, L!dbVars
<1>3. /\ reviews \in [L!Audits -> ReviewType] /\ runner \in RunnerType /\ stopped' \in Reasons
      /\ deferred' \subseteq Items /\ edits' \in Nat /\ troubles' \in Nat
    BY <1>2, TypesAre DEF PipeInv
<1>4. a \in L!Audits /\ stage \in StagesOf(a[1])
    BY <1>2 DEF PipeInv, RunnerFits
<1>5. reviews' \in [L!Audits -> ReviewType]
  <2>1. r \in ReviewType
    BY <1>3 DEF RunnerType, ReviewType
  <2> HIDE DEF r
  <2> QED
    BY <1>2, <1>3, <2>1
<1>6. CASE v = "blocked"
    BY <1>2, <1>3, <1>5, <1>6, RunnerRests
<1>7. CASE v # "blocked" /\ a[1] \in {"paper", "answers"}
  <2>1. /\ runner' = L!Want(a, runner.seen) /\ a \in L!Names /\ runner.seen \in Numbers
    BY <1>2, <1>3, <1>4, <1>7 DEF L!Audits, L!Names, RunnerType
  <2>2. runner' \in RunnerType /\ runner'.pc = "want" /\ runner'.name = a
    BY <2>1, ValuesAre DEF PipeInv
  <2> HIDE DEF a
  <2> QED
    BY <1>2, <1>3, <1>4, <1>5, <1>7, <2>1, <2>2, RunnerMoves
<1>8. CASE v # "blocked" /\ a[1] \notin {"paper", "answers"}
  <2>1. runner' = [runner EXCEPT !.pc = "passed"]
    BY <1>2, <1>8
  <2>2. /\ runner' \in RunnerType /\ runner'.pc = "passed" /\ runner'.name = a
        /\ runner'.body = runner.body /\ runner'.tags = runner.tags
    BY <1>3, <2>1 DEF RunnerType, PCs
  <2>3. a \in {"content", "tags"} \X Items
    BY <1>4, <1>8 DEF L!Audits
  <2>4. a[1] = "content" => a[2] \in Sampled /\ runner.body = checked["answers"][a[2]]
    BY <1>2 DEF PipeInv, ContentAudited
  <2>5. a[1] = "tags" => runner.tags = proposal[a[2]].tags
    BY <1>2 DEF PipeInv, TagsAudited
  <2> HIDE DEF a
  <2> QED
    BY <1>2, <1>3, <1>4, <1>5, <2>2, <2>3, <2>4, <2>5, RunnerMoves
<1> QED
    BY <1>6, <1>7, <1>8

\* The file changes elsewhere.
Filing == UNCHANGED <<actions, reviews, stopped, item, keys, question, edits, troubles>>

LEMMA NoteItemKeeps == ASSUME PipeInv, L!NoteItem PROVE PipeInv'
<1> DEFINE n == runner.name
           i == n[2]
<1>1. /\ runner.pc = "saved" /\ i # "whole" /\ runner' = L!Ready /\ Filing
      /\ UNCHANGED <<watched, proposal, audited>>
      /\ IF n[1] = "defer"
         THEN /\ deferred' = deferred \cup {i}
              /\ checked' = [checked EXCEPT !["paper"][i] = 0]
              /\ stage' = IF stage = "attach_answers" THEN "confirm_paper" ELSE stage
         ELSE /\ checked' = [checked EXCEPT ![n[1]][i] = L!SavedBody(n)]
              /\ UNCHANGED <<deferred, stage>>
    BY DEF L!NoteItem, L!Running, L!dbVars, L!Whole, Filing
<1>2. n \in L!Names /\ stage \in StagesOf(n[1])
    BY <1>1 DEF PipeInv, RunnerFits, Acting
<1>3. n[1] \in {"paper", "answers", "defer"} /\ i \in Items
    BY <1>1, <1>2 DEF L!Names, L!Whole
<1>4. /\ checked \in [{"paper", "answers"} -> Numbers] /\ actions[n].expected \in Numbers
      /\ deferred \subseteq Items /\ stage \in StageNames
    BY <1>2, TypesAre DEF PipeInv, ActionType
<1>5. L!SavedBody(n) \in Nat
  <2>1. actions[n].expected[i] \in Nat
    BY <1>3, <1>4 DEF Numbers
  <2> QED
    BY <2>1 DEF L!SavedBody
<1>6. runner' \in RunnerType /\ runner'.pc = "ready"
    BY <1>1, ValuesAre DEF PipeInv
<1>7. /\ checked' \in [{"paper", "answers"} -> Numbers]
      /\ n[1] # "answers" => checked'["answers"] = checked["answers"]
  <2>1. CASE n[1] = "defer"
    <3>1. [checked["paper"] EXCEPT ![i] = 0] \in Numbers
        BY <1>3, <1>4 DEF Numbers
    <3>2. checked' = [checked EXCEPT !["paper"] = [checked["paper"] EXCEPT ![i] = 0]]
        BY <1>1, <1>4, <2>1
    <3> QED
        BY <1>4, <2>1, <3>1, <3>2
  <2>2. CASE n[1] # "defer"
    <3>1. [checked[n[1]] EXCEPT ![i] = L!SavedBody(n)] \in Numbers
        BY <1>3, <1>4, <1>5, <2>2 DEF Numbers
    <3>2. checked' = [checked EXCEPT ![n[1]] = [checked[n[1]] EXCEPT ![i] = L!SavedBody(n)]]
        BY <1>1, <1>4, <2>2
    <3> QED
        BY <1>3, <1>4, <2>2, <3>1, <3>2
  <2> QED
    BY <2>1, <2>2
<1>8. /\ stage \in {"review_paper", "review_answers", "attach_answers"}
      /\ n[1] = "answers" <=> stage = "review_answers"
      /\ stage' = stage \/ (stage = "attach_answers" /\ stage' = "confirm_paper")
      /\ deferred' \subseteq Items
    BY <1>1, <1>2, <1>3, <1>4 DEF StagesOf
<1>9. stage' \in StageNames /\ stage' \in {"review_paper", "review_answers", "attach_answers", "confirm_paper"}
    BY <1>8 DEF StageNames
<1> HIDE DEF n, i
<1> USE DEF Filing
<1>10. PipeTyped'
    BY <1>1, <1>6, <1>7, <1>8, <1>9, TypesAre, TypedAgain, Zenon DEF PipeInv
<1>11. SavesCount' /\ RunnerFits'
    BY <1>1, <1>6 DEF PipeInv, SavesCount, RunnerFits, Acting, L!Names, L!Audits, L!Whole
<1>12. RequestsInTime'
  <2> SUFFICES ASSUME NEW m \in L!Names, actions[m].sent
               PROVE  /\ m[1] = "paper"   => stage' \notin BeforePaper
                      /\ m[1] = "confirm" => stage' \notin BeforeConfirm
                      /\ m[1] = "answers" => stage' \in FromAnswers
                      /\ m[1] = "publish" => stage' \in FromPublish
                      /\ m[1] = "adopt"   => stage' \in FromAdopt
    BY <1>1 DEF RequestsInTime, L!Names, L!Whole, FromWatchdog, FromAnswers, FromPublish, FromTags,
           FromAudit, FromAdopt, BeforePaper, BeforeConfirm
  <2>1. /\ m[1] = "paper"   => stage \notin BeforePaper
        /\ m[1] = "confirm" => stage \notin BeforeConfirm
        /\ m[1] = "answers" => stage \in FromAnswers
        /\ m[1] = "publish" => stage \in FromPublish
        /\ m[1] = "adopt"   => stage \in FromAdopt
    BY DEF PipeInv, RequestsInTime
  <2> QED
    BY <1>8, <2>1 DEF FromWatchdog, FromAnswers, FromPublish, FromTags,
           FromAudit, FromAdopt, BeforePaper, BeforeConfirm
<1>13. AnswersReviewed'
  <2>1. stage' \notin FromWatchdog
    BY <1>9 DEF FromWatchdog
  <2>2. stage' \notin FromAnswers => stage \notin FromAnswers /\ checked'["answers"] = checked["answers"]
    BY <1>7, <1>8 DEF FromAnswers, FromWatchdog
  <2>3. stage' \notin FromAnswers => \A j \in Items : checked'["answers"][j] = 0
    BY <2>2 DEF PipeInv, AnswersReviewed
  <2> QED
    BY <2>1, <2>3 DEF AnswersReviewed, FromWatchdog, FromAnswers
<1>14. stage \notin FromWatchdog /\ stage \notin FromPublish /\ stage \notin FromAudit
    /\ stage \notin FromAdopt /\ stage' \notin FromPublish /\ stage' \notin FromAdopt
    BY <1>8 DEF FromWatchdog, FromPublish, FromTags, FromAudit, FromAdopt
<1>15. watched["content"] = {} /\ watched["tags"] = {}
    BY <1>14 DEF PipeInv, ContentAudited, TagsAudited
<1>16. ContentAudited'
    BY <1>1, <1>6, <1>15 DEF ContentAudited
<1>17. TagsAudited'
    BY <1>1, <1>6, <1>14, <1>15
    DEF TagsAudited, FromPublish, FromTags, FromAudit, FromAdopt, FromWatchdog
<1>18. PublicationExplained'
  <2>1. \A m \in L!Names : m[1] = "publish" => ~actions[m].sent
    BY <1>14 DEF PipeInv, RequestsInTime
  <2> QED
    BY <1>1, <1>6, <2>1 DEF PublicationExplained, Acting, L!Names, L!Whole
<1>19. NothingPublished'
    BY <1>1, <1>14 DEF PipeInv, NothingPublished, FromPublish, FromWatchdog
<1> QED
    BY <1>10, <1>11, <1>12, <1>13, <1>16, <1>17, <1>18, <1>19 DEF PipeInv

\* What the audits say, and the tags they are about, change.
LEMMA AuditsMove ==
    ASSUME PipeInv, UNCHANGED <<stage, actions, checked, stopped, deferred, item, keys, question>>,
           UNCHANGED <<edits, troubles>>,
           reviews' \in [L!Audits -> ReviewType],
           watched' \in [{"content", "tags"} -> SUBSET Items], watched'["content"] \subseteq Sampled,
           proposal' \in [Items -> ProposalType],
           audited' \in [content : Numbers, tags : [Items -> Tag]],
           runner' \in RunnerType, runner'.pc \in {"off", "ready"},
           watched'["content"] # {} => stage \in FromWatchdog,
           \A i \in watched'["content"] : audited'["content"][i] = checked["answers"][i],
           stage \in FromPublish => audited'["content"] = audited["content"],
           watched'["tags"] # {} => stage \in FromAudit,
           \A i \in watched'["tags"] : audited'["tags"][i] = proposal'[i].tags,
           stage \notin FromAdopt
    PROVE  PipeInv'
<1>1. PipeTyped'
    BY TypesAre, TypedAgain, Zenon DEF PipeInv
<1>2. SavesCount' /\ RunnerFits'
    BY DEF PipeInv, SavesCount, RunnerFits, Acting, L!Names, L!Audits, L!Whole
<1>3. RequestsInTime' /\ AnswersReviewed' /\ NothingPublished'
    BY DEF PipeInv, RequestsInTime, AnswersReviewed, NothingPublished, BeforePaper,
           BeforeConfirm, FromAnswers, FromPublish, FromTags, FromAudit, FromAdopt, FromWatchdog,
           L!Names, L!Whole
<1>4. ContentAudited'
    BY DEF ContentAudited, FromWatchdog
<1>5. TagsAudited'
    BY DEF TagsAudited, FromPublish, FromTags, FromAudit, FromAdopt, FromWatchdog
<1>6. PublicationExplained'
  <2>1. ~Acting'
    BY DEF Acting
  <2> SUFFICES ASSUME NEW m \in L!Names, m[1] = "publish", actions[m].sent
               PROVE  Explained(actions[m].expected)'
    BY <2>1 DEF PublicationExplained, Acting, L!Names, L!Whole, Explained
  <2>2. stage \in FromPublish /\ Explained(actions[m].expected)
    BY DEF PipeInv, RequestsInTime, PublicationExplained
  <2> QED
    BY <2>2 DEF Explained
<1> QED
    BY <1>1, <1>2, <1>3, <1>4, <1>5, <1>6 DEF PipeInv

\* The watchdog passes an item; tags are proposed and corrected.
LEMMA TagsKeep == ASSUME PipeInv, L!NotePass \/ L!Proposing \/ L!Correcting PROVE PipeInv'
<1>1. /\ watched \in [{"content", "tags"} -> SUBSET Items] /\ watched["content"] \subseteq Sampled
      /\ audited \in [content : Numbers, tags : [Items -> Tag]] /\ runner \in RunnerType
      /\ proposal \in [Items -> ProposalType] /\ reviews \in [L!Audits -> ReviewType]
      /\ question \in [Items -> QuestionType]
    BY TypesAre DEF PipeInv
<1>2. CASE L!NotePass
  <2> DEFINE w == runner.name[1]
             i == runner.name[2]
  <2>1. /\ runner.pc = "passed" /\ watched' = [watched EXCEPT ![w] = @ \cup {i}]
        /\ audited' = [audited EXCEPT ![w][i] = IF w = "content" THEN runner.body ELSE runner.tags]
        /\ runner' = L!Ready
        /\ UNCHANGED <<stage, actions, checked, stopped, deferred, item, keys, question>>
        /\ UNCHANGED <<edits, troubles, reviews, proposal>>
    BY <1>2 DEF L!NotePass, L!Running, L!dbVars
  <2>2. w \in {"content", "tags"} /\ i \in Items /\ stage \in StagesOf(w)
    BY <2>1 DEF PipeInv, RunnerFits
  <2>3. /\ watched["content"] # {} => stage \in FromWatchdog
        /\ \A j \in watched["content"] : audited["content"][j] = checked["answers"][j]
        /\ watched["tags"] # {} => stage \in FromAudit
        /\ \A j \in watched["tags"] : audited["tags"][j] = proposal[j].tags
    BY DEF PipeInv, ContentAudited, TagsAudited
  <2>4. runner' \in RunnerType /\ runner'.pc = "ready" /\ runner.body \in Nat /\ runner.tags \in Tag
    BY <1>1, <2>1, ValuesAre DEF PipeInv, RunnerType
  <2>5. CASE w = "content"
    <3>1. i \in Sampled /\ runner.body = checked["answers"][i]
        BY <2>1, <2>5 DEF PipeInv, ContentAudited
    <3>2. stage = "watchdog_content"
        BY <2>2, <2>5 DEF StagesOf
    <3>3. stage \in FromWatchdog /\ stage \notin FromPublish /\ stage \notin FromAdopt
        BY <3>2 DEF FromWatchdog, FromPublish, FromTags, FromAudit, FromAdopt
    <3> DEFINE c == [audited["content"] EXCEPT ![i] = runner.body]
    <3>4. /\ watched' = [watched EXCEPT !["content"] = watched["content"] \cup {i}]
          /\ audited' = [audited EXCEPT !["content"] = c]
        BY <1>1, <2>1, <2>5
    <3>5. c \in Numbers /\ c[i] = runner.body /\ \A j \in Items : j # i => c[j] = audited["content"][j]
        BY <1>1, <2>2, <2>4 DEF Numbers
    <3> HIDE DEF c, i, w
    <3>6. /\ watched'["content"] = watched["content"] \cup {i} /\ watched'["tags"] = watched["tags"]
          /\ watched' \in [{"content", "tags"} -> SUBSET Items]
        BY <1>1, <2>2, <3>4
    <3>7. /\ audited'["content"] = c /\ audited'["tags"] = audited["tags"]
          /\ audited' \in [content : Numbers, tags : [Items -> Tag]]
        BY <1>1, <3>4, <3>5
    <3>8. \A j \in watched'["content"] : audited'["content"][j] = checked["answers"][j]
        BY <1>1, <2>3, <3>1, <3>5, <3>6, <3>7
    <3> QED
        BY <1>1, <2>1, <2>3, <2>4, <3>1, <3>3, <3>6, <3>7, <3>8, AuditsMove
  <2>6. CASE w = "tags"
    <3>1. runner.tags = proposal[i].tags
        BY <2>1, <2>6 DEF PipeInv, TagsAudited
    <3>2. stage = "watchdog_tags"
        BY <2>2, <2>6 DEF StagesOf
    <3>3. stage \in FromAudit /\ stage \notin FromAdopt
        BY <3>2 DEF FromWatchdog, FromPublish, FromTags, FromAudit, FromAdopt
    <3> DEFINE c == [audited["tags"] EXCEPT ![i] = runner.tags]
    <3>4. /\ watched' = [watched EXCEPT !["tags"] = watched["tags"] \cup {i}]
          /\ audited' = [audited EXCEPT !["tags"] = c]
        BY <1>1, <2>1, <2>6
    <3>5. c \in [Items -> Tag] /\ c[i] = runner.tags /\ \A j \in Items : j # i => c[j] = audited["tags"][j]
        BY <1>1, <2>2, <2>4
    <3> HIDE DEF c, i, w
    <3>6. /\ watched'["tags"] = watched["tags"] \cup {i} /\ watched'["content"] = watched["content"]
          /\ watched' \in [{"content", "tags"} -> SUBSET Items]
        BY <1>1, <2>2, <3>4
    <3>7. /\ audited'["tags"] = c /\ audited'["content"] = audited["content"]
          /\ audited' \in [content : Numbers, tags : [Items -> Tag]]
        BY <1>1, <3>4, <3>5
    <3>8. \A j \in watched'["tags"] : audited'["tags"][j] = proposal[j].tags
        BY <1>1, <2>3, <3>1, <3>5, <3>6, <3>7
    <3> QED
        BY <1>1, <2>1, <2>3, <2>4, <3>3, <3>6, <3>7, <3>8, AuditsMove
  <2> QED
    BY <2>2, <2>5, <2>6
<1>3. CASE L!Proposing
  <2>1. PICK i \in Items : L!Propose(i)
    BY <1>3 DEF L!Proposing
  <2>2. CASE L!Halt("changed")
    BY <2>2, HaltKeeps DEF Reasons
  <2>3. CASE ~L!Halt("changed")
    <3>1. /\ stage = "generate_tags" /\ runner.pc = "ready"
          /\ \E t \in Choices : proposal' = [proposal EXCEPT ![i] = [tags |-> t, version |-> question[i].version]]
          /\ UNCHANGED <<stage, actions, checked, stopped, deferred, item, keys, question>>
          /\ UNCHANGED <<edits, troubles, reviews, watched, audited, runner>>
        BY <2>1, <2>3 DEF L!Propose, L!At, L!Running, L!dbVars
    <3>2. PICK t \in Choices : proposal' = [proposal EXCEPT ![i] = [tags |-> t, version |-> question[i].version]]
        BY <3>1
    <3>3. [tags |-> t, version |-> question[i].version] \in ProposalType
        BY <1>1 DEF QuestionType, ProposalType, Tag
    <3>4. proposal' \in [Items -> ProposalType]
        BY <1>1, <3>2, <3>3
    <3>5. stage \notin FromAudit /\ stage \notin FromAdopt
        BY <3>1 DEF FromWatchdog, FromPublish, FromTags, FromAudit, FromAdopt
    <3>6. watched["tags"] = {}
        BY <3>5 DEF PipeInv, TagsAudited
    <3>7. /\ watched["content"] # {} => stage \in FromWatchdog
          /\ \A j \in watched["content"] : audited["content"][j] = checked["answers"][j]
        BY DEF PipeInv, ContentAudited
    <3> QED
        BY <1>1, <3>1, <3>4, <3>5, <3>6, <3>7, AuditsMove
  <2> QED
    BY <2>2, <2>3
<1>4. CASE L!Correcting
  <2>1. PICK i \in Items : L!AgentTagReview(i)
    BY <1>4 DEF L!Correcting
  <2>2. /\ stage = "watchdog_tags" /\ runner.pc = "off"
        /\ \E t \in Choices \ {proposal[i].tags} : proposal' = [proposal EXCEPT ![i].tags = t]
        /\ reviews' = [reviews EXCEPT ![<<"tags", i>>] = L!NoReview]
        /\ watched' = [watched EXCEPT !["tags"] = @ \ {i}]
        /\ UNCHANGED <<stage, actions, checked, stopped, deferred, item, keys, question>>
        /\ UNCHANGED <<edits, troubles, audited, runner>>
    BY <2>1 DEF L!AgentTagReview, L!Running, L!dbVars
  <2>3. PICK t \in Choices : proposal' = [proposal EXCEPT ![i].tags = t]
    BY <2>2
  <2>4. /\ proposal' \in [Items -> ProposalType] /\ \A j \in Items : j # i => proposal'[j] = proposal[j]
    <3>1. [proposal[i] EXCEPT !.tags = t] \in ProposalType
        BY <1>1 DEF ProposalType, Tag
    <3>2. proposal' = [proposal EXCEPT ![i] = [proposal[i] EXCEPT !.tags = t]]
        BY <1>1, <2>3
    <3> QED
        BY <1>1, <3>1, <3>2
  <2>5. reviews' \in [L!Audits -> ReviewType]
    <3>1. L!NoReview \in ReviewType
        BY DEF L!NoReview, ReviewType, Tag
    <3> QED
        BY <1>1, <2>2, <3>1
  <2>6. /\ watched' \in [{"content", "tags"} -> SUBSET Items] /\ watched'["content"] = watched["content"]
        /\ watched'["tags"] = watched["tags"] \ {i}
    BY <1>1, <2>2
  <2>7. stage \in FromAudit /\ stage \notin FromAdopt
    BY <2>2 DEF FromWatchdog, FromPublish, FromTags, FromAudit, FromAdopt
  <2>8. /\ watched["content"] # {} => stage \in FromWatchdog
        /\ \A j \in watched["content"] : audited["content"][j] = checked["answers"][j]
        /\ \A j \in watched["tags"] : audited["tags"][j] = proposal[j].tags
    BY DEF PipeInv, ContentAudited, TagsAudited
  <2>9. \A j \in watched'["tags"] : audited'["tags"][j] = proposal'[j].tags
    BY <1>1, <2>2, <2>4, <2>6, <2>8
  <2> QED
    BY <1>1, <2>2, <2>4, <2>5, <2>6, <2>7, <2>8, <2>9, AuditsMove
<1> QED
    BY <1>2, <1>3, <1>4

LEMMA PipeStep == ASSUME PipeInv, L!PipelineNext PROVE PipeInv'
    BY ProcessKeeps, FilesKeep, CommitKeeps, NoteItemKeeps, StagesKeep, ReviewsKeep, AnswersKeep,
       RequestsKeep, WatchingKeeps, TagsKeep, EditingKeeps DEF L!PipelineNext

LEMMA PipeHolds == ASSUME PipeInv PROVE L!PipelineTypeOK
<1>1. \E k \in 1..15 : stage = L!Stages[k]
    BY StagesAre DEF PipeInv, PipeTyped
<1>2. \A n \in L!Names : actions[n].result => actions[n].sent
    BY DEF PipeInv, RunnerFits
<1>3. \A i \in Items : item[i].body <= item[i].rev /\ item[i].text <= item[i].body
    BY DEF PipeInv, SavesCount
<1> QED
    BY <1>1, <1>2, <1>3 DEF L!PipelineTypeOK, PipeInv, PipeTyped

\* Only the runner and teachers write questions.
LEMMA QuestionsRest ==
    ASSUME L!PipelineNext, ~L!Commit, ~L!Editing
    PROVE  question' = question
    BY DEF L!PipelineNext, L!Start, L!Leave, L!Die, L!NoticeStop, L!Monitor, L!Resume, L!Persist,
       L!CommitFails, L!SaveResult, L!NoteItem, L!EndStage, L!Uploads, L!Upload, L!Converts,
       L!Convert, L!Waits, L!Wait, L!InventoryFails, L!Reviewing, L!ReviewOne, L!Ask, L!Unusable,
       L!Repeating, L!ReviewAgain, L!Answers, L!Answer, L!ByAgents, L!AgentPaperReview,
       L!AgentAnswerReview, L!Reviewed, L!AllReviewed, L!Deferring, L!Defer, L!ConfirmPaper,
       L!Request, L!AttachAnswers, L!Publish, L!AdoptTags, L!Watching, L!WatchOne, L!Rewatching,
       L!WatchAgain, L!NotePass, L!Watched, L!AllWatched, L!Looking, L!VisualReceipt, L!Proposing,
       L!Propose, L!AllProposed, L!Correcting, L!AgentTagReview, L!Verify, L!Halt, L!dbVars

LEMMA PublishedStep ==
    ASSUME PipeInv, L!PipelineNext, NEW i \in Items, question[i].body = 0, question'[i].body # 0
    PROVE  /\ question'[i].body = checked["answers"][i]
           /\ i \in Sampled => question'[i].body = audited["content"][i]
<1> DEFINE n == runner.name
<1>1. CASE L!Editing
  <2>1. PICK j \in Items : L!EditCandidate(j) \/ L!EditQuestion(j)
    BY <1>1 DEF L!Editing
  <2>2. question \in [Items -> QuestionType]
    BY TypesAre DEF PipeInv
  <2>3. j # i => question'[i] = question[i]
    BY <2>1, <2>2 DEF L!EditCandidate, L!EditQuestion
  <2>4. j = i => question' = question
    BY <2>1 DEF L!EditCandidate, L!EditQuestion
  <2> QED
    BY <2>3, <2>4
<1>2. CASE L!Commit
  <2>1. runner.pc = "send" /\ question' # question
    BY <1>2 DEF L!Commit, L!Running
  <2>2. L!MayCommit(n, actions[n].expected) /\ L!Apply(n)
    BY <1>2, <2>1 DEF L!Commit, L!dbVars
  <2>3. n \in L!Names /\ actions[n].sent
    BY <2>1 DEF PipeInv, RunnerFits, Acting
  <2>4. question' = CASE n[1] = "publish" -> L!Published [] n[1] = "adopt" -> L!Tagged [] OTHER -> question
    BY <2>2 DEF L!Apply
  <2>5. question \in [Items -> QuestionType]
    BY TypesAre DEF PipeInv
  <2>6. n[1] # "adopt"
    <3> SUFFICES ASSUME n[1] = "adopt" PROVE FALSE
        OBVIOUS
    <3>1. question' = L!Tagged
        BY <2>4
    <3>2. question'[i].body = question[i].body
        BY <2>5, <3>1 DEF L!Tagged, QuestionType
    <3> QED
        BY <3>2
  <2>7. n[1] = "publish" /\ question' = L!Published
    BY <2>1, <2>4, <2>6
  <2>8. item[i].active /\ question'[i].body = item[i].body
    BY <2>7 DEF L!Published
  <2>9. L!Revisions = actions[n].expected
    BY <2>2, <2>7 DEF L!MayCommit
  <2>10. actions[n].expected[i] = item[i].rev
    BY <2>8, <2>9, ValuesAre DEF PipeInv
  <2>11. Explained(actions[n].expected)
    BY <2>3, <2>7 DEF PipeInv, PublicationExplained
  <2> QED
    BY <2>8, <2>10, <2>11 DEF Explained
<1> QED
    BY <1>1, <1>2, QuestionsRest

LEMMA AdoptedStep ==
    ASSUME PipeInv, L!PipelineNext, L!Running("send"), runner.name[1] = "adopt",
           question' # question, edits' = edits, NEW i \in L!ActiveItems
    PROVE  /\ question[i].revision = 0
           /\ i \in Sampled => question'[i].tags = audited["tags"][i]
<1> DEFINE n == runner.name
<1>1. ~L!Editing
  <2>1. L!Editing => edits' = edits + 1
    BY DEF L!Editing, L!EditCandidate, L!EditQuestion
  <2>2. edits \in Nat
    BY TypesAre DEF PipeInv
  <2> QED
    BY <2>1, <2>2
<1>2. L!Commit
    BY <1>1, QuestionsRest
<1>3. L!MayCommit(n, actions[n].expected) /\ L!Apply(n)
    BY <1>2 DEF L!Commit, L!dbVars
<1>4. runner.pc = "send" /\ i \in Items /\ item[i].active
    BY DEF L!Running, L!ActiveItems
<1>5. question' = L!Tagged
    BY <1>3 DEF L!Apply
<1>6. L!TagsAsProposed(i)
    BY <1>3 DEF L!MayCommit
<1>7. question'[i].tags = proposal[i].tags
  <2>1. question \in [Items -> QuestionType]
    BY TypesAre DEF PipeInv
  <2>2. question'[i] = [question[i] EXCEPT !.revision = @ + 1, !.tags = proposal[i].tags]
    BY <1>4, <1>5 DEF L!Tagged
  <2> QED
    BY <1>4, <2>1, <2>2 DEF QuestionType
<1>8. i \in Sampled => i \in watched["tags"]
  <2>1. stage \in FromAdopt
    BY <1>4
    DEF PipeInv, RunnerFits, StagesOf, FromWatchdog, FromPublish, FromTags, FromAudit, FromAdopt
  <2> QED
    BY <1>4, <2>1 DEF PipeInv, TagsAudited
<1>9. i \in Sampled => audited["tags"][i] = proposal[i].tags
    BY <1>8 DEF PipeInv, TagsAudited
<1> QED
    BY <1>6, <1>7, <1>9 DEF L!TagsAsProposed

-----------------------------------------------------------------------------
(***************************************************************************)
(* Nobody edited: nothing is taken for an edit.                            *)
(***************************************************************************)
LEMMA NamesAre ==
    /\ \A p \in {"paper", "answers", "defer"}, i \in Items : <<p, i>> \in L!Names
    /\ \A w \in {"confirm", "reconfirm", "attach", "publish", "adopt"} : <<w, "whole">> \in L!Names
    /\ \A n \in L!Names :
          /\ n[1] \in {"paper", "answers", "defer"} => n[2] \in Items /\ n = <<n[1], n[2]>>
          /\ n[1] \notin {"paper", "answers", "defer"} => n[2] = "whole" /\ n = <<n[1], "whole">>
          /\ n[1] \in {"paper", "answers", "defer", "confirm", "reconfirm", "attach", "publish", "adopt"}
    /\ "whole" \notin Items
    BY ContentAssumption DEF L!Names, L!Whole, L!PipelineAssumption

LEMMA RunnerCalm ==
    ASSUME PipeInv, Calm,
           UNCHANGED <<stage, actions, checked, proposal, deferred, item, confirmed, keys, question>>,
           stopped' \notin {"conflict", "changed"},
           \/ runner' = runner
           \/ /\ runner'.pc \in {"off", "ready", "passed", "asking", "want"}
              /\ \A p \in {"paper", "answers"}, i \in Items :
                    runner'.pc \in {"asking", "want"} /\ runner'.name = <<p, i>> =>
                       /\ checked[p][i] = 0
                       /\ ~actions[<<p, i>>].sent => runner'.seen[i] = item[i].rev
              /\ \A w \in {"confirm", "attach", "publish"} :
                    runner'.pc = "want" /\ runner'.name = <<w, "whole">>
                       /\ ~actions[<<w, "whole">>].sent => runner'.seen = L!Revisions
              /\ runner'.pc \notin {"off", "ready"} => runner'.name[1] # "reconfirm"
    PROVE  Calm'
<1> USE DEF Calm
<1>1. AllThere' /\ InventoryStands'
    BY DEF AllThere, InventoryStands, FromAnswers, FromWatchdog
<1>2. L!Revisions' = L!Revisions /\ L!PaperConfirmed' = L!PaperConfirmed
    BY DEF L!Revisions, L!PaperConfirmed, L!Snapshot
<1>3. SavesStand'
    BY DEF SavesStand, StagesOf, L!Nothing
<1>4. PaperStands'
    BY <1>2 DEF PaperStands, StagesOf, L!Nothing, BeforeAttach, BeforeConfirm, BeforePaper
<1>5. DoneIsRemembered'
    BY <1>2 DEF DoneIsRemembered, FromTags, FromPublish, FromWatchdog, L!Names, L!Whole, L!Nothing
<1>6. TagsStand'
    BY DEF TagsStand, TagsAdopted, FromAdopt, FromAudit, FromTags, FromPublish, FromWatchdog,
           L!Names, L!Whole, L!NoTagsYet, L!NoTags
<1> QED
    BY <1>1, <1>3, <1>4, <1>5, <1>6

\* Edits are counted and requests stay on file.
LEMMA CleanBefore == ASSUME PipeInv, L!PipelineNext, Clean' PROVE Clean
<1>1. edits \in Nat /\ edits' \in Nat
    BY PipeStep, TypesAre DEF PipeInv, PipeTyped
<1>2. edits' \in {edits, edits + 1}
    BY DEF L!PipelineNext, L!Start, L!Leave, L!Die, L!NoticeStop, L!Monitor, L!Resume, L!Persist,
       L!Commit, L!CommitFails, L!SaveResult, L!NoteItem, L!EndStage, L!Uploads, L!Upload, L!Converts,
       L!Convert, L!Waits, L!Wait, L!InventoryFails, L!Reviewing, L!ReviewOne, L!Ask, L!Unusable,
       L!Repeating, L!ReviewAgain, L!Answers, L!Answer, L!ByAgents, L!AgentPaperReview,
       L!AgentAnswerReview, L!Reviewed, L!AllReviewed, L!Deferring, L!Defer, L!ConfirmPaper,
       L!Request, L!AttachAnswers, L!Publish, L!AdoptTags, L!Watching, L!WatchOne, L!Rewatching,
       L!WatchAgain, L!NotePass, L!Watched, L!AllWatched, L!Looking, L!VisualReceipt, L!Proposing,
       L!Propose, L!AllProposed, L!Correcting, L!AgentTagReview, L!Verify, L!Halt,
       L!Editing, L!EditCandidate, L!EditQuestion
<1>3. edits' = 0 => edits = 0
    BY <1>1, <1>2
<1>4. ~L!Persist /\ ~L!SaveResult => actions' = actions
    BY DEF L!PipelineNext, L!Start, L!Leave, L!Die, L!NoticeStop, L!Monitor, L!Resume,
       L!Commit, L!CommitFails, L!NoteItem, L!EndStage, L!Uploads, L!Upload, L!Converts,
       L!Convert, L!Waits, L!Wait, L!InventoryFails, L!Reviewing, L!ReviewOne, L!Ask, L!Unusable,
       L!Repeating, L!ReviewAgain, L!Answers, L!Answer, L!ByAgents, L!AgentPaperReview,
       L!AgentAnswerReview, L!Reviewed, L!AllReviewed, L!Deferring, L!Defer, L!ConfirmPaper,
       L!Request, L!AttachAnswers, L!Publish, L!AdoptTags, L!Watching, L!WatchOne, L!Rewatching,
       L!WatchAgain, L!NotePass, L!Watched, L!AllWatched, L!Looking, L!VisualReceipt, L!Proposing,
       L!Propose, L!AllProposed, L!Correcting, L!AgentTagReview, L!Verify, L!Halt,
       L!Editing, L!EditCandidate, L!EditQuestion, L!fileVars
<1>5. ASSUME NEW n \in L!Names, actions[n].sent PROVE actions'[n].sent
  <2> DEFINE m == runner.name
  <2>1. actions \in [L!Names -> ActionType] /\ runner.seen \in Numbers
    BY TypesAre DEF PipeInv, RunnerType
  <2>2. CASE L!Persist
    <3> DEFINE new == [L!NoAction EXCEPT !.expected = runner.seen, !.sent = TRUE]
    <3>1. actions' = [actions EXCEPT ![m] = L!OnFile(m)]
        BY <2>2 DEF L!Persist
    <3>2. new.sent
        BY <2>1, ValuesAre DEF PipeInv, L!NoAction
    <3>3. (L!OnFile(m) = actions[m] /\ actions[m].sent) \/ L!OnFile(m) = new
        BY DEF L!OnFile
    <3> HIDE DEF new
    <3>4. L!OnFile(m).sent
        BY <3>2, <3>3
    <3> QED
        BY <1>5, <2>1, <3>1, <3>4
  <2>3. CASE L!SaveResult
    <3>1. actions' = [actions EXCEPT ![m].result = TRUE]
        BY <2>3 DEF L!SaveResult
    <3> QED
        BY <1>5, <2>1, <3>1 DEF ActionType
  <2>4. CASE ~L!Persist /\ ~L!SaveResult
    BY <1>4, <1>5, <2>4
  <2> QED
    BY <2>2, <2>3, <2>4
<1>6. ASSUME L!DeferralAsked PROVE L!DeferralAsked'
  <2>1. PICK i \in Items : actions[<<"defer", i>>].sent
    BY <1>6 DEF L!DeferralAsked
  <2>2. actions'[<<"defer", i>>].sent
    BY <1>5, <2>1, NamesAre
  <2> QED
    BY <2>2 DEF L!DeferralAsked
<1> QED
    BY <1>3, <1>6 DEF Clean

\* What a clean run needs to know of itself.
HaltsCalmly == UNCHANGED <<stage, actions, checked, proposal, deferred, item, confirmed, keys, question>>

LEMMA HaltCalm ==
    ASSUME PipeInv, Calm, NEW why, why \notin {"conflict", "changed"}, L!Halt(why)
    PROVE  Calm'
<1>1. /\ stopped' \in {why, stopped} /\ runner' = L!Off /\ HaltsCalmly
    BY DEF L!Halt, HaltsCalmly, L!fileVars, L!dbVars
<1>2. runner'.pc = "off"
    BY <1>1, ValuesAre DEF PipeInv
<1> QED
    BY <1>1, <1>2, RunnerCalm DEF Calm, HaltsCalmly

\* Nothing that was saved fails to be saved again.
LEMMA CommitSucceeds == ASSUME PipeInv, Clean, Calm PROVE ~L!CommitFails
<1> SUFFICES ASSUME L!CommitFails PROVE FALSE
    OBVIOUS
<1> DEFINE n == runner.name
           e == actions[n].expected
<1>1. runner.pc = "send" /\ ~L!Recovers(n) /\ ~L!MayCommit(n, e)
    BY DEF L!CommitFails, L!Running
<1>2. n \in L!Names /\ stage \in StagesOf(n[1]) /\ actions[n].sent
    BY <1>1 DEF PipeInv, RunnerFits, Acting
<1>3. \A i \in Items : item[i].active
    BY DEF Calm, AllThere
<1>4. L!ActiveItems = Items
    BY <1>3 DEF L!ActiveItems
<1>5. CASE n[1] \in {"paper", "answers"}
  <2>1. PICK p \in {"paper", "answers"}, i \in Items : n = <<p, i>>
    BY <1>2, <1>5, NamesAre
  <2>2. keys[n] # e /\ ~L!MaySave(i, e)
    <3>1. n[1] \in {"paper", "answers", "defer"} /\ n[1] # "adopt" /\ n[2] = i
        BY <2>1
    <3>2. keys[n] # e
        BY <1>1, <3>1 DEF L!Recovers
    <3>3. L!MayCommit(n, e) = L!MaySave(n[2], e)
      <4> HIDE DEF n, e
      <4> QED
        BY <3>1 DEF L!MayCommit
    <3> HIDE DEF n, e
    <3> QED
        BY <1>1, <3>1, <3>2, <3>3
  <2>3. item[i].rev = e[i]
    BY <1>2, <2>1, <2>2 DEF Calm, SavesStand
  <2>4. question[i].body = 0
    BY <1>2, <1>5 DEF PipeInv, NothingPublished, StagesOf, FromPublish, FromWatchdog
  <2> QED
    BY <1>3, <2>2, <2>3, <2>4 DEF L!MaySave
<1>6. CASE n[1] = "defer"
    BY <1>2, <1>6, NamesAre DEF Clean, L!DeferralAsked
<1>7. CASE n[1] \in {"confirm", "attach", "publish"}
  <2>1. PICK w \in {"confirm", "attach", "publish"} : n = <<w, "whole">>
    BY <1>2, <1>7, NamesAre
  <2>2. keys[n] # e
    BY <1>1, <1>7 DEF L!Recovers
  <2>3. e = L!Revisions
    BY <1>2, <2>1, <2>2 DEF Calm, PaperStands
  <2>4. w = "attach" => L!PaperConfirmed
    BY <1>2, <2>1 DEF Calm, DoneIsRemembered, StagesOf
  <2>5. L!MayCommit(n, e)
    <3>1. n[1] = w
        BY <2>1
    <3> HIDE DEF n, e
    <3> QED
        BY <2>3, <2>4, <3>1 DEF L!MayCommit
  <2> QED
    BY <1>1, <2>5
<1>8. CASE n[1] = "reconfirm"
    BY <1>1, <1>8 DEF Calm, PaperStands
<1>9. CASE n[1] = "adopt"
  <2>1. ~L!Adopted /\ ~(\A i \in L!ActiveItems : L!TagsAsProposed(i))
    BY <1>1, <1>9 DEF L!Recovers, L!MayCommit
  <2>2. ~TagsAdopted
    BY <1>4, <2>1 DEF L!Adopted, TagsAdopted
  <2>3. stage \in FromTags /\ stage \in FromAudit
    BY <1>2, <1>9 DEF StagesOf, FromWatchdog, FromPublish, FromTags, FromAudit
  <2>4. \A i \in Items : question[i].revision = 0 /\ question[i].version = 1 /\ proposal[i].version = 1
    BY <2>2, <2>3 DEF Calm, TagsStand, DoneIsRemembered
  <2> QED
    BY <1>4, <2>1, <2>4 DEF L!TagsAsProposed
<1> QED
    BY <1>2, <1>5, <1>6, <1>7, <1>8, <1>9, NamesAre

LEMMA InventoryHolds ==
    ASSUME PipeInv, Calm
    PROVE  /\ L!NumbersMatch /\ L!ActiveItems = Items
           /\ stage # "attach_answers" => L!InventoryValid
<1>1. L!ActiveItems = Items /\ deferred = {}
    BY DEF Calm, AllThere, L!ActiveItems
<1>2. L!NumbersMatch
    BY <1>1 DEF L!NumbersMatch
<1>3. stage # "attach_answers" => L!InventoryValid
    BY <1>1 DEF Calm, InventoryStands, L!InventoryValid
<1> QED
    BY <1>1, <1>2, <1>3

\* The process, its stops and the reviews.
LEMMA TurnsCalm ==
    ASSUME PipeInv, Clean, Calm,
           L!Start \/ L!Leave \/ L!Die \/ L!NoticeStop \/ L!Monitor \/ L!Resume \/ L!CommitFails
             \/ L!InventoryFails \/ L!Converts \/ L!Looking \/ L!NotePass
    PROVE  Calm'
<1> USE DEF HaltsCalmly
<1>1. ~L!CommitFails
    BY CommitSucceeds
<1>2. ~L!InventoryFails
    BY InventoryHolds DEF L!InventoryFails, L!At, L!Inventoried
<1>3. stopped \notin {"conflict", "changed"}
    BY DEF Calm
<1>4. CASE L!Start \/ L!Leave \/ L!Die \/ L!NotePass
  <2>1. runner' \in {L!Off, L!Ready} /\ stopped' = stopped /\ HaltsCalmly
    BY <1>4 DEF L!Start, L!Leave, L!Die, L!NotePass, L!fileVars, L!dbVars
  <2>2. runner'.pc \in {"off", "ready"}
    BY <2>1, ValuesAre DEF PipeInv
  <2> QED
    BY <1>3, <2>1, <2>2, RunnerCalm
<1>5. CASE L!NoticeStop
    BY <1>5, HaltCalm DEF L!NoticeStop
<1>6. CASE L!Monitor \/ L!Resume \/ L!Converts \/ L!Looking
  <2>1. runner' = runner /\ stopped' \in {stopped, "", "watchdog"} /\ HaltsCalmly
    BY <1>6
    DEF L!Monitor, L!Resume, L!Converts, L!Convert, L!Looking, L!VisualReceipt, L!fileVars,
        L!dbVars
  <2> QED
    BY <1>3, <2>1, RunnerCalm
<1> QED
    BY <1>1, <1>2, <1>4, <1>5, <1>6

LEMMA WantCalm ==
    ASSUME PipeInv, Calm, HaltsCalmly, stopped' = stopped, NEW n \in L!Names, NEW e \in Numbers,
           runner' = L!Want(n, e),
           n[1] \in {"paper", "answers"} =>
              checked[n[1]][n[2]] = 0 /\ (~actions[n].sent => e[n[2]] = item[n[2]].rev),
           n[1] \in {"confirm", "attach", "publish"} => e = L!Revisions,
           n[1] # "reconfirm"
    PROVE  Calm'
<1>1. runner'.pc = "want" /\ runner'.name = n /\ runner'.seen = e
    BY ValuesAre DEF PipeInv
<1>2. stopped' \notin {"conflict", "changed"}
    BY DEF Calm
<1> QED
    BY <1>1, <1>2, RunnerCalm DEF HaltsCalmly

LEMMA AskCalm ==
    ASSUME PipeInv, Calm, NEW a \in L!Audits, L!Ask(a),
           a[1] \in {"paper", "answers"} => checked[a[1]][a[2]] = 0
    PROVE  Calm'
<1>1. /\ runner' = [pc |-> "asking", name |-> a, seen |-> L!OneOf(a[2]), body |-> L!Body(a), tags |-> L!TagsIn(a)]
      /\ HaltsCalmly /\ stopped' = stopped
    BY DEF L!Ask, HaltsCalmly, L!fileVars, L!dbVars
<1>2. runner'.pc = "asking" /\ runner'.name = a /\ runner'.seen = L!OneOf(a[2])
    BY <1>1
<1>3. \A i \in Items : L!OneOf(i)[i] = item[i].rev
    BY ValuesAre DEF PipeInv
<1>4. a[1] \in {"paper", "answers", "content", "tags"} /\ a[2] \in Items
    BY DEF L!Audits
<1>5. stopped' \notin {"conflict", "changed"}
    BY <1>1 DEF Calm
<1> QED
    BY <1>1, <1>2, <1>3, <1>4, <1>5, RunnerCalm DEF HaltsCalmly

LEMMA ReviewsCalm ==
    ASSUME PipeInv, Calm,
           L!Reviewing \/ L!Repeating \/ L!ByAgents \/ L!Deferring \/ L!Watching \/ L!Rewatching
    PROVE  Calm'
<1>1. /\ \A i \in Items : L!OneOf(i) \in Numbers /\ L!OneOf(i)[i] = item[i].rev
      /\ \A w \in {"paper", "answers", "content", "tags"}, i \in Items : <<w, i>> \in L!Audits
    BY ValuesAre DEF PipeInv, L!Audits
<1>2. ASSUME NEW p \in {"paper", "answers", "defer"}, NEW i \in Items, HaltsCalmly, stopped' = stopped,
             runner' = L!Want(<<p, i>>, L!OneOf(i)), p # "defer" => checked[p][i] = 0
      PROVE  Calm'
    BY <1>1, <1>2, WantCalm, NamesAre
<1>3. CASE L!Reviewing
  <2>1. PICK p \in {"paper", "answers"} : \E i \in Items : L!ReviewOne(p, i)
    BY <1>3 DEF L!Reviewing
  <2>2. PICK i \in Items : L!ReviewOne(p, i)
    BY <2>1
  <2>3. checked[p][i] = 0 /\ (L!Ask(<<p, i>>) \/ L!Halt("quality"))
    BY <2>2 DEF L!ReviewOne, L!ToReview, L!Unusable
  <2> QED
    BY <1>1, <2>3, AskCalm, HaltCalm
<1>4. CASE L!Repeating
  <2>1. PICK p \in {"paper", "answers"} : \E i \in Items : L!ReviewAgain(p, i)
    BY <1>4 DEF L!Repeating
  <2>2. PICK i \in Items : L!ReviewAgain(p, i)
    BY <2>1
  <2>3. /\ checked[p][i] = 0 /\ runner' = L!Want(<<p, i>>, L!OneOf(i)) /\ HaltsCalmly /\ stopped' = stopped
    BY <2>2 DEF L!ReviewAgain, L!ToReview, HaltsCalmly, L!fileVars, L!dbVars
  <2> QED
    BY <1>2, <2>3
<1>5. CASE L!ByAgents
  <2>1. PICK i \in Items : L!AgentPaperReview(i) \/ L!AgentAnswerReview(i)
    BY <1>5 DEF L!ByAgents
  <2>2. PICK p \in {"paper", "answers"} :
             /\ checked[p][i] = 0 /\ runner' = L!Want(<<p, i>>, L!OneOf(i))
             /\ HaltsCalmly /\ stopped' = stopped
    BY <2>1 DEF L!AgentPaperReview, L!AgentAnswerReview, HaltsCalmly, L!fileVars, L!dbVars
  <2> QED
    BY <1>2, <2>2
<1>6. CASE L!Deferring
  <2>1. PICK i \in Items : L!Defer(i)
    BY <1>6 DEF L!Deferring
  <2>2. runner' = L!Want(<<"defer", i>>, L!OneOf(i)) /\ HaltsCalmly /\ stopped' = stopped
    BY <2>1 DEF L!Defer, HaltsCalmly, L!fileVars, L!dbVars
  <2> QED
    BY <1>2, <2>2
<1>7. CASE L!Watching
  <2>1. PICK w \in {"content", "tags"} : \E i \in Items : L!WatchOne(w, i)
    BY <1>7 DEF L!Watching
  <2>2. PICK i \in Items : L!WatchOne(w, i)
    BY <2>1
  <2>3. L!Ask(<<w, i>>) \/ L!Halt("quality") \/ L!Halt("visual")
    BY <2>2 DEF L!WatchOne, L!Unusable
  <2> QED
    BY <1>1, <2>3, AskCalm, HaltCalm
<1>8. CASE L!Rewatching
  <2>1. PICK w \in {"content", "tags"} : \E i \in Items : L!WatchAgain(w, i)
    BY <1>8 DEF L!Rewatching
  <2>2. PICK i \in Items : L!WatchAgain(w, i)
    BY <2>1
  <2>3. /\ runner' = [pc |-> "passed", name |-> <<w, i>>, seen |-> L!Nothing,
                      body |-> L!Body(<<w, i>>), tags |-> L!TagsIn(<<w, i>>)]
        /\ HaltsCalmly /\ stopped' = stopped
    BY <2>2 DEF L!WatchAgain, HaltsCalmly, L!fileVars, L!dbVars
  <2>4. runner'.pc = "passed" /\ runner'.name = <<w, i>>
    BY <2>3
  <2> QED
    BY <2>3, <2>4, RunnerCalm DEF Calm, HaltsCalmly
<1> QED
    BY <1>3, <1>4, <1>5, <1>6, <1>7, <1>8

LEMMA AnswersCalm == ASSUME PipeInv, Calm, L!Answers PROVE Calm'
<1>1. PICK v \in {"pass", "blocked"} : L!Answer(v)
    BY DEF L!Answers
<1> DEFINE a == runner.name
<1>2. /\ runner.pc = "asking" /\ HaltsCalmly /\ stopped' = stopped
      /\ runner' = IF v = "blocked" THEN L!Ready
                   ELSE IF a[1] \in {"paper", "answers"} THEN L!Want(a, runner.seen)
                   ELSE [runner EXCEPT !.pc = "passed"]
    BY <1>1 DEF L!Answer, L!Running, L!dbVars, HaltsCalmly
<1>3. a \in L!Audits /\ runner \in RunnerType /\ stopped' \notin {"conflict", "changed"}
    BY <1>2, TypesAre DEF PipeInv, RunnerFits, Calm
<1>4. CASE v = "blocked"
  <2>1. runner'.pc = "ready"
    BY <1>2, <1>4, ValuesAre DEF PipeInv
  <2> QED
    BY <1>2, <1>3, <2>1, RunnerCalm DEF HaltsCalmly
<1>5. CASE v # "blocked" /\ a[1] \in {"paper", "answers"}
  <2>1. /\ runner' = L!Want(a, runner.seen) /\ a \in L!Names /\ runner.seen \in Numbers
        /\ a = <<a[1], a[2]>> /\ a[2] \in Items
    BY <1>2, <1>3, <1>5 DEF L!Audits, L!Names, RunnerType
  <2>2. checked[a[1]][a[2]] = 0 /\ (~actions[a].sent => runner.seen[a[2]] = item[a[2]].rev)
    BY <1>2, <1>5, <2>1 DEF Calm, SavesStand
  <2> HIDE DEF a
  <2> QED
    BY <1>2, <1>5, <2>1, <2>2, WantCalm
<1>6. CASE v # "blocked" /\ a[1] \notin {"paper", "answers"}
  <2>1. runner'.pc = "passed" /\ runner'.name = a
    BY <1>2, <1>3, <1>6 DEF RunnerType
  <2>2. a[1] # "reconfirm"
    BY <1>3 DEF L!Audits
  <2> QED
    BY <1>2, <1>3, <2>1, <2>2, RunnerCalm DEF HaltsCalmly
<1> QED
    BY <1>4, <1>5, <1>6

LEMMA RequestsCalm ==
    ASSUME PipeInv, Calm, L!ConfirmPaper \/ L!AttachAnswers \/ L!Publish \/ L!AdoptTags
    PROVE  Calm'
<1>1. ASSUME NEW w \in {"confirm", "attach", "publish", "adopt"}, L!Request(w) PROVE Calm'
  <2>1. runner' = L!Want(<<w, "whole">>, L!Revisions) /\ HaltsCalmly /\ stopped' = stopped
    BY <1>1 DEF L!Request, HaltsCalmly, L!fileVars, L!dbVars, L!Whole
  <2>2. L!Revisions \in Numbers
    BY ValuesAre DEF PipeInv
  <2> QED
    BY <2>1, <2>2, WantCalm, NamesAre
<1>2. deferred = {}
    BY DEF Calm, AllThere
<1>3. L!ConfirmPaper => L!Request("confirm")
    BY <1>2 DEF L!ConfirmPaper
<1>4. L!AttachAnswers => L!Request("attach")
  <2>1. stage = "attach_answers" => L!PaperConfirmed
    BY DEF Calm, DoneIsRemembered
  <2> QED
    BY <2>1 DEF L!AttachAnswers, L!At
<1>5. L!Publish => L!Request("publish") \/ L!Halt("quality")
    BY DEF L!Publish
<1>6. L!AdoptTags => L!Request("adopt")
    BY DEF L!AdoptTags
<1> QED
    BY <1>1, <1>3, <1>4, <1>5, <1>6, HaltCalm

\* A request is put on file as it was meant.
LEMMA PersistCalm == ASSUME PipeInv, Calm, Clean', L!Persist PROVE Calm'
<1> DEFINE n == runner.name
           new == [L!NoAction EXCEPT !.expected = runner.seen, !.sent = TRUE]
<1>1. /\ runner.pc = "want" /\ actions' = [actions EXCEPT ![n] = L!OnFile(n)]
      /\ runner' = [runner EXCEPT !.pc = IF L!OnFile(n).result THEN "saved" ELSE "send"]
      /\ UNCHANGED <<stage, checked, proposal, deferred, stopped, item, confirmed, keys, question>>
    BY DEF L!Persist, L!Running, L!dbVars
<1>2. n \in L!Names /\ stage \in StagesOf(n[1]) /\ n[1] # "reconfirm"
    BY <1>1 DEF PipeInv, RunnerFits, Acting, Calm, PaperStands
<1>3. /\ runner \in RunnerType /\ actions \in [L!Names -> ActionType] /\ runner.seen \in Numbers
    BY TypesAre DEF PipeInv, RunnerType
<1>4. new.sent /\ new.expected = runner.seen /\ ~new.result
    BY <1>3, ValuesAre DEF PipeInv, L!NoAction
<1> HIDE DEF new
<1>5. L!OnFile(n) = IF actions[n].sent THEN actions[n] ELSE new
    BY <1>2 DEF L!OnFile, new
<1>6. /\ actions'[n] = IF actions[n].sent THEN actions[n] ELSE new
      /\ \A m \in L!Names : m # n => actions'[m] = actions[m]
    BY <1>1, <1>2, <1>3, <1>5
<1>7. /\ runner'.pc \in {"send", "saved"} /\ runner'.name = n /\ runner'.seen = runner.seen
      /\ runner'.pc = "saved" => actions[n].sent /\ actions[n].result
    BY <1>1, <1>3, <1>4, <1>5 DEF RunnerType
<1>8. actions'[n].result => actions[n].result /\ actions[n].sent
    BY <1>4, <1>6
<1>9. \A i \in Items : item[i].active /\ item[i].rev >= 1 /\ item[i].rev \in Nat
    BY DEF PipeInv, SavesCount, Calm, AllThere, PipeTyped
<1>10. L!Revisions' = L!Revisions /\ L!PaperConfirmed' = L!PaperConfirmed
    BY <1>1 DEF L!Revisions, L!PaperConfirmed, L!Snapshot
<1>11. stopped' \notin {"conflict", "changed"} /\ AllThere' /\ InventoryStands'
    BY <1>1 DEF Calm, AllThere, InventoryStands, FromAnswers, FromWatchdog
<1>12. SavesStand'
  <2> SUFFICES ASSUME NEW p \in {"paper", "answers"}, NEW i \in Items
               PROVE  LET m == <<p, i>>
                          e == actions'[m].expected
                      IN  /\ keys[m] # L!Nothing => actions'[m].sent
                          /\ stage \in StagesOf(p) /\ actions'[m].sent =>
                                /\ e[i] >= 1
                                /\ \/ keys[m] = e /\ item[i].rev = e[i] + 1 /\ item[i].body = e[i] + 1
                                   \/ keys[m] = L!Nothing /\ item[i].rev = e[i]
                          /\ runner'.name = m => checked[p][i] = 0
    BY <1>1, <1>7 DEF SavesStand, StagesOf, L!Nothing
  <2> DEFINE m == <<p, i>>
  <2>1. m \in L!Names
    BY NamesAre
  <2>2. /\ keys[m] # L!Nothing => actions[m].sent
        /\ stage \in StagesOf(p) /\ actions[m].sent =>
              /\ actions[m].expected[i] >= 1
              /\ \/ keys[m] = actions[m].expected /\ item[i].rev = actions[m].expected[i] + 1
                    /\ item[i].body = actions[m].expected[i] + 1
                 \/ keys[m] = L!Nothing /\ item[i].rev = actions[m].expected[i]
        /\ runner.name = m => checked[p][i] = 0 /\ (~actions[m].sent => runner.seen[i] = item[i].rev)
    BY <1>1 DEF Calm, SavesStand
  <2> HIDE DEF m
  <2>3. CASE m # n \/ actions[m].sent
    <3>1. actions'[m] = actions[m]
        BY <1>6, <2>1, <2>3
    <3> QED
        BY <1>7, <2>2, <3>1 DEF m
  <2>4. CASE m = n /\ ~actions[m].sent
    <3>1. actions'[m] = new
        BY <1>6, <2>4
    <3>2. new.expected[i] = item[i].rev /\ keys[m] = L!Nothing /\ checked[p][i] = 0
        BY <1>4, <2>2, <2>4
    <3> QED
        BY <1>4, <1>9, <3>1, <3>2 DEF m
  <2> QED
    BY <2>3, <2>4
<1>13. PaperStands'
  <2>1. actions'[<<"attach", "whole">>].sent => stage \notin BeforeAttach
    <3>1. CASE n = <<"attach", "whole">>
        BY <1>2, <3>1 DEF StagesOf, BeforeAttach, BeforeConfirm, BeforePaper
    <3>2. CASE n # <<"attach", "whole">>
        BY <1>6, <3>2, NamesAre DEF Calm, PaperStands
    <3> QED
        BY <3>1, <3>2
  <2>2. ASSUME NEW w \in {"confirm", "attach", "publish"}
        PROVE  LET m == <<w, "whole">>
               IN  /\ keys[m] # L!Nothing => actions'[m].sent
                   /\ stage \in StagesOf(w) /\ actions'[m].sent =>
                        /\ \E i \in Items : actions'[m].expected[i] # 0
                        /\ \/ actions'[m].expected = L!Revisions
                           \/ w = "attach" /\ keys[m] = actions'[m].expected
    <3> DEFINE m == <<w, "whole">>
    <3>1. m \in L!Names
        BY NamesAre
    <3>2. /\ keys[m] # L!Nothing => actions[m].sent
          /\ stage \in StagesOf(w) /\ actions[m].sent =>
                /\ \E i \in Items : actions[m].expected[i] # 0
                /\ \/ actions[m].expected = L!Revisions
                   \/ w = "attach" /\ keys[m] = actions[m].expected
          /\ runner.name = m /\ ~actions[m].sent => runner.seen = L!Revisions
        BY <1>1 DEF Calm, PaperStands
    <3> HIDE DEF m
    <3>3. CASE m # n \/ actions[m].sent
      <4>1. actions'[m] = actions[m]
        BY <1>6, <3>1, <3>3
      <4> QED
        BY <3>2, <4>1 DEF m
    <3>4. CASE m = n /\ ~actions[m].sent
      <4>1. actions'[m] = new /\ new.expected = L!Revisions
        BY <1>4, <1>6, <3>2, <3>4
      <4>2. PICK i \in Items : TRUE
        BY ContentAssumption DEF L!PipelineAssumption
      <4>3. L!Revisions[i] # 0
        <5>1. L!Revisions[i] = item[i].rev
            BY <1>9, ValuesAre DEF PipeInv
        <5> QED
            BY <1>9, <5>1
      <4> QED
        BY <1>4, <4>1, <4>3 DEF m
    <3> QED
        BY <3>3, <3>4
  <2>3. runner'.name[1] # "reconfirm"
    BY <1>2, <1>7
  <2> QED
    BY <1>1, <1>7, <1>10, <2>1, <2>2, <2>3
    DEF PaperStands, StagesOf, L!Nothing, BeforeAttach, BeforeConfirm, BeforePaper
<1>14. DoneIsRemembered'
  <2>1. ASSUME NEW m \in L!Names, m[1] # "adopt", actions'[m].result
        PROVE  keys[m] = actions'[m].expected
    BY <1>6, <1>8, <2>1 DEF Calm, DoneIsRemembered
  <2>2. runner'.pc = "saved" /\ n[1] # "adopt" => keys[n] = actions'[n].expected
    BY <1>2, <1>6, <1>7 DEF Calm, DoneIsRemembered
  <2>3. /\ runner'.pc \in {"sent", "saved"} /\ runner'.name[1] # "adopt" =>
              keys[runner'.name] = actions'[runner'.name].expected
    BY <1>7, <2>2
  <2> QED
    BY <1>1, <1>10, <2>1, <2>3
    DEF Calm, DoneIsRemembered, FromTags, FromPublish, FromWatchdog, L!Names, L!Whole, L!Nothing
<1>15. TagsStand'
  <2>1. ASSUME NEW m \in L!Names, m[1] = "adopt", actions'[m].result PROVE actions[m].result
    BY <1>6, <1>8, <2>1
  <2>2. runner'.pc = "saved" /\ n[1] = "adopt" => \E m \in L!Names : m[1] = "adopt" /\ actions[m].result
    BY <1>2, <1>7
  <2> QED
    BY <1>1, <1>7, <2>1, <2>2
    DEF Calm, TagsStand, TagsAdopted, FromAdopt, FromAudit, FromTags, FromPublish, FromWatchdog,
        L!Names, L!Whole, L!NoTagsYet, L!NoTags
<1> QED
    BY <1>11, <1>12, <1>13, <1>14, <1>15 DEF Calm

LEMMA SaveResultCalm == ASSUME PipeInv, Calm, L!SaveResult PROVE Calm'
<1> DEFINE n == runner.name
<1>1. /\ runner.pc = "sent" /\ actions' = [actions EXCEPT ![n].result = TRUE]
      /\ runner' = [runner EXCEPT !.pc = "saved"]
      /\ UNCHANGED <<stage, checked, proposal, deferred, stopped, item, confirmed, keys, question>>
    BY DEF L!SaveResult, L!Running, L!dbVars
<1>2. n \in L!Names /\ actions[n].sent /\ n[1] # "reconfirm"
    BY <1>1 DEF PipeInv, RunnerFits, Acting, Calm, PaperStands
<1>3. runner \in RunnerType /\ actions \in [L!Names -> ActionType]
    BY TypesAre DEF PipeInv
<1>4. /\ \A m \in L!Names : /\ actions'[m].sent = actions[m].sent
                            /\ actions'[m].expected = actions[m].expected
                            /\ m # n => actions'[m].result = actions[m].result
    BY <1>1, <1>3 DEF ActionType
<1>5. runner'.pc = "saved" /\ runner'.name = n /\ runner'.seen = runner.seen
    BY <1>1, <1>3 DEF RunnerType
<1>6. L!Revisions' = L!Revisions /\ L!PaperConfirmed' = L!PaperConfirmed
    BY <1>1 DEF L!Revisions, L!PaperConfirmed, L!Snapshot
<1>7. stopped' \notin {"conflict", "changed"} /\ AllThere' /\ InventoryStands'
    BY <1>1 DEF Calm, AllThere, InventoryStands, FromAnswers, FromWatchdog
<1>8. SavesStand'
  <2>1. \A p \in {"paper", "answers"}, i \in Items : <<p, i>> \in L!Names
    BY NamesAre
  <2>2. \A p \in {"paper", "answers"}, i \in Items :
          /\ actions'[<<p, i>>].sent = actions[<<p, i>>].sent
          /\ actions'[<<p, i>>].expected = actions[<<p, i>>].expected
    BY <1>4, <2>1
  <2> HIDE DEF n
  <2> QED
    BY <1>1, <1>5, <2>2 DEF Calm, SavesStand, StagesOf, L!Nothing, n
<1>9. PaperStands'
  <2>1. \A w \in {"confirm", "attach", "publish"} :
          /\ actions'[<<w, "whole">>].sent = actions[<<w, "whole">>].sent
          /\ actions'[<<w, "whole">>].expected = actions[<<w, "whole">>].expected
    BY <1>4, NamesAre
  <2> QED
    BY <1>1, <1>2, <1>5, <1>6, <2>1
    DEF Calm, PaperStands, StagesOf, L!Nothing, BeforeAttach, BeforeConfirm, BeforePaper
<1>10. DoneIsRemembered'
  <2>1. n[1] # "adopt" => keys[n] = actions[n].expected
    BY <1>1 DEF Calm, DoneIsRemembered
  <2>2. ASSUME NEW m \in L!Names, m[1] # "adopt", actions'[m].result
        PROVE  keys[m] = actions'[m].expected
    BY <1>4, <2>1, <2>2 DEF Calm, DoneIsRemembered
  <2>3. runner'.name[1] # "adopt" => keys[runner'.name] = actions'[runner'.name].expected
    BY <1>2, <1>4, <1>5, <2>1
  <2> QED
    BY <1>1, <1>6, <2>2, <2>3
    DEF Calm, DoneIsRemembered, FromTags, FromPublish, FromWatchdog, L!Names, L!Whole, L!Nothing
<1>11. TagsStand'
  <2>1. (\E m \in L!Names : m[1] = "adopt" /\ actions'[m].result)
          => n[1] = "adopt" \/ (\E m \in L!Names : m[1] = "adopt" /\ actions[m].result)
    BY <1>4
  <2> QED
    BY <1>1, <1>5, <2>1
    DEF Calm, TagsStand, TagsAdopted, FromAdopt, FromAudit, FromTags, FromPublish, FromWatchdog,
        L!Names, L!Whole, L!NoTagsYet, L!NoTags
<1> QED
    BY <1>7, <1>8, <1>9, <1>10, <1>11 DEF Calm

\* A change of the database that a clean run makes.
Sending(n) ==
    /\ n = runner.name /\ n \in L!Names /\ stage \in StagesOf(n[1]) /\ actions[n].sent
    /\ runner.pc = "send" /\ runner'.pc = "sent" /\ runner'.name = n /\ runner'.seen = runner.seen
    /\ UNCHANGED <<stage, actions, checked, proposal, deferred, stopped>>

LEMMA RecoveredCalm ==
    ASSUME PipeInv, Calm, NEW n, Sending(n), L!Recovers(n), n[1] # "reconfirm",
           UNCHANGED <<item, confirmed, keys, question>>
    PROVE  Calm'
<1> USE DEF Calm, Sending
<1>1. AllThere' /\ InventoryStands'
    BY DEF AllThere, InventoryStands, FromAnswers, FromWatchdog
<1>2. L!Revisions' = L!Revisions /\ L!PaperConfirmed' = L!PaperConfirmed
    BY DEF L!Revisions, L!PaperConfirmed, L!Snapshot
<1>3. SavesStand'
    BY DEF SavesStand, StagesOf, L!Nothing
<1>4. PaperStands'
    BY <1>2 DEF PaperStands, StagesOf, L!Nothing, BeforeAttach, BeforeConfirm, BeforePaper
<1>5. n[1] # "adopt" => keys[n] = actions[n].expected
    BY DEF L!Recovers
<1>6. DoneIsRemembered'
    BY <1>2, <1>5
    DEF DoneIsRemembered, FromTags, FromPublish, FromWatchdog, L!Names, L!Whole, L!Nothing
<1>7. n[1] = "adopt" => TagsAdopted
  <2>1. L!ActiveItems = Items
    BY InventoryHolds
  <2> QED
    BY <2>1 DEF L!Recovers, L!Adopted, TagsAdopted
<1>8. TagsStand'
    BY <1>7
    DEF TagsStand, TagsAdopted, FromAdopt, FromAudit, FromTags, FromPublish, FromWatchdog,
        L!Names, L!Whole, L!NoTagsYet, L!NoTags
<1> QED
    BY <1>1, <1>3, <1>4, <1>6, <1>8

LEMMA SavedCalm ==
    ASSUME PipeInv, Calm, NEW p \in {"paper", "answers"}, NEW i \in Items, NEW n, n = <<p, i>>,
           Sending(n), keys[n] # actions[n].expected,
           item' = L!Saved(n), keys' = [keys EXCEPT ![n] = actions[n].expected],
           UNCHANGED <<confirmed, question>>
    PROVE  Calm'
<1> DEFINE e == actions[n].expected
<1>1. /\ item \in [Items -> ItemType] /\ keys \in [L!Names -> Numbers] /\ e \in Numbers
    BY TypesAre DEF PipeInv, ActionType, Sending
<1>2. n \in L!Names /\ stage = (IF p = "paper" THEN "review_paper" ELSE "review_answers")
    BY DEF Sending, StagesOf
<1>3. checked[p][i] = 0
    BY DEF Calm, SavesStand, Sending
<1>4. e[i] >= 1 /\ e[i] \in Nat /\ item[i].rev = e[i] /\ keys[n] = L!Nothing
  <2>1. e[i] \in Nat
    BY <1>1 DEF Numbers
  <2>2. stage \in StagesOf(p) /\ actions[n].sent
    BY DEF Sending
  <2>3. /\ e[i] >= 1
        /\ \/ keys[n] = e
           \/ keys[n] = L!Nothing /\ item[i].rev = e[i]
    BY <2>2 DEF Calm, SavesStand
  <2> QED
    BY <2>1, <2>3
<1>5. /\ item'[i].rev = e[i] + 1 /\ item'[i].body = e[i] + 1 /\ item'[i].active = item[i].active
      /\ \A j \in Items : j # i => item'[j] = item[j]
  <2>1. item' = [item EXCEPT ![i].rev = item[i].rev + 1, ![i].body = item[i].rev + 1,
                             ![i].text = IF p = "paper" THEN item[i].rev + 1 ELSE @]
    BY DEF L!Saved
  <2>2. /\ item'[i].rev = item[i].rev + 1 /\ item'[i].body = item[i].rev + 1
        /\ item'[i].active = item[i].active /\ \A j \in Items : j # i => item'[j] = item[j]
    BY <1>1, <2>1 DEF ItemType
  <2> QED
    BY <1>4, <2>2
<1>6. keys'[n] = e /\ \A m \in L!Names : m # n => keys'[m] = keys[m]
    BY <1>1, <1>2
<1>7. stopped' \notin {"conflict", "changed"} /\ AllThere'
  <2>1. \A j \in Items : item'[j].active
    BY <1>5 DEF Calm, AllThere
  <2> QED
    BY <2>1 DEF Calm, AllThere, Sending
<1>8. SavesStand'
  <2> SUFFICES ASSUME NEW q \in {"paper", "answers"}, NEW j \in Items
               PROVE  LET m == <<q, j>>
                          f == actions[m].expected
                      IN  /\ keys'[m] # L!Nothing => actions[m].sent
                          /\ stage \in StagesOf(q) /\ actions[m].sent =>
                                /\ f[j] >= 1
                                /\ \/ keys'[m] = f /\ item'[j].rev = f[j] + 1 /\ item'[j].body = f[j] + 1
                                   \/ keys'[m] = L!Nothing /\ item'[j].rev = f[j]
                          /\ n = m => checked[q][j] = 0
    BY DEF SavesStand, StagesOf, L!Nothing, Sending
  <2> DEFINE m == <<q, j>>
  <2>1. m \in L!Names
    BY NamesAre
  <2>2. /\ keys[m] # L!Nothing => actions[m].sent
        /\ stage \in StagesOf(q) /\ actions[m].sent =>
              /\ actions[m].expected[j] >= 1
              /\ \/ keys[m] = actions[m].expected /\ item[j].rev = actions[m].expected[j] + 1
                    /\ item[j].body = actions[m].expected[j] + 1
                 \/ keys[m] = L!Nothing /\ item[j].rev = actions[m].expected[j]
    BY DEF Calm, SavesStand
  <2>3. CASE m = n
    <3>1. q = p /\ j = i
        BY <2>3
    <3> QED
        BY <1>3, <1>4, <1>5, <1>6, <2>3, <3>1 DEF Sending
  <2>4. CASE m # n /\ j # i
    BY <1>5, <1>6, <2>1, <2>2, <2>4
  <2>5. CASE m # n /\ j = i
    <3>1. q # p
        BY <2>5
    <3>2. stage \notin StagesOf(q)
        BY <1>2, <3>1 DEF StagesOf
    <3> QED
        BY <1>6, <2>1, <2>2, <2>5, <3>2
  <2> QED
    BY <2>3, <2>4, <2>5
<1>9. PaperStands'
  <2>1. \A w \in {"confirm", "attach", "publish"} : <<w, "whole">> # n /\ <<w, "whole">> \in L!Names
    BY NamesAre
  <2>2. \A w \in {"confirm", "attach", "publish"} : keys'[<<w, "whole">>] = keys[<<w, "whole">>]
    BY <1>6, <2>1
  <2>3. \A w \in {"confirm", "attach", "publish"} : stage \notin StagesOf(w)
    BY <1>2 DEF StagesOf
  <2>4. n[1] # "reconfirm"
    OBVIOUS
  <2>5. \A w \in {"confirm", "attach", "publish"} : keys[<<w, "whole">>] # L!Nothing => actions[<<w, "whole">>].sent
    BY DEF Calm, PaperStands
  <2>6. actions[<<"attach", "whole">>].sent => stage \notin BeforeAttach
    BY DEF Calm, PaperStands
  <2> QED
    BY <2>1, <2>2, <2>3, <2>4, <2>5, <2>6
    DEF PaperStands, Sending, StagesOf, L!Nothing, BeforeAttach, BeforeConfirm, BeforePaper
<1>10. DoneIsRemembered'
  <2>1. stage \notin {"confirm_paper", "upload_answers", "wait_answers", "attach_answers"} /\ stage \notin FromTags
    BY <1>2 DEF FromTags, FromPublish, FromWatchdog
  <2>2. \A m \in L!Names : m[1] # "adopt" /\ actions[m].result => keys'[m] = actions[m].expected
    BY <1>6 DEF Calm, DoneIsRemembered
  <2>3. keys'[<<"publish", "whole">>] = keys[<<"publish", "whole">>]
    BY <1>6, NamesAre
  <2>4. keys[<<"publish", "whole">>] # L!Nothing => \A j \in Items : question[j].version = 1
    BY DEF Calm, DoneIsRemembered
  <2> HIDE DEF e
  <2> QED
    BY <1>6, <2>1, <2>2, <2>3, <2>4
    DEF DoneIsRemembered, Sending, FromTags, FromPublish, FromWatchdog, L!Names, L!Whole,
        L!Nothing, e
<1>11. InventoryStands'
  <2>1. stage \notin FromPublish /\ (p = "paper" => stage \notin FromAnswers)
    BY <1>2 DEF FromAnswers, FromPublish, FromWatchdog
  <2>2. \A j \in Items : question[j].body = 0
    BY <2>1 DEF PipeInv, NothingPublished
  <2>3. checked["paper"][i] = 0
    BY <1>2, <1>3 DEF Calm, InventoryStands, FromAnswers
  <2>4. checked["answers"][i] = 0
    BY <1>3, <2>1 DEF PipeInv, AnswersReviewed
  <2>5. /\ stage \in FromAnswers => \A j \in Items : checked["paper"][j] = 0
        /\ stage # "attach_answers" => \A j \in Items :
              checked["paper"][j] # 0 => checked["paper"][j] = item'[j].body
        /\ \A j \in Items : checked["answers"][j] # 0 => checked["answers"][j] = item'[j].body
    BY <1>5, <2>3, <2>4 DEF Calm, InventoryStands
  <2> QED
    BY <2>2, <2>5 DEF InventoryStands, Sending, FromAnswers, FromWatchdog
<1>12. TagsStand'
  <2>1. n[1] # "adopt"
    OBVIOUS
  <2> QED
    BY <2>1
    DEF Sending, Calm, TagsStand, TagsAdopted, FromAdopt, FromAudit, FromTags, FromPublish,
        FromWatchdog, L!Names, L!Whole, L!NoTagsYet, L!NoTags
<1> QED
    BY <1>7, <1>8, <1>9, <1>10, <1>11, <1>12 DEF Calm

LEMMA ConfirmedCalm ==
    ASSUME PipeInv, Calm, NEW n, n = <<"confirm", "whole">>, Sending(n),
           keys' = [keys EXCEPT ![n] = actions[n].expected],
           confirmed' = confirmed \cup {L!Snapshot}, UNCHANGED <<item, question>>
    PROVE  Calm'
<1>1. keys \in [L!Names -> Numbers] /\ n \in L!Names /\ stage = "confirm_paper"
    BY TypesAre DEF PipeInv, Sending, StagesOf
<1>2. keys'[n] = actions[n].expected /\ \A m \in L!Names : m # n => keys'[m] = keys[m]
    BY <1>1
<1>3. L!Revisions' = L!Revisions /\ L!PaperConfirmed'
    BY DEF L!Revisions, L!PaperConfirmed, L!Snapshot
<1>4. stopped' \notin {"conflict", "changed"} /\ AllThere' /\ InventoryStands'
    BY DEF Calm, AllThere, InventoryStands, FromAnswers, FromWatchdog, Sending
<1>5. SavesStand'
  <2>1. \A p \in {"paper", "answers"}, i \in Items : n # <<p, i>> /\ keys'[<<p, i>>] = keys[<<p, i>>]
    BY <1>2, NamesAre
  <2>2. \A p \in {"paper", "answers"}, i \in Items : keys[<<p, i>>] # L!Nothing => actions[<<p, i>>].sent
    BY DEF Calm, SavesStand
  <2>3. \A p \in {"paper", "answers"} : stage \notin StagesOf(p)
    BY <1>1 DEF StagesOf
  <2> QED
    BY <2>1, <2>2, <2>3 DEF SavesStand, StagesOf, L!Nothing, Sending
<1>6. PaperStands'
  <2>1. \A w \in {"confirm", "attach", "publish"} : <<w, "whole">> # n => keys'[<<w, "whole">>] = keys[<<w, "whole">>]
    BY <1>2, NamesAre
  <2> QED
    BY <1>1, <1>2, <1>3, <2>1
    DEF Calm, PaperStands, Sending, StagesOf, L!Nothing, BeforeAttach, BeforeConfirm, BeforePaper
<1>7. DoneIsRemembered'
  <2>1. \A m \in L!Names : m[1] # "adopt" /\ actions[m].result => keys'[m] = actions[m].expected
    BY <1>2 DEF Calm, DoneIsRemembered
  <2>2. keys'[<<"publish", "whole">>] = keys[<<"publish", "whole">>]
    BY <1>2, NamesAre
  <2>3. /\ keys[<<"publish", "whole">>] # L!Nothing => \A j \in Items : question[j].version = 1
        /\ stage \in FromTags => \A i \in Items : question[i].version = 1
    BY DEF Calm, DoneIsRemembered
  <2> QED
    BY <1>1, <1>2, <1>3, <2>1, <2>2, <2>3
    DEF DoneIsRemembered, Sending, FromTags, FromPublish, FromWatchdog, L!Names, L!Whole,
        L!Nothing
<1>8. TagsStand'
    BY DEF Sending, Calm, TagsStand, TagsAdopted, FromAdopt, FromAudit, FromTags, FromPublish,
           FromWatchdog, L!Names, L!Whole, L!NoTagsYet, L!NoTags
<1> QED
    BY <1>4, <1>5, <1>6, <1>7, <1>8 DEF Calm

LEMMA AttachedCalm ==
    ASSUME PipeInv, Calm, NEW n, n = <<"attach", "whole">>, Sending(n),
           keys' = [keys EXCEPT ![n] = actions[n].expected],
           item' = L!Attached, UNCHANGED <<confirmed, question>>
    PROVE  Calm'
<1>1. keys \in [L!Names -> Numbers] /\ n \in L!Names /\ stage = "attach_answers" /\ item \in [Items -> ItemType]
    BY TypesAre DEF PipeInv, Sending, StagesOf
<1>2. keys'[n] = actions[n].expected /\ \A m \in L!Names : m # n => keys'[m] = keys[m]
    BY <1>1
<1>3. \A i \in Items : item'[i].active = item[i].active /\ item'[i].text = item[i].text
    BY <1>1 DEF L!Attached, ItemType
<1>4. L!PaperConfirmed' = L!PaperConfirmed
  <2>1. L!Snapshot' = L!Snapshot
    BY <1>3 DEF L!Snapshot
  <2> QED
    BY <2>1 DEF L!PaperConfirmed
<1>5. stopped' \notin {"conflict", "changed"} /\ AllThere'
  <2>1. \A i \in Items : item'[i].active
    BY <1>3 DEF Calm, AllThere
  <2> QED
    BY <2>1 DEF Calm, AllThere, Sending
<1>6. SavesStand'
  <2>1. \A p \in {"paper", "answers"}, i \in Items : n # <<p, i>> /\ keys'[<<p, i>>] = keys[<<p, i>>]
    BY <1>2, NamesAre
  <2>2. \A p \in {"paper", "answers"}, i \in Items : keys[<<p, i>>] # L!Nothing => actions[<<p, i>>].sent
    BY DEF Calm, SavesStand
  <2>3. \A p \in {"paper", "answers"} : stage \notin StagesOf(p)
    BY <1>1 DEF StagesOf
  <2> QED
    BY <2>1, <2>2, <2>3 DEF SavesStand, StagesOf, L!Nothing, Sending
<1>7. PaperStands'
  <2>1. \A w \in {"confirm", "publish"} : <<w, "whole">> # n /\ keys'[<<w, "whole">>] = keys[<<w, "whole">>]
    BY <1>2, NamesAre
  <2>2. \A w \in {"confirm", "publish"} : stage \notin StagesOf(w)
    BY <1>1 DEF StagesOf
  <2>3. /\ actions[n].sent /\ \E i \in Items : actions[n].expected[i] # 0
    BY <1>1 DEF Sending, Calm, PaperStands, StagesOf
  <2>4. /\ \A w \in {"confirm", "publish"} : keys[<<w, "whole">>] # L!Nothing => actions[<<w, "whole">>].sent
        /\ actions[<<"attach", "whole">>].sent => stage \notin BeforeAttach
    BY DEF Calm, PaperStands
  <2>5. ASSUME NEW w \in {"confirm", "attach", "publish"}
        PROVE  LET m == <<w, "whole">>
               IN  /\ keys'[m] # L!Nothing => actions[m].sent
                   /\ stage \in StagesOf(w) /\ actions[m].sent =>
                        /\ \E i \in Items : actions[m].expected[i] # 0
                        /\ w = "attach" /\ keys'[m] = actions[m].expected
    BY <1>2, <2>1, <2>2, <2>3, <2>4
  <2> QED
    BY <2>4, <2>5
    DEF PaperStands, Sending, StagesOf, L!Nothing, BeforeAttach, BeforeConfirm, BeforePaper
<1>8. DoneIsRemembered'
  <2>1. \A m \in L!Names : m[1] # "adopt" /\ actions[m].result => keys'[m] = actions[m].expected
    BY <1>2 DEF Calm, DoneIsRemembered
  <2>2. /\ keys'[<<"publish", "whole">>] = keys[<<"publish", "whole">>]
        /\ keys'[<<"confirm", "whole">>] = keys[<<"confirm", "whole">>]
    BY <1>2, NamesAre
  <2> QED
    BY <1>1, <1>2, <1>4, <2>1, <2>2
    DEF Calm, DoneIsRemembered, Sending, FromTags, FromPublish, FromWatchdog, L!Names, L!Whole,
        L!Nothing
<1>9. InventoryStands'
  <2>1. stage \notin FromPublish /\ stage \notin FromAnswers
    BY <1>1 DEF FromAnswers, FromPublish, FromWatchdog
  <2>2. \A j \in Items : question[j].body = 0 /\ checked["answers"][j] = 0
    BY <2>1 DEF PipeInv, NothingPublished, AnswersReviewed
  <2> QED
    BY <1>1, <2>1, <2>2 DEF InventoryStands, Sending, FromAnswers, FromWatchdog
<1>10. TagsStand'
    BY DEF Sending, Calm, TagsStand, TagsAdopted, FromAdopt, FromAudit, FromTags, FromPublish,
           FromWatchdog, L!Names, L!Whole, L!NoTagsYet, L!NoTags
<1> QED
    BY <1>5, <1>6, <1>7, <1>8, <1>9, <1>10 DEF Calm

LEMMA PublishedCalm ==
    ASSUME PipeInv, Calm, NEW n, n = <<"publish", "whole">>, Sending(n),
           keys' = [keys EXCEPT ![n] = actions[n].expected],
           question' = L!Published, UNCHANGED <<confirmed, item>>
    PROVE  Calm'
<1>1. keys \in [L!Names -> Numbers] /\ n \in L!Names /\ stage = "publish" /\ item \in [Items -> ItemType]
    BY TypesAre DEF PipeInv, Sending, StagesOf
<1>2. keys'[n] = actions[n].expected /\ \A m \in L!Names : m # n => keys'[m] = keys[m]
    BY <1>1
<1>3. \A i \in Items : /\ question'[i].body = item[i].body /\ question'[i].version = 1
                       /\ question'[i].revision = 0
  <2>1. \A i \in Items : item[i].active
    BY DEF Calm, AllThere
  <2> QED
    BY <2>1 DEF L!Published
<1>4. L!Revisions' = L!Revisions
    BY DEF L!Revisions
<1>5. stopped' \notin {"conflict", "changed"} /\ AllThere'
    BY DEF Calm, AllThere, Sending
<1>6. SavesStand'
  <2>1. \A p \in {"paper", "answers"}, i \in Items : n # <<p, i>> /\ keys'[<<p, i>>] = keys[<<p, i>>]
    BY <1>2, NamesAre
  <2>2. \A p \in {"paper", "answers"}, i \in Items : keys[<<p, i>>] # L!Nothing => actions[<<p, i>>].sent
    BY DEF Calm, SavesStand
  <2>3. \A p \in {"paper", "answers"} : stage \notin StagesOf(p)
    BY <1>1 DEF StagesOf
  <2> QED
    BY <2>1, <2>2, <2>3 DEF SavesStand, StagesOf, L!Nothing, Sending
<1>7. PaperStands'
  <2>1. \A w \in {"confirm", "attach", "publish"} : <<w, "whole">> # n => keys'[<<w, "whole">>] = keys[<<w, "whole">>]
    BY <1>2, NamesAre
  <2> QED
    BY <1>1, <1>2, <1>4, <2>1
    DEF Calm, PaperStands, Sending, StagesOf, L!Nothing, BeforeAttach, BeforeConfirm, BeforePaper
<1>8. DoneIsRemembered'
  <2>1. \A m \in L!Names : m[1] # "adopt" /\ actions[m].result => keys'[m] = actions[m].expected
    BY <1>2 DEF Calm, DoneIsRemembered
  <2>2. stage \notin {"confirm_paper", "upload_answers", "wait_answers", "attach_answers"}
    BY <1>1
  <2> QED
    BY <1>2, <1>3, <2>1, <2>2
    DEF DoneIsRemembered, Sending, FromTags, FromPublish, FromWatchdog, L!Names, L!Whole,
        L!Nothing
<1>9. InventoryStands'
    BY <1>3 DEF Calm, InventoryStands, Sending, FromAnswers, FromWatchdog
<1>10. TagsStand'
  <2>1. stage \notin FromAdopt /\ stage \notin FromAudit /\ stage \notin {"verify", "complete"}
    BY <1>1 DEF FromAdopt, FromAudit, FromTags, FromPublish, FromWatchdog
  <2>2. ~\E m \in L!Names : m[1] = "adopt" /\ actions[m].result
    BY <2>1 DEF PipeInv, RunnerFits, RequestsInTime
  <2>3. \A i \in Items : proposal[i].version = 1 \/ proposal[i] = L!NoTagsYet
    BY DEF Calm, TagsStand
  <2> QED
    BY <1>3, <2>1, <2>2, <2>3
    DEF Sending, TagsStand, TagsAdopted, FromAdopt, FromAudit, FromTags, FromPublish,
        FromWatchdog, L!Names, L!Whole, L!NoTagsYet, L!NoTags
<1> QED
    BY <1>5, <1>6, <1>7, <1>8, <1>9, <1>10 DEF Calm

LEMMA AdoptedCalm ==
    ASSUME PipeInv, Calm, NEW n, n = <<"adopt", "whole">>, Sending(n), ~L!Adopted,
           question' = L!Tagged, UNCHANGED <<confirmed, item, keys>>
    PROVE  Calm'
<1>1. stage = "adopt_tags" /\ question \in [Items -> QuestionType] /\ \A i \in Items : item[i].active
    BY TypesAre DEF PipeInv, Sending, StagesOf, Calm, AllThere
<1>2. stage \in FromTags /\ stage \in FromAudit /\ stage \in FromAdopt
    BY <1>1 DEF FromAdopt, FromAudit, FromTags, FromPublish, FromWatchdog
<1>3. ~TagsAdopted
  <2>1. L!ActiveItems = Items
    BY InventoryHolds
  <2> QED
    BY <2>1 DEF L!Adopted, TagsAdopted
<1>4. \A i \in Items : /\ question[i].revision = 0 /\ question[i].version = 1
                       /\ proposal[i].version = 1
    BY <1>2, <1>3 DEF Calm, TagsStand, DoneIsRemembered
<1>5. \A i \in Items : /\ question'[i].body = question[i].body
                       /\ question'[i].version = question[i].version
                       /\ question'[i].revision = 1 /\ question'[i].tags = proposal[i].tags
  <2> SUFFICES ASSUME NEW i \in Items
               PROVE  /\ question'[i].body = question[i].body
                      /\ question'[i].version = question[i].version
                      /\ question'[i].revision = 1 /\ question'[i].tags = proposal[i].tags
    OBVIOUS
  <2>1. question'[i] = [question[i] EXCEPT !.revision = question[i].revision + 1, !.tags = proposal[i].tags]
    BY <1>1 DEF L!Tagged
  <2>2. question[i] \in QuestionType
    BY <1>1
  <2>3. /\ question'[i].body = question[i].body
        /\ question'[i].version = question[i].version
        /\ question'[i].revision = question[i].revision + 1 /\ question'[i].tags = proposal[i].tags
    BY <2>1, <2>2 DEF QuestionType
  <2> QED
    BY <1>4, <2>3
<1>6. L!Revisions' = L!Revisions /\ L!PaperConfirmed' = L!PaperConfirmed
    BY DEF L!Revisions, L!PaperConfirmed, L!Snapshot
<1>7. stopped' \notin {"conflict", "changed"} /\ AllThere'
    BY DEF Calm, AllThere, Sending
<1>8. SavesStand'
    BY DEF Calm, SavesStand, StagesOf, L!Nothing, Sending
<1>9. PaperStands'
    BY <1>6
    DEF Calm, Sending, PaperStands, StagesOf, L!Nothing, BeforeAttach, BeforeConfirm, BeforePaper
<1>10. DoneIsRemembered'
  <2>1. \A i \in Items : question'[i].version = 1
    BY <1>4, <1>5
  <2> QED
    BY <1>6, <2>1
    DEF Calm, Sending, DoneIsRemembered, FromTags, FromPublish, FromWatchdog, L!Names, L!Whole,
        L!Nothing
<1>11. InventoryStands'
    BY <1>5 DEF Calm, InventoryStands, Sending, FromAnswers, FromWatchdog
<1>12. TagsStand'
  <2>1. TagsAdopted'
    BY <1>4, <1>5 DEF Sending, TagsAdopted
  <2>2. /\ \A i \in Items : proposal[i].version = 1 \/ proposal[i] = L!NoTagsYet
        /\ stage \in FromAudit => \A i \in Items : proposal[i].version = 1
    BY DEF Calm, TagsStand
  <2>3. stage' \in FromAdopt
    BY <1>2 DEF Sending
  <2> QED
    BY <2>1, <2>2, <2>3
    DEF Sending, TagsStand, FromAdopt, FromAudit, FromTags, FromPublish, FromWatchdog,
        L!NoTagsYet, L!NoTags
<1> QED
    BY <1>7, <1>8, <1>9, <1>10, <1>11, <1>12 DEF Calm

LEMMA CommitCalm == ASSUME PipeInv, Clean, Calm, L!Commit PROVE Calm'
<1> DEFINE n == runner.name
<1>1. /\ runner.pc = "send" /\ runner' = [runner EXCEPT !.pc = "sent"]
      /\ IF L!Recovers(n) THEN UNCHANGED L!dbVars ELSE L!Apply(n)
      /\ UNCHANGED <<stage, actions, checked, proposal, deferred, stopped>>
    BY DEF L!Commit, L!Running, L!fileVars
<1>2. n \in L!Names /\ stage \in StagesOf(n[1]) /\ actions[n].sent /\ n[1] # "reconfirm"
    BY <1>1 DEF PipeInv, RunnerFits, Acting, Calm, PaperStands
<1>3. n[1] # "defer"
    BY <1>2, NamesAre DEF Clean, L!DeferralAsked
<1>4. Sending(n)
  <2>1. runner \in RunnerType
    BY TypesAre DEF PipeInv
  <2> QED
    BY <1>1, <1>2, <2>1 DEF Sending, RunnerType
<1>5. CASE L!Recovers(n)
  <2>1. UNCHANGED <<item, confirmed, keys, question>>
    BY <1>1, <1>5 DEF L!dbVars
  <2> HIDE DEF n
  <2> QED
    BY <1>2, <1>4, <1>5, <2>1, RecoveredCalm
<1>6. CASE ~L!Recovers(n)
  <2>1. /\ item' = CASE n[1] \in {"paper", "answers"} -> L!Saved(n)
                     [] n[1] = "defer"  -> [item EXCEPT ![n[2]].active = FALSE]
                     [] n[1] = "attach" -> L!Attached
                     [] OTHER -> item
        /\ confirmed' = IF n[1] \in {"confirm", "reconfirm"} THEN confirmed \cup {L!Snapshot} ELSE confirmed
        /\ question' = CASE n[1] = "publish" -> L!Published [] n[1] = "adopt" -> L!Tagged [] OTHER -> question
        /\ keys' = IF n[1] = "adopt" THEN keys ELSE [keys EXCEPT ![n] = actions[n].expected]
    BY <1>1, <1>6 DEF L!Apply
  <2>2. /\ n[1] # "adopt" => keys[n] # actions[n].expected
        /\ n[1] = "adopt" => ~L!Adopted
    BY <1>6 DEF L!Recovers
  <2>3. n[1] \in {"paper", "answers", "confirm", "attach", "publish", "adopt"}
    BY <1>2, <1>3, NamesAre
  <2>4. /\ n[1] \in {"paper", "answers"} => n[2] \in Items /\ n = <<n[1], n[2]>>
        /\ n[1] \notin {"paper", "answers"} => n = <<n[1], "whole">>
    BY <1>2, <1>3, NamesAre
  <2> HIDE DEF n
  <2>5. CASE n[1] \in {"paper", "answers"}
    <3>1. item' = L!Saved(n) /\ confirmed' = confirmed /\ question' = question
          /\ keys' = [keys EXCEPT ![n] = actions[n].expected]
        BY <2>1, <2>5
    <3> QED
        BY <1>4, <2>2, <2>4, <2>5, <3>1, SavedCalm
  <2>6. CASE n[1] = "confirm"
    <3>1. item' = item /\ confirmed' = confirmed \cup {L!Snapshot} /\ question' = question
          /\ keys' = [keys EXCEPT ![n] = actions[n].expected]
        BY <2>1, <2>6
    <3> QED
        BY <1>4, <2>4, <2>6, <3>1, ConfirmedCalm
  <2>7. CASE n[1] = "attach"
    <3>1. item' = L!Attached /\ confirmed' = confirmed /\ question' = question
          /\ keys' = [keys EXCEPT ![n] = actions[n].expected]
        BY <2>1, <2>7
    <3> QED
        BY <1>4, <2>4, <2>7, <3>1, AttachedCalm
  <2>8. CASE n[1] = "publish"
    <3>1. item' = item /\ confirmed' = confirmed /\ question' = L!Published
          /\ keys' = [keys EXCEPT ![n] = actions[n].expected]
        BY <2>1, <2>8
    <3> QED
        BY <1>4, <2>4, <2>8, <3>1, PublishedCalm
  <2>9. CASE n[1] = "adopt"
    <3>1. item' = item /\ confirmed' = confirmed /\ question' = L!Tagged /\ keys' = keys
        BY <2>1, <2>9
    <3> QED
        BY <1>4, <2>2, <2>4, <2>9, <3>1, AdoptedCalm
  <2> QED
    BY <2>3, <2>5, <2>6, <2>7, <2>8, <2>9
<1> QED
    BY <1>5, <1>6

LEMMA NoteItemCalm == ASSUME PipeInv, Clean, Calm, L!NoteItem PROVE Calm'
<1> DEFINE n == runner.name
           i == n[2]
           p == n[1]
           e == actions[n].expected
<1>1. /\ runner.pc = "saved" /\ i # "whole" /\ runner' = L!Ready
      /\ p # "defer" => checked' = [checked EXCEPT ![p][i] = e[i] + 1] /\ deferred' = deferred /\ stage' = stage
      /\ UNCHANGED <<actions, proposal, stopped, item, confirmed, keys, question>>
    BY DEF L!NoteItem, L!Running, L!dbVars, L!Whole, L!SavedBody
<1>2. n \in L!Names /\ stage \in StagesOf(p) /\ actions[n].sent
    BY <1>1 DEF PipeInv, RunnerFits, Acting
<1>3. p # "defer"
    BY <1>2, NamesAre DEF Clean, L!DeferralAsked
<1>4. p \in {"paper", "answers"} /\ i \in Items /\ n = <<p, i>>
    BY <1>1, <1>2, <1>3, NamesAre
<1>5. /\ checked \in [{"paper", "answers"} -> Numbers] /\ e \in Numbers
      /\ runner'.pc = "ready"
    BY <1>1, <1>2, TypesAre, ValuesAre DEF PipeInv, ActionType
<1>6. item[i].body = e[i] + 1
  <2>1. keys[n] = e
    BY <1>1, <1>4 DEF Calm, DoneIsRemembered
  <2>2. /\ e[i] >= 1
        /\ \/ item[i].body = e[i] + 1
           \/ keys[n] = L!Nothing
    <3> HIDE DEF n, p, i
    <3> QED
        BY <1>2, <1>4 DEF Calm, SavesStand
  <2>3. L!Nothing[i] = 0
    BY <1>4, ValuesAre DEF PipeInv
  <2> QED
    BY <2>1, <2>2, <2>3
<1>7. /\ checked'[p][i] = item[i].body
      /\ \A q \in {"paper", "answers"}, j \in Items : q # p \/ j # i => checked'[q][j] = checked[q][j]
  <2>1. checked' = [checked EXCEPT ![p] = [checked[p] EXCEPT ![i] = e[i] + 1]]
    BY <1>1, <1>3, <1>4, <1>5
  <2>2. checked[p] \in [Items -> Nat]
    BY <1>4, <1>5 DEF Numbers
  <2> HIDE DEF p, i, e
  <2> QED
    BY <1>4, <1>5, <1>6, <2>1, <2>2
<1> HIDE DEF n, i, p, e
<1>8. L!Revisions' = L!Revisions /\ L!PaperConfirmed' = L!PaperConfirmed
    BY <1>1 DEF L!Revisions, L!PaperConfirmed, L!Snapshot
<1>9. stopped' \notin {"conflict", "changed"} /\ AllThere' /\ stage' = stage
    BY <1>1, <1>3 DEF Calm, AllThere
<1>10. SavesStand'
    BY <1>1, <1>3, <1>5 DEF Calm, SavesStand, StagesOf, L!Nothing
<1>11. PaperStands'
    BY <1>1, <1>3, <1>5, <1>8
    DEF Calm, PaperStands, StagesOf, L!Nothing, BeforeAttach, BeforeConfirm, BeforePaper
<1>12. DoneIsRemembered'
    BY <1>1, <1>3, <1>5, <1>8
    DEF Calm, DoneIsRemembered, FromTags, FromPublish, FromWatchdog, L!Names, L!Whole, L!Nothing
<1>13. InventoryStands'
  <2>1. p = "paper" => stage \notin FromAnswers
    BY <1>2 DEF StagesOf, FromAnswers, FromWatchdog
  <2>2. stage \in FromAnswers => \A j \in Items : checked'["paper"][j] = 0
    BY <1>4, <1>7, <2>1 DEF Calm, InventoryStands
  <2>3. stage # "attach_answers" => \A j \in Items :
           checked'["paper"][j] # 0 => checked'["paper"][j] = item[j].body
    BY <1>7 DEF Calm, InventoryStands
  <2>4. \A j \in Items : checked'["answers"][j] # 0 => checked'["answers"][j] = item[j].body
    BY <1>7 DEF Calm, InventoryStands
  <2> QED
    BY <1>1, <1>9, <2>2, <2>3, <2>4 DEF Calm, InventoryStands, FromAnswers, FromWatchdog
<1>14. TagsStand'
    BY <1>1, <1>3, <1>5
    DEF Calm, TagsStand, TagsAdopted, FromAdopt, FromAudit, FromTags, FromPublish, FromWatchdog,
        L!Names, L!Whole, L!NoTagsYet, L!NoTags
<1> QED
    BY <1>9, <1>10, <1>11, <1>12, <1>13, <1>14 DEF Calm

\* The next stage finds what the one before it left.
LEMMA StageCalm ==
    ASSUME PipeInv, Calm, L!Advance, stage # "complete",
           UNCHANGED <<actions, proposal, deferred, stopped, item, confirmed, keys, question>>,
           checked'["answers"] = checked["answers"],
           \/ checked'["paper"] = checked["paper"] /\ stage # "attach_answers"
           \/ checked'["paper"] = L!Nothing,
           stage = "confirm_paper" => L!PaperConfirmed,
           stage = "publish" => \A i \in Items : question[i].version = 1,
           stage = "generate_tags" => \A i \in Items : proposal[i].version = 1,
           stage \in {"adopt_tags", "verify"} => TagsAdopted
    PROVE  Calm'
<1>1. stage' = L!After(stage) /\ runner' = L!Ready
    BY DEF L!Advance
<1>2. runner'.pc = "ready" /\ stage \in StageNames /\ \A i \in Items : L!Nothing[i] = 0
    BY <1>1, ValuesAre, TypesAre DEF PipeInv
<1>3. /\ stage' \in FromAnswers <=> stage \in FromAnswers \/ stage = "attach_answers"
      /\ stage' \in FromTags <=> stage \in FromTags \/ stage = "publish"
      /\ stage' \in FromAudit <=> stage \in FromAudit \/ stage = "generate_tags"
      /\ stage \in FromAdopt => stage' \in FromAdopt
      /\ stage' \in {"verify", "complete"} <=> stage \in {"adopt_tags", "verify"}
      /\ stage' \in BeforeAttach => stage \in BeforeAttach
      /\ stage' = "review_paper" <=> stage = "wait_paper"
      /\ stage' = "review_answers" <=> stage = "attach_answers"
      /\ stage' = "confirm_paper" <=> stage = "review_paper"
      /\ stage' = "attach_answers" <=> stage = "wait_answers"
      /\ stage' = "publish" <=> stage = "watchdog_content"
      /\ stage' \in {"upload_answers", "wait_answers", "attach_answers"}
            <=> stage \in {"confirm_paper", "upload_answers", "wait_answers"}
  <2> USE DEF FromWatchdog, FromAnswers, FromPublish, FromTags, FromAudit, FromAdopt, BeforePaper,
              BeforeConfirm, BeforeAttach
  <2>1. CASE stage \in BeforeAttach
    BY <1>1, <2>1, StagesAre
  <2>2. CASE stage \in {"attach_answers", "review_answers", "watchdog_content", "publish"}
    BY <1>1, <2>2, StagesAre
  <2>3. CASE stage \in {"generate_tags", "watchdog_tags", "adopt_tags", "verify"}
    BY <1>1, <2>3, StagesAre
  <2> QED
    BY <1>2, <2>1, <2>2, <2>3 DEF StageNames
<1>4. L!Revisions' = L!Revisions /\ L!PaperConfirmed' = L!PaperConfirmed
    BY DEF L!Revisions, L!PaperConfirmed, L!Snapshot
<1>5. stopped' \notin {"conflict", "changed"} /\ AllThere'
    BY DEF Calm, AllThere
<1>6. SavesStand'
  <2>1. ASSUME NEW p \in {"paper", "answers"}, NEW i \in Items
        PROVE  /\ keys[<<p, i>>] # L!Nothing => actions[<<p, i>>].sent
               /\ ~(stage' \in StagesOf(p) /\ actions[<<p, i>>].sent)
    <3>1. keys[<<p, i>>] # L!Nothing => actions[<<p, i>>].sent
        BY DEF Calm, SavesStand
    <3>2. /\ p = "paper" /\ actions[<<p, i>>].sent => stage \notin BeforePaper
          /\ p = "answers" /\ actions[<<p, i>>].sent => stage \in FromAnswers
        BY NamesAre DEF PipeInv, RequestsInTime
    <3>3. stage' \in StagesOf(p) => stage = (IF p = "paper" THEN "wait_paper" ELSE "attach_answers")
        BY <1>3 DEF StagesOf
    <3> QED
        BY <3>1, <3>2, <3>3 DEF BeforePaper, FromAnswers, FromWatchdog
  <2> QED
    BY <1>2, <2>1 DEF SavesStand, StagesOf, L!Nothing
<1>7. PaperStands'
  <2>1. ASSUME NEW w \in {"confirm", "attach", "publish"}
        PROVE  /\ keys[<<w, "whole">>] # L!Nothing => actions[<<w, "whole">>].sent
               /\ ~(stage' \in StagesOf(w) /\ actions[<<w, "whole">>].sent)
    <3>1. keys[<<w, "whole">>] # L!Nothing => actions[<<w, "whole">>].sent
        BY DEF Calm, PaperStands
    <3>2. /\ w = "confirm" /\ actions[<<w, "whole">>].sent => stage \notin BeforeConfirm
          /\ w = "publish" /\ actions[<<w, "whole">>].sent => stage \in FromPublish
          /\ w = "attach" /\ actions[<<w, "whole">>].sent => stage \notin BeforeAttach
        BY NamesAre DEF PipeInv, RequestsInTime, Calm, PaperStands
    <3>3. stage' \in StagesOf(w) => stage = (CASE w = "confirm" -> "review_paper"
                                               [] w = "attach" -> "wait_answers"
                                               [] w = "publish" -> "watchdog_content")
        BY <1>3 DEF StagesOf
    <3> QED
        BY <3>1, <3>2, <3>3 DEF BeforePaper, BeforeConfirm, BeforeAttach, FromPublish, FromWatchdog
  <2>2. actions[<<"attach", "whole">>].sent => stage' \notin BeforeAttach
    BY <1>3 DEF Calm, PaperStands
  <2> QED
    BY <1>2, <2>1, <2>2
    DEF PaperStands, StagesOf, L!Nothing, BeforeAttach, BeforeConfirm, BeforePaper
<1>8. DoneIsRemembered'
  <2>1. stage' \in {"upload_answers", "wait_answers", "attach_answers"} => L!PaperConfirmed
    BY <1>3 DEF Calm, DoneIsRemembered
  <2>2. keys[<<"confirm", "whole">>] # L!Nothing => stage' # "confirm_paper"
    <3>1. keys[<<"confirm", "whole">>] # L!Nothing => actions[<<"confirm", "whole">>].sent
        BY DEF Calm, PaperStands
    <3>2. actions[<<"confirm", "whole">>].sent => stage \notin BeforeConfirm
        BY NamesAre DEF PipeInv, RequestsInTime
    <3> QED
        BY <1>3, <3>1, <3>2 DEF BeforeConfirm
  <2>3. stage' \in FromTags => \A i \in Items : question[i].version = 1
    BY <1>3 DEF Calm, DoneIsRemembered
  <2>4. /\ \A n \in L!Names : n[1] # "adopt" /\ actions[n].result => keys[n] = actions[n].expected
        /\ keys[<<"publish", "whole">>] # L!Nothing => \A i \in Items : question[i].version = 1
    BY DEF Calm, DoneIsRemembered
  <2> QED
    BY <1>2, <1>4, <2>1, <2>2, <2>3, <2>4
    DEF DoneIsRemembered, FromTags, FromPublish, FromWatchdog, L!Names, L!Whole, L!Nothing
<1>9. InventoryStands'
    BY <1>2, <1>3 DEF Calm, InventoryStands, FromAnswers, FromWatchdog
<1>10. TagsStand'
  <2>1. stage' \in FromAudit => \A i \in Items : proposal[i].version = 1
    BY <1>3 DEF Calm, TagsStand
  <2>2. /\ \/ \A i \in Items : question[i].revision = 0
           \/ stage' \in FromAdopt /\ TagsAdopted
        /\ \/ stage' \in {"verify", "complete"}
           \/ (\E n \in L!Names : n[1] = "adopt" /\ actions[n].result)
             => TagsAdopted
        /\ \A i \in Items : proposal[i].version = 1 \/ proposal[i] = L!NoTagsYet
    BY <1>3 DEF Calm, TagsStand
  <2>3. stage' \in {"verify", "complete"} => TagsAdopted
    BY <1>3
  <2>4. (\E n \in L!Names : n[1] = "adopt" /\ actions[n].result) => TagsAdopted
    BY DEF Calm, TagsStand
  <2>5. TagsAdopted' <=> TagsAdopted
    BY DEF TagsAdopted
  <2> QED
    BY <1>2, <2>1, <2>2, <2>3, <2>4, <2>5
    DEF TagsStand, FromAdopt, FromAudit, FromTags, FromPublish, FromWatchdog, L!Names, L!Whole,
        L!NoTagsYet, L!NoTags
<1> QED
    BY <1>5, <1>6, <1>7, <1>8, <1>9, <1>10 DEF Calm

LEMMA StagesCalm ==
    ASSUME PipeInv, Calm,
           L!EndStage \/ L!Uploads \/ L!Waits \/ L!Reviewed \/ L!Watched \/ L!AllProposed \/ L!Verify
    PROVE  Calm'
<1> DEFINE Rest == UNCHANGED <<actions, proposal, deferred, stopped, item, confirmed, keys, question>>
<1>1. checked \in [{"paper", "answers"} -> Numbers] /\ L!Nothing \in Numbers
    BY TypesAre, ValuesAre DEF PipeInv
<1>2. ASSUME L!Advance, Rest, checked' = checked,
             stage \notin {"complete", "attach_answers", "confirm_paper", "publish", "generate_tags", "adopt_tags"},
             stage = "verify" => TagsAdopted
      PROVE  Calm'
    BY <1>2, StageCalm
<1>3. CASE L!EndStage
  <2> DEFINE n == runner.name
  <2>1. /\ runner.pc = "saved" /\ n[2] = "whole" /\ L!Advance /\ Rest
        /\ checked' = IF n[1] = "attach" THEN [checked EXCEPT !["paper"] = L!Nothing]
                      ELSE checked
    BY <1>3 DEF L!EndStage, L!Running, L!Whole, L!dbVars
  <2>2. n \in L!Names /\ stage \in StagesOf(n[1]) /\ actions[n].sent /\ n[1] # "reconfirm"
    BY <2>1 DEF PipeInv, RunnerFits, Acting, Calm, PaperStands
  <2>3. n[1] \in {"confirm", "attach", "publish", "adopt"} /\ n = <<n[1], "whole">>
    BY <2>1, <2>2, NamesAre
  <2>4. n[1] # "adopt" => keys[n] = actions[n].expected
    BY <2>1 DEF Calm, DoneIsRemembered
  <2>5. n[1] # "adopt" => keys[n] # L!Nothing
    <3> SUFFICES ASSUME n[1] # "adopt" PROVE keys[n] # L!Nothing
        OBVIOUS
    <3>1. \E i \in Items : actions[n].expected[i] # 0
        BY <2>2, <2>3 DEF Calm, PaperStands
    <3>2. \A i \in Items : L!Nothing[i] = 0
        BY ValuesAre DEF PipeInv
    <3> QED
        BY <2>4, <3>1, <3>2
  <2> HIDE DEF n
  <2>6. n[1] = "confirm" => stage = "confirm_paper" /\ L!PaperConfirmed
    BY <2>2, <2>3, <2>5 DEF Calm, DoneIsRemembered, StagesOf
  <2>7. n[1] = "attach" => stage = "attach_answers" /\ checked'["paper"] = L!Nothing
    BY <1>1, <2>1, <2>2 DEF StagesOf
  <2>8. n[1] = "publish" => stage = "publish" /\ \A i \in Items : question[i].version = 1
    BY <2>2, <2>3, <2>5 DEF Calm, DoneIsRemembered, StagesOf
  <2>9. n[1] = "adopt" => stage = "adopt_tags" /\ TagsAdopted
    BY <2>1, <2>2 DEF Calm, TagsStand, StagesOf, n
  <2>10. /\ checked'["answers"] = checked["answers"]
         /\ n[1] # "attach" => checked'["paper"] = checked["paper"]
    BY <1>1, <2>1
  <2>11. CASE n[1] = "attach"
    BY <2>1, <2>7, <2>10, <2>11, StageCalm
  <2>12. CASE n[1] = "confirm"
    BY <2>1, <2>6, <2>10, <2>12, StageCalm
  <2>13. CASE n[1] = "publish"
    BY <2>1, <2>8, <2>10, <2>13, StageCalm
  <2>14. CASE n[1] = "adopt"
    BY <2>1, <2>9, <2>10, <2>14, StageCalm
  <2> QED
    BY <2>3, <2>11, <2>12, <2>13, <2>14
<1>4. CASE L!Uploads
  <2>1. stage \in {"upload_paper", "upload_answers"} /\ L!Advance /\ Rest /\ checked' = checked
    BY <1>4 DEF L!Uploads, L!Upload
  <2> HIDE DEF Rest
  <2> QED
    BY <1>2, <2>1
<1>5. CASE L!Waits
  <2>1. \/ stage \in {"wait_paper", "wait_answers"} /\ L!Advance /\ Rest /\ checked' = checked
        \/ L!Halt("conversion")
    BY <1>5 DEF L!Waits, L!Wait, L!dbVars
  <2> HIDE DEF Rest
  <2> QED
    BY <1>2, <2>1, HaltCalm
<1>6. CASE L!Reviewed
  <2>1. stage \in {"review_paper", "review_answers"} /\ L!Advance /\ Rest /\ checked' = checked
    BY <1>6 DEF L!Reviewed, L!AllReviewed, L!Inspecting, L!At, L!ReviewStage, L!dbVars
  <2> HIDE DEF Rest
  <2> QED
    BY <1>2, <2>1
<1>7. CASE L!Watched
  <2>1. stage \in {"watchdog_content", "watchdog_tags"} /\ L!Advance /\ Rest /\ checked' = checked
    BY <1>7 DEF L!Watched, L!AllWatched, L!Inspecting, L!At, L!WatchStage, L!dbVars
  <2> HIDE DEF Rest
  <2> QED
    BY <1>2, <2>1
<1>8. CASE L!AllProposed
  <2>1. /\ stage = "generate_tags" /\ L!Advance /\ Rest /\ checked' = checked
        /\ \A i \in L!ActiveItems : proposal[i] # L!NoTagsYet
    BY <1>8 DEF L!AllProposed, L!At, L!dbVars
  <2>2. \A i \in Items : proposal[i].version = 1
    BY <2>1, InventoryHolds DEF Calm, TagsStand
  <2> QED
    BY <2>1, <2>2, StageCalm
<1>9. CASE L!Verify
  <2>1. stage = "verify"
    BY <1>9 DEF L!Verify, L!Inspecting, L!At
  <2>2. TagsAdopted
    BY <2>1 DEF Calm, TagsStand
  <2>3. L!Adopted
    BY <2>2, InventoryHolds DEF L!Adopted, TagsAdopted
  <2>4. L!Advance /\ Rest /\ checked' = checked
    BY <1>9, <2>3 DEF L!Verify, L!dbVars
  <2> HIDE DEF Rest
  <2> QED
    BY <1>2, <2>1, <2>2, <2>4
<1> QED
    BY <1>3, <1>4, <1>5, <1>6, <1>7, <1>8, <1>9

\* Tags are proposed and corrected before they are adopted.
LEMMA TagsCalm == ASSUME PipeInv, Calm, L!Proposing \/ L!Correcting PROVE Calm'
<1> DEFINE Rest == UNCHANGED <<stage, actions, checked, deferred, stopped, runner, item, confirmed, keys, question>>
<1>1. /\ proposal \in [Items -> ProposalType]
    BY TypesAre DEF PipeInv
<1>2. ASSUME Rest, stage \in {"generate_tags", "watchdog_tags"},
             \A i \in Items : proposal'[i].version = 1 \/ proposal'[i] = L!NoTagsYet,
             stage \in FromAudit => \A i \in Items : proposal'[i].version = 1
      PROVE  Calm'
  <2>1. L!Revisions' = L!Revisions /\ L!PaperConfirmed' = L!PaperConfirmed
    BY <1>2 DEF L!Revisions, L!PaperConfirmed, L!Snapshot
  <2>2. stopped' \notin {"conflict", "changed"} /\ AllThere' /\ InventoryStands'
    BY <1>2 DEF Calm, AllThere, InventoryStands, FromAnswers, FromWatchdog
  <2>3. SavesStand'
    BY <1>2 DEF Calm, SavesStand, StagesOf, L!Nothing
  <2>4. PaperStands'
    BY <1>2, <2>1
    DEF Calm, PaperStands, StagesOf, L!Nothing, BeforeAttach, BeforeConfirm, BeforePaper
  <2>5. DoneIsRemembered'
    BY <1>2, <2>1
    DEF Calm, DoneIsRemembered, FromTags, FromPublish, FromWatchdog, L!Names, L!Whole, L!Nothing
  <2>6. TagsStand'
    <3>1. stage \notin FromAdopt /\ stage \notin {"verify", "complete"} /\ stage \notin StagesOf("adopt")
        BY <1>2 DEF FromAdopt, FromAudit, FromTags, FromPublish, FromWatchdog, StagesOf
    <3>2. ~\E n \in L!Names : n[1] = "adopt" /\ actions[n].result
        BY <3>1 DEF PipeInv, RunnerFits, RequestsInTime
    <3>3. ~(runner.pc \in {"sent", "saved"} /\ runner.name[1] = "adopt")
        BY <3>1 DEF PipeInv, RunnerFits
    <3>4. \A i \in Items : question[i].revision = 0
        BY <3>1 DEF Calm, TagsStand
    <3> QED
        BY <1>2, <3>1, <3>2, <3>3, <3>4
        DEF TagsStand, FromAdopt, FromAudit, FromTags, FromPublish, FromWatchdog, L!Names,
            L!Whole, L!NoTagsYet, L!NoTags
  <2> QED
    BY <2>2, <2>3, <2>4, <2>5, <2>6 DEF Calm
<1>3. CASE L!Proposing
  <2>1. PICK i \in Items : L!Propose(i)
    BY <1>3 DEF L!Proposing
  <2>2. stage = "generate_tags"
    BY <2>1 DEF L!Propose, L!At
  <2>3. stage \in FromTags /\ stage \notin FromAudit /\ stage \notin FromAdopt
    BY <2>2 DEF FromAdopt, FromAudit, FromTags, FromPublish, FromWatchdog
  <2>4. question[i].revision = 0 /\ question[i].version = 1
    BY <2>3 DEF Calm, TagsStand, DoneIsRemembered
  <2>5. /\ Rest
        /\ \E t \in Choices : proposal' = [proposal EXCEPT ![i] = [tags |-> t, version |-> question[i].version]]
    BY <2>1, <2>4 DEF L!Propose, L!dbVars
  <2>6. \A j \in Items : proposal'[j].version = 1 \/ proposal'[j] = L!NoTagsYet
    <3>1. \A j \in Items : proposal[j].version = 1 \/ proposal[j] = L!NoTagsYet
        BY DEF Calm, TagsStand
    <3> QED
        BY <1>1, <2>4, <2>5, <3>1
  <2> HIDE DEF Rest
  <2> QED
    BY <1>2, <2>2, <2>3, <2>5, <2>6
<1>4. CASE L!Correcting
  <2>1. PICK i \in Items : L!AgentTagReview(i)
    BY <1>4 DEF L!Correcting
  <2>2. /\ stage = "watchdog_tags" /\ Rest
        /\ \E t \in Choices \ {proposal[i].tags} : proposal' = [proposal EXCEPT ![i].tags = t]
    BY <2>1 DEF L!AgentTagReview, L!dbVars
  <2>3. stage \in FromAudit
    BY <2>2 DEF FromAdopt, FromAudit, FromTags, FromPublish, FromWatchdog
  <2>4. \A j \in Items : proposal[j].version = 1
    BY <2>3 DEF Calm, TagsStand
  <2>5. \A j \in Items : proposal'[j].version = 1
    BY <1>1, <2>2, <2>4 DEF ProposalType
  <2> HIDE DEF Rest
  <2> QED
    BY <1>2, <2>2, <2>5
<1> QED
    BY <1>3, <1>4

LEMMA CleanStarts == ASSUME L!PipelineInit, L!PipelineAssumption PROVE CleanInv
<1> USE DEF L!PipelineInit
<1>1. PipeInv
    BY PipeStarts
<1>2. /\ L!NoAction.sent = FALSE /\ L!NoAction.result = FALSE /\ \A i \in Items : L!Nothing[i] = 0
    BY DEF L!NoAction, L!Nothing
<1>3. \A n \in L!Names : actions[n] = L!NoAction /\ keys[n] = L!Nothing
    OBVIOUS
<1>4. /\ runner.pc = "off" /\ checked["answers"] = L!Nothing /\ checked["paper"] = L!Nothing
      /\ stage = "upload_paper"
    BY DEF L!Off
<1>5. \A i \in Items : /\ item[i].active /\ question[i].body = 0 /\ question[i].revision = 0
                       /\ proposal[i] = L!NoTagsYet
    OBVIOUS
<1>6. deferred = {} /\ stopped = ""
    OBVIOUS
<1> HIDE DEF L!PipelineInit
<1>7. AllThere /\ SavesStand /\ PaperStands
    BY <1>2, <1>3, <1>4, <1>5, <1>6, NamesAre DEF AllThere, SavesStand, PaperStands, StagesOf
<1>8. DoneIsRemembered
    BY <1>2, <1>3, <1>4, NamesAre DEF DoneIsRemembered, FromTags, FromPublish, FromWatchdog
<1>9. InventoryStands
    BY <1>2, <1>4, <1>5 DEF InventoryStands
<1>10. TagsStand
    BY <1>2, <1>3, <1>4, <1>5
    DEF TagsStand, FromAdopt, FromAudit, FromTags, FromPublish, FromWatchdog
<1> QED
    BY <1>6, <1>7, <1>8, <1>9, <1>10 DEF CleanInv, Calm

LEMMA CleanStep == ASSUME PipeInv, CleanInv, L!PipelineNext PROVE CleanInv'
<1> SUFFICES ASSUME Clean' PROVE Calm'
    BY DEF CleanInv, Clean, L!DeferralAsked, Calm, AllThere, SavesStand, PaperStands,
           DoneIsRemembered, InventoryStands, TagsStand
<1>1. Clean
    BY CleanBefore
<1>2. Calm
    BY <1>1 DEF CleanInv
<1>3. ~L!Editing
  <2>1. L!Editing => edits' = edits + 1
    BY DEF L!Editing, L!EditCandidate, L!EditQuestion
  <2>2. edits = 0 /\ edits' = 0
    BY <1>1 DEF Clean
  <2> QED
    BY <2>1, <2>2
<1> QED
    BY <1>1, <1>2, <1>3, TurnsCalm, ReviewsCalm, AnswersCalm, RequestsCalm, PersistCalm, SaveResultCalm,
       CommitCalm, NoteItemCalm, StagesCalm, TagsCalm DEF L!PipelineNext

LEMMA CleanHolds == ASSUME PipeInv, CleanInv PROVE L!CrashesAreHarmless
<1>1. edits \in Nat
    BY TypesAre DEF PipeInv
<1> QED
    BY <1>1 DEF CleanInv, Clean, Calm, L!CrashesAreHarmless

-----------------------------------------------------------------------------
(***************************************************************************)
(* The schema. Steps before the one a server is at are whole, so a server  *)
(* that is up has all its steps; the deriving steps are one transaction    *)
(* each and derive nothing when they are repeated.                         *)
(***************************************************************************)
\* The step at place i of a server's list.
Step(i) == (S!CommonSteps \o S!ServerSteps)[i]

\* The name of the graph's step, which is recorded before the step is whole.
Graph == "connected_learning_graph"
Derived == {"learning_state", "response_evidence", "choice_statistics"}

\* What the argument needs of a step: the graph's is always applied, and those
\* that derive rows are one transaction and cannot be done twice.
Careful(s) ==
    /\ s.looks => s.name # Graph
    /\ s.name = Graph => ~s.atomic
    /\ s.name \in Derived => s.atomic /\ (s.repeats => s.rechecks)

\* All steps, by name.
StepSet ==
    {S!Core, S!DocumentIngestion, S!TaggingQueue, S!QuestionBank, S!BankFilters,
     S!FirstWrongDiagnosis, S!LearningGraph, S!ReasoningDiagnosis, S!WrongCauses,
     S!AdaptiveDiagnosis, S!SharedGoals, S!ExamReview, S!Outcomes, S!ResponseEvidence,
     S!ExamWorkflow, S!ScanProgress, S!UnmatchedCards, S!ChoiceStatistics, S!StudentLearning}

LEMMA ListsAre ==
    /\ S!CommonSteps \in Seq(StepSet) /\ Len(S!CommonSteps) = 12
    /\ S!ServerSteps \in Seq(StepSet) /\ Len(S!ServerSteps) = 7
    BY DEF StepSet, S!CommonSteps, S!ServerSteps

LEMMA ConcatIs ==
    /\ Len(S!CommonSteps \o S!ServerSteps) = 19
    /\ \A i \in 1..12 : Step(i) = S!CommonSteps[i]
    /\ \A i \in 13..19 : Step(i) = S!ServerSteps[i - 12]
<1>1. ASSUME NEW s \in Seq(StepSet), NEW t \in Seq(StepSet), Len(s) = 12, Len(t) = 7
      PROVE  /\ Len(s \o t) = 19
             /\ \A i \in 1..12 : (s \o t)[i] = s[i]
             /\ \A i \in 13..19 : (s \o t)[i] = t[i - 12]
  <2>1. /\ Len(s \o t) = Len(s) + Len(t)
        /\ \A i \in 1..Len(s) + Len(t) :
              (s \o t)[i] = IF i <= Len(s) THEN s[i] ELSE t[i - Len(s)]
    BY ConcatProperties
  <2>2. \A i \in 1..12 : i \in 1..Len(s) + Len(t) /\ i <= Len(s)
    BY <1>1
  <2>3. \A i \in 13..19 : i \in 1..Len(s) + Len(t) /\ ~(i <= Len(s))
    BY <1>1
  <2>4. \A i \in 13..19 : (s \o t)[i] = t[i - 12]
    BY <1>1, <2>1, <2>3, Zenon
  <2>5. \A i \in 1..12 : (s \o t)[i] = s[i]
    BY <2>1, <2>2, Zenon
  <2>6. Len(s) + Len(t) = 19
    BY <1>1
  <2> QED
    BY <2>1, <2>4, <2>5, <2>6, Zenon
<1> QED
    BY <1>1, ListsAre DEF Step

LEMMA CommonCareful == \A i \in 1..12 : Careful(S!CommonSteps[i])
<1> SUFFICES ASSUME NEW i \in 1..12 PROVE Careful(S!CommonSteps[i])
    OBVIOUS
<1>1. i \in {1, 2, 3, 4, 5, 6, 7, 8, 9, 10, 11, 12}
    OBVIOUS
<1> QED
    BY <1>1 DEF Careful, Graph, Derived, S!CommonSteps, S!Core, S!DocumentIngestion, S!TaggingQueue,
       S!QuestionBank, S!BankFilters, S!FirstWrongDiagnosis, S!LearningGraph, S!ReasoningDiagnosis,
       S!WrongCauses, S!AdaptiveDiagnosis, S!SharedGoals, S!ExamReview, S!Script, S!Transaction

LEMMA ServerCareful == \A i \in 1..7 : Careful(S!ServerSteps[i])
<1> SUFFICES ASSUME NEW i \in 1..7 PROVE Careful(S!ServerSteps[i])
    OBVIOUS
<1>1. i \in {1, 2, 3, 4, 5, 6, 7}
    OBVIOUS
<1> QED
    BY <1>1 DEF Careful, Graph, Derived, S!ServerSteps, S!Outcomes,
       S!ResponseEvidence, S!ExamWorkflow, S!ScanProgress, S!UnmatchedCards, S!ChoiceStatistics,
       S!StudentLearning, S!Script, S!Transaction

LEMMA StepsAreCareful ==
    \A p : /\ Len(S!Steps(p)) \in 12..19
           /\ \A i \in 1..Len(S!Steps(p)) :
                 Careful(S!Steps(p)[i]) /\ S!Steps(p)[i].name \in S!AllSteps
<1> SUFFICES ASSUME NEW p
             PROVE  /\ Len(S!Steps(p)) \in 12..19
                    /\ \A i \in 1..Len(S!Steps(p)) :
                          Careful(S!Steps(p)[i]) /\ S!Steps(p)[i].name \in S!AllSteps
    OBVIOUS
<1>1. \A i \in 1..19 : Careful(Step(i)) /\ Step(i).name \in S!AllSteps
  <2>1. \A i \in 1..19 : Step(i).name \in S!AllSteps
    BY DEF Step, S!AllSteps
  <2>2. \A i \in 1..12 : Careful(Step(i))
    BY CommonCareful, ConcatIs
  <2>3. \A i \in 13..19 : i - 12 \in 1..7
    OBVIOUS
  <2>4. \A i \in 13..19 : Careful(Step(i))
    BY <2>3, ServerCareful, ConcatIs
  <2> QED
    BY <2>1, <2>2, <2>4
<1>2. CASE p \in Servers
  <2>1. S!Steps(p) = S!CommonSteps \o S!ServerSteps
    BY <1>2 DEF S!Steps
  <2>2. \A i \in 1..19 : S!Steps(p)[i] = Step(i)
    BY <2>1 DEF Step
  <2>3. Len(S!Steps(p)) = 19
    BY <2>1, ConcatIs
  <2> QED
    BY <1>1, <2>2, <2>3
<1>3. CASE p \notin Servers
  <2>1. S!Steps(p) = S!CommonSteps
    BY <1>3 DEF S!Steps
  <2>2. \A i \in 1..12 : S!Steps(p)[i] = Step(i)
    BY <2>1, ConcatIs
  <2>3. Len(S!Steps(p)) = 12
    BY <2>1, ListsAre
  <2> QED
    BY <1>1, <2>2, <2>3
<1> QED
    BY <1>2, <1>3

-----------------------------------------------------------------------------
\* The values of the schema's variables that the argument needs.
SchemaTyped ==
    /\ S!SchemaTypeOK
    /\ \A p \in Programs : phase[p] \in {"look", "apply", "half"} => index[p] <= Len(S!Steps(p))

\* What is whole is recorded, and what is recorded is whole but for the graph's step.
RecordedIsWhole == /\ whole \subseteq recorded
                   /\ recorded \ {Graph} \subseteq whole

\* A program has every step before the one it is at; one that is up has them all.
BehindIsWhole ==
    \A p \in Programs : phase[p] # "off" =>
       /\ \A i \in 1..Len(S!Steps(p)) : i < index[p] => S!Steps(p)[i].name \in whole
       /\ phase[p] = "up" => index[p] = Len(S!Steps(p)) + 1

\* Only a script is ever half done.
HalfIsScript == \A p \in Programs : phase[p] = "half" => ~S!Here(p).atomic

\* Derived rows were made once if their step is whole, and never before.
DerivedOnce == \A n \in Derived : times[n] = (IF n \in whole THEN 1 ELSE 0)

SchemaInv == SchemaTyped /\ RecordedIsWhole /\ BehindIsWhole /\ HalfIsScript /\ DerivedOnce

-----------------------------------------------------------------------------
LEMMA DerivedAreSteps == Derived \subseteq S!AllSteps
<1>1. S!AllSteps = {Step(i).name : i \in 1..19}
    BY DEF S!AllSteps, Step
<1>2. Step(13) = S!ServerSteps[1] /\ Step(14) = S!ServerSteps[2] /\ Step(18) = S!ServerSteps[6]
    BY ConcatIs
<1>3. /\ Step(13).name = "learning_state" /\ Step(14).name = "response_evidence"
      /\ Step(18).name = "choice_statistics"
    BY <1>2 DEF S!ServerSteps, S!Outcomes, S!ResponseEvidence, S!ChoiceStatistics, S!Transaction
<1> QED
    BY <1>1, <1>3 DEF Derived

LEMMA SchemaStarts ==
    ASSUME S!SchemaInit, MaxStarts \in Nat
    PROVE  SchemaInv
<1>1. S!AllSteps = {Step(i).name : i \in 1..19}
    BY DEF S!AllSteps, Step
<1>2. /\ index = [p \in Programs |-> 1] /\ phase = [p \in Programs |-> "off"] /\ starts = 0
    BY DEF S!SchemaInit
<1>3. PICK n \in {0, 1, 4} : S!FileWith(n)
    BY DEF S!SchemaInit
<1>4. \A i \in 1..n : i \in 1..12
    BY <1>3
<1>5. {S!CommonSteps[i].name : i \in 1..n} \subseteq S!AllSteps
  <2>1. \A i \in 1..n : i \in 1..19
    BY <1>4
  <2>2. \A i \in 1..n : S!CommonSteps[i] = Step(i)
    BY <1>4, ConcatIs, Zenon
  <2> QED
    BY <1>1, <2>1, <2>2
<1>6. \A i \in 1..n : i \in {1, 2, 3, 4}
    BY <1>3
<1>7. \A i \in {1, 2, 3, 4} : S!CommonSteps[i].name \notin Derived \cup {Graph}
    BY DEF S!CommonSteps, Derived, Graph, S!Core, S!DocumentIngestion, S!TaggingQueue,
       S!QuestionBank, S!Script, S!Transaction
<1>8. /\ recorded = whole /\ whole \subseteq S!AllSteps
      /\ whole \cap (Derived \cup {Graph}) = {}
      /\ times = [s \in S!AllSteps |-> IF s \in whole THEN 1 ELSE 0]
      /\ bankType \in {S!NoVersion, "derived"}
    BY <1>3, <1>5, <1>6, <1>7 DEF S!FileWith
<1>9. Derived \subseteq S!AllSteps
    BY DerivedAreSteps
<1>10. SchemaTyped
    BY <1>2, <1>8 DEF SchemaTyped, S!SchemaTypeOK
<1>11. DerivedOnce
    BY <1>8, <1>9 DEF DerivedOnce
<1> QED
    BY <1>2, <1>8, <1>10, <1>11 DEF SchemaInv, RecordedIsWhole, BehindIsWhole, HalfIsScript

\* The step a program is at.
LEMMA HereIsCareful ==
    ASSUME SchemaTyped, NEW p \in Programs, phase[p] \in {"look", "apply", "half"}
    PROVE  /\ index[p] \in 1..Len(S!Steps(p)) /\ Len(S!Steps(p)) \in 12..19
           /\ Careful(S!Here(p)) /\ S!Here(p).name \in S!AllSteps
           /\ \A i \in 1..Len(S!Steps(p)) : i < index[p] + 1 => i < index[p] \/ i = index[p]
<1>1. index[p] \in 1..20 /\ index[p] <= Len(S!Steps(p))
    BY DEF SchemaTyped, S!SchemaTypeOK
<1>2. Len(S!Steps(p)) \in 12..19
    BY StepsAreCareful
<1>3. index[p] \in 1..Len(S!Steps(p))
    BY <1>1, <1>2
<1> QED
    BY <1>1, <1>2, <1>3, StepsAreCareful DEF S!Here

\* Going on with the next step, once this one is whole.
LEMMA OnwardIsBehind ==
    ASSUME SchemaInv, NEW p \in Programs, phase[p] \in {"look", "apply", "half"}, S!Onward(p),
           whole \subseteq whole', S!Here(p).name \in whole'
    PROVE  /\ BehindIsWhole' /\ HalfIsScript'
           /\ index' \in [Programs -> 1..20]
           /\ phase' \in [Programs -> {"off", "look", "apply", "half", "up"}]
           /\ \A q \in Programs :
                 phase'[q] \in {"look", "apply", "half"} => index'[q] <= Len(S!Steps(q))
<1>1. /\ index[p] \in 1..Len(S!Steps(p)) /\ Len(S!Steps(p)) \in 12..19
      /\ \A i \in 1..Len(S!Steps(p)) : i < index[p] + 1 => i < index[p] \/ i = index[p]
    BY HereIsCareful DEF SchemaInv
<1>2. /\ index' = [index EXCEPT ![p] = index[p] + 1]
      /\ phase' = [phase EXCEPT ![p] = IF index[p] = Len(S!Steps(p)) THEN "up" ELSE "look"]
    BY DEF S!Onward
<1>3. /\ index \in [Programs -> 1..20]
      /\ phase \in [Programs -> {"off", "look", "apply", "half", "up"}]
    BY DEF SchemaInv, SchemaTyped, S!SchemaTypeOK
<1>4. /\ index'[p] = index[p] + 1
      /\ phase'[p] = (IF index[p] = Len(S!Steps(p)) THEN "up" ELSE "look")
      /\ \A q \in Programs \ {p} : index'[q] = index[q] /\ phase'[q] = phase[q]
    BY <1>2, <1>3
<1>5. index[p] + 1 \in 1..20
  <2>1. \A k \in 12..19 : \A n \in 1..k : n + 1 \in 1..20
    OBVIOUS
  <2> QED
    BY <1>1, <2>1
<1>6. BehindIsWhole'
  <2> SUFFICES ASSUME NEW q \in Programs, phase'[q] # "off"
               PROVE  /\ \A i \in 1..Len(S!Steps(q)) : i < index'[q] => S!Steps(q)[i].name \in whole'
                      /\ phase'[q] = "up" => index'[q] = Len(S!Steps(q)) + 1
    BY DEF BehindIsWhole, S!Steps
  <2>1. CASE q # p
    BY <1>4, <2>1 DEF SchemaInv, BehindIsWhole
  <2>2. CASE q = p
    <3>1. \A i \in 1..Len(S!Steps(p)) : i < index[p] => S!Steps(p)[i].name \in whole
        BY DEF SchemaInv, BehindIsWhole
    <3>2. \A i \in 1..Len(S!Steps(p)) : i < index[p] + 1 => S!Steps(p)[i].name \in whole'
        BY <1>1, <3>1 DEF S!Here
    <3>3. phase'[p] = "up" => index'[p] = Len(S!Steps(p)) + 1
        BY <1>4
    <3> QED
        BY <1>4, <2>2, <3>2, <3>3
  <2> QED
    BY <2>1, <2>2
<1>7. HalfIsScript'
  <2> SUFFICES ASSUME NEW q \in Programs, phase'[q] = "half"
               PROVE  ~S!Steps(q)[index'[q]].atomic
    BY DEF HalfIsScript, S!Here, S!Steps
  <2>1. q # p
    BY <1>4
  <2> QED
    BY <1>4, <2>1 DEF SchemaInv, HalfIsScript, S!Here
<1>8. ASSUME NEW q \in Programs, phase'[q] \in {"look", "apply", "half"}
      PROVE  index'[q] <= Len(S!Steps(q))
  <2>1. CASE q # p
    BY <1>4, <1>8, <2>1 DEF SchemaInv, SchemaTyped
  <2>2. CASE q = p
    BY <1>1, <1>4, <1>8, <2>2
  <2> QED
    BY <2>1, <2>2
<1> QED
    BY <1>2, <1>3, <1>5, <1>6, <1>7, <1>8

\* A step after which a program stands where it stood, or is off.
LEMMA SamePlace ==
    ASSUME SchemaInv, UNCHANGED <<whole, index>>, NEW p \in Programs,
           NEW f \in {"off", "apply", "half"}, phase' = [phase EXCEPT ![p] = f],
           f # "off" => phase[p] \in {"look", "apply"},
           f = "half" => ~S!Here(p).atomic
    PROVE  /\ BehindIsWhole' /\ HalfIsScript'
           /\ phase' \in [Programs -> {"off", "look", "apply", "half", "up"}]
           /\ \A q \in Programs :
                 phase'[q] \in {"look", "apply", "half"} => index'[q] <= Len(S!Steps(q))
<1>1. phase \in [Programs -> {"off", "look", "apply", "half", "up"}]
    BY DEF SchemaInv, SchemaTyped, S!SchemaTypeOK
<1>2. phase'[p] = f /\ \A q \in Programs \ {p} : phase'[q] = phase[q]
    BY <1>1
<1>3. BehindIsWhole'
  <2> SUFFICES ASSUME NEW q \in Programs, phase'[q] # "off"
               PROVE  /\ \A i \in 1..Len(S!Steps(q)) : i < index'[q] => S!Steps(q)[i].name \in whole'
                      /\ phase'[q] = "up" => index'[q] = Len(S!Steps(q)) + 1
    BY DEF BehindIsWhole, S!Steps
  <2>1. phase[q] # "off" /\ (phase'[q] = "up" => phase[q] = "up")
    BY <1>2
  <2> QED
    BY <2>1 DEF SchemaInv, BehindIsWhole
<1>4. HalfIsScript'
  <2> SUFFICES ASSUME NEW q \in Programs, phase'[q] = "half"
               PROVE  ~S!Steps(q)[index'[q]].atomic
    BY DEF HalfIsScript, S!Here, S!Steps
  <2>1. ~S!Here(q).atomic
    BY <1>2 DEF SchemaInv, HalfIsScript
  <2> QED
    BY <2>1 DEF S!Here
<1>5. ASSUME NEW q \in Programs, phase'[q] \in {"look", "apply", "half"}
      PROVE  index'[q] <= Len(S!Steps(q))
  <2>1. phase[q] \in {"look", "apply", "half"}
    BY <1>2, <1>5
  <2> QED
    BY <2>1 DEF SchemaInv, SchemaTyped
<1> QED
    BY <1>1, <1>3, <1>4, <1>5

LEMMA SchemaStep ==
    ASSUME SchemaInv, S!SchemaNext, MaxStarts \in Nat
    PROVE  SchemaInv'
<1> USE DEF SchemaInv
<1>1. /\ recorded \subseteq S!AllSteps /\ whole \subseteq S!AllSteps
      /\ times \in [S!AllSteps -> 0..2]
      /\ index \in [Programs -> 1..20]
      /\ phase \in [Programs -> {"off", "look", "apply", "half", "up"}]
      /\ bankType \in {S!NoVersion, "derived", "chosen"}
      /\ starts \in 0..MaxStarts
    BY DEF SchemaTyped, S!SchemaTypeOK
<1>t. ASSUME recorded' \subseteq S!AllSteps, whole' \subseteq S!AllSteps,
             times' \in [S!AllSteps -> 0..2], index' \in [Programs -> 1..20],
             phase' \in [Programs -> {"off", "look", "apply", "half", "up"}],
             bankType' \in {S!NoVersion, "derived", "chosen"}, starts' \in 0..MaxStarts,
             \A q \in Programs :
                 phase'[q] \in {"look", "apply", "half"} => index'[q] <= Len(S!Steps(q))
      PROVE  SchemaTyped'
  <2>1. S!SchemaTypeOK'
    BY <1>t DEF S!SchemaTypeOK, S!AllSteps, S!NoVersion
  <2> QED
    BY <1>t, <2>1 DEF SchemaTyped, S!Steps
<1>k. ASSUME UNCHANGED <<recorded, whole, times>> PROVE RecordedIsWhole' /\ DerivedOnce'
    BY <1>k DEF RecordedIsWhole, DerivedOnce
<1>2. ASSUME NEW p \in Programs, S!Start(p) PROVE SchemaInv'
  <2>1. /\ index' = [index EXCEPT ![p] = 1] /\ phase' = [phase EXCEPT ![p] = "look"]
        /\ starts < MaxStarts /\ starts' = starts + 1 /\ phase[p] = "off"
        /\ UNCHANGED <<recorded, whole, times, bankType>>
    BY <1>2 DEF S!Start
  <2>2. /\ index'[p] = 1 /\ phase'[p] = "look"
        /\ \A q \in Programs \ {p} : index'[q] = index[q] /\ phase'[q] = phase[q]
    BY <1>1, <2>1
  <2>3. /\ index' \in [Programs -> 1..20] /\ starts' \in 0..MaxStarts
        /\ phase' \in [Programs -> {"off", "look", "apply", "half", "up"}]
    BY <1>1, <2>1
  <2>4. ASSUME NEW q \in Programs, phase'[q] \in {"look", "apply", "half"}
        PROVE  index'[q] <= Len(S!Steps(q))
    <3>1. \A k \in 12..19 : 1 <= k
        OBVIOUS
    <3>2. 1 <= Len(S!Steps(q))
        BY <3>1, StepsAreCareful
    <3>3. CASE q = p
        BY <2>2, <3>2, <3>3
    <3>4. CASE q # p
        BY <2>2, <2>4, <3>4 DEF SchemaTyped
    <3> QED
        BY <3>3, <3>4
  <2>5. BehindIsWhole'
    <3> SUFFICES ASSUME NEW q \in Programs, phase'[q] # "off"
                 PROVE  /\ \A i \in 1..Len(S!Steps(q)) : i < index'[q] => S!Steps(q)[i].name \in whole'
                        /\ phase'[q] = "up" => index'[q] = Len(S!Steps(q)) + 1
        BY DEF BehindIsWhole, S!Steps
    <3>1. CASE q = p
        BY <2>2, <3>1
    <3>2. CASE q # p
        BY <2>1, <2>2, <3>2 DEF BehindIsWhole
    <3> QED
        BY <3>1, <3>2
  <2>6. HalfIsScript'
    <3> SUFFICES ASSUME NEW q \in Programs, phase'[q] = "half"
                 PROVE  ~S!Steps(q)[index'[q]].atomic
        BY DEF HalfIsScript, S!Here, S!Steps
    <3>1. q # p
        BY <2>2
    <3> QED
        BY <2>2, <3>1 DEF HalfIsScript, S!Here
  <2> QED
    BY <1>1, <1>t, <1>k, <2>1, <2>3, <2>4, <2>5, <2>6
<1>3. ASSUME NEW p \in Programs, S!Skip(p) PROVE SchemaInv'
  <2>1. /\ phase[p] = "look" /\ S!Here(p).looks /\ S!Here(p).name \in recorded /\ S!Onward(p)
        /\ UNCHANGED <<recorded, whole, times, bankType, starts>>
    BY <1>3 DEF S!Skip, S!Done
  <2>2. S!Here(p).name \in whole
    BY <2>1, HereIsCareful DEF Careful, RecordedIsWhole
  <2>3. /\ BehindIsWhole' /\ HalfIsScript'
        /\ index' \in [Programs -> 1..20]
        /\ phase' \in [Programs -> {"off", "look", "apply", "half", "up"}]
        /\ \A q \in Programs :
              phase'[q] \in {"look", "apply", "half"} => index'[q] <= Len(S!Steps(q))
    BY <2>1, <2>2, OnwardIsBehind
  <2> QED
    BY <1>1, <1>t, <1>k, <2>1, <2>3
<1>4. ASSUME NEW p \in Programs, S!Look(p) PROVE SchemaInv'
  <2>1. /\ phase[p] = "look" /\ phase' = [phase EXCEPT ![p] = "apply"]
        /\ UNCHANGED <<recorded, whole, times, index, bankType, starts>>
    BY <1>4 DEF S!Look
  <2>2. /\ BehindIsWhole' /\ HalfIsScript'
        /\ phase' \in [Programs -> {"off", "look", "apply", "half", "up"}]
        /\ \A q \in Programs :
              phase'[q] \in {"look", "apply", "half"} => index'[q] <= Len(S!Steps(q))
    BY <2>1, SamePlace
  <2> QED
    BY <1>1, <1>t, <1>k, <2>1, <2>2
<1>5. ASSUME NEW p \in Programs, S!ScriptBegins(p) PROVE SchemaInv'
  <2>1. /\ phase[p] = "apply" /\ ~S!Here(p).atomic /\ phase' = [phase EXCEPT ![p] = "half"]
        /\ recorded' = recorded \cup ({S!Here(p).name} \cap {Graph})
        /\ UNCHANGED <<whole, times, index, bankType, starts>>
    BY <1>5 DEF S!ScriptBegins, S!LearningGraph, S!Script, Graph
  <2>2. /\ BehindIsWhole' /\ HalfIsScript'
        /\ phase' \in [Programs -> {"off", "look", "apply", "half", "up"}]
        /\ \A q \in Programs :
              phase'[q] \in {"look", "apply", "half"} => index'[q] <= Len(S!Steps(q))
    BY <2>1, SamePlace
  <2>3. S!Here(p).name \in S!AllSteps
    BY <2>1, HereIsCareful
  <2>4. recorded' \subseteq S!AllSteps
    BY <1>1, <2>1, <2>3
  <2>5. RecordedIsWhole' /\ DerivedOnce'
    BY <2>1 DEF RecordedIsWhole, DerivedOnce
  <2> QED
    BY <1>1, <1>t, <2>1, <2>2, <2>4, <2>5
<1>6. ASSUME NEW p \in Programs, S!ScriptEnds(p) PROVE SchemaInv'
  <2>1. /\ phase[p] = "half" /\ recorded' = recorded \cup {S!Here(p).name}
        /\ whole' = whole \cup {S!Here(p).name} /\ S!Onward(p)
        /\ UNCHANGED <<times, bankType, starts>>
    BY <1>6 DEF S!ScriptEnds
  <2>2. S!Here(p).name \in S!AllSteps /\ S!Here(p).name \notin Derived
    BY <2>1, HereIsCareful DEF Careful, HalfIsScript
  <2>3. /\ BehindIsWhole' /\ HalfIsScript'
        /\ index' \in [Programs -> 1..20]
        /\ phase' \in [Programs -> {"off", "look", "apply", "half", "up"}]
        /\ \A q \in Programs :
              phase'[q] \in {"look", "apply", "half"} => index'[q] <= Len(S!Steps(q))
    BY <2>1, OnwardIsBehind
  <2>4. recorded' \subseteq S!AllSteps /\ whole' \subseteq S!AllSteps
    BY <1>1, <2>1, <2>2
  <2>5. RecordedIsWhole' /\ DerivedOnce'
    BY <2>1, <2>2 DEF RecordedIsWhole, DerivedOnce
  <2> QED
    BY <1>1, <1>t, <2>1, <2>3, <2>4, <2>5
<1>7. ASSUME NEW p \in Programs, S!Commits(p) PROVE SchemaInv'
  <2> DEFINE n == S!Here(p).name
             again == n \in recorded
  <2>1. /\ phase[p] = "apply" /\ S!Here(p).atomic
        /\ again => S!Here(p).repeats
        /\ S!Onward(p) /\ starts' = starts
    BY <1>7 DEF S!Commits
  <2>2. \/ again /\ UNCHANGED <<recorded, whole, times, bankType>>
        \/ /\ ~(again /\ S!Here(p).rechecks)
           /\ recorded' = recorded \cup {n} /\ whole' = whole \cup {n}
           /\ times' = [times EXCEPT ![n] = IF times[n] = 2 THEN 2 ELSE times[n] + 1]
           /\ bankType' \in {bankType, "derived"}
    BY <1>7 DEF S!Commits
  <2>3. /\ n \in S!AllSteps
        /\ n \in Derived => (S!Here(p).repeats => S!Here(p).rechecks)
        /\ S!Here(p).looks => n # Graph
    BY <2>1, HereIsCareful DEF Careful
  <2>4. CASE again /\ UNCHANGED <<recorded, whole, times, bankType>>
    <3>1. CASE n \in whole
      <4>1. /\ BehindIsWhole' /\ HalfIsScript'
            /\ index' \in [Programs -> 1..20]
            /\ phase' \in [Programs -> {"off", "look", "apply", "half", "up"}]
            /\ \A q \in Programs :
                  phase'[q] \in {"look", "apply", "half"} => index'[q] <= Len(S!Steps(q))
        BY <2>1, <2>4, <3>1, OnwardIsBehind
      <4> QED
        BY <1>1, <1>t, <1>k, <2>1, <2>4, <4>1
    <3>2. CASE n \notin whole
      <4>1. n = Graph
        BY <2>4, <3>2 DEF RecordedIsWhole
      <4>2. FALSE
        BY <2>1, <4>1, HereIsCareful DEF Careful
      <4> QED
        BY <4>2
    <3> QED
        BY <3>1, <3>2
  <2>5. CASE ~(again /\ S!Here(p).rechecks) /\ recorded' = recorded \cup {n} /\ whole' = whole \cup {n}
             /\ times' = [times EXCEPT ![n] = IF times[n] = 2 THEN 2 ELSE times[n] + 1]
             /\ bankType' \in {bankType, "derived"}
    <3>1. /\ BehindIsWhole' /\ HalfIsScript'
          /\ index' \in [Programs -> 1..20]
          /\ phase' \in [Programs -> {"off", "look", "apply", "half", "up"}]
          /\ \A q \in Programs :
                phase'[q] \in {"look", "apply", "half"} => index'[q] <= Len(S!Steps(q))
        BY <2>1, <2>5, OnwardIsBehind
    <3>2. /\ recorded' \subseteq S!AllSteps /\ whole' \subseteq S!AllSteps
          /\ times' \in [S!AllSteps -> 0..2] /\ bankType' \in {S!NoVersion, "derived", "chosen"}
        BY <1>1, <2>3, <2>5
    <3>3. RecordedIsWhole'
        BY <2>5 DEF RecordedIsWhole
    <3>4. DerivedOnce'
      <4> SUFFICES ASSUME NEW m \in Derived PROVE times'[m] = (IF m \in whole' THEN 1 ELSE 0)
        BY DEF DerivedOnce, Derived
      <4>1. m \in S!AllSteps /\ times[m] = (IF m \in whole THEN 1 ELSE 0)
        BY DerivedAreSteps DEF DerivedOnce
      <4>2. CASE m = n
        <5>1. ~again
            BY <2>1, <2>3, <2>5, <4>2
        <5>2. n \notin whole
            BY <5>1 DEF RecordedIsWhole
        <5> QED
            BY <1>1, <2>5, <4>1, <4>2, <5>2
      <4>3. CASE m # n
        BY <1>1, <2>5, <4>1, <4>3
      <4> QED
        BY <4>2, <4>3
    <3> QED
        BY <1>1, <1>t, <2>1, <3>1, <3>2, <3>3, <3>4
  <2> QED
    BY <2>2, <2>4, <2>5
<1>8. ASSUME NEW p \in Programs, S!RollsBack(p) \/ S!Dies(p) PROVE SchemaInv'
  <2>1. /\ phase' = [phase EXCEPT ![p] = "off"]
        /\ UNCHANGED <<recorded, whole, times, index, bankType, starts>>
    BY <1>8 DEF S!RollsBack, S!Dies
  <2>2. /\ BehindIsWhole' /\ HalfIsScript'
        /\ phase' \in [Programs -> {"off", "look", "apply", "half", "up"}]
        /\ \A q \in Programs :
              phase'[q] \in {"look", "apply", "half"} => index'[q] <= Len(S!Steps(q))
    BY <2>1, SamePlace
  <2> QED
    BY <1>1, <1>t, <1>k, <2>1, <2>2
<1>9. ASSUME NEW p \in Programs, S!SaveType(p) PROVE SchemaInv'
  <2>1. /\ bankType' = "chosen" /\ UNCHANGED <<recorded, whole, times, index, phase, starts>>
    BY <1>9 DEF S!SaveType
  <2>2. BehindIsWhole' /\ HalfIsScript'
    BY <2>1 DEF BehindIsWhole, HalfIsScript, S!Here, S!Steps
  <2>3. \A q \in Programs :
           phase'[q] \in {"look", "apply", "half"} => index'[q] <= Len(S!Steps(q))
    BY <2>1 DEF SchemaTyped
  <2> QED
    BY <1>1, <1>t, <1>k, <2>1, <2>2, <2>3
<1> QED
    BY <1>2, <1>3, <1>4, <1>5, <1>6, <1>7, <1>8, <1>9 DEF S!SchemaNext

LEMMA SchemaHolds ==
    ASSUME SchemaInv PROVE S!SchemaTypeOK /\ S!UpMeansMigrated /\ S!AnswersMigratedOnce
<1>1. S!UpMeansMigrated
  <2> SUFFICES ASSUME NEW p \in Programs, phase[p] = "up", NEW i \in 1..Len(S!Steps(p))
               PROVE  S!Steps(p)[i].name \in whole
    BY DEF S!UpMeansMigrated
  <2>1. Len(S!Steps(p)) \in 12..19
    BY StepsAreCareful
  <2>2. i < Len(S!Steps(p)) + 1
    BY <2>1
  <2> QED
    BY <2>2 DEF SchemaInv, BehindIsWhole
<1>2. S!AnswersMigratedOnce
  <2>1. /\ S!Outcomes.name = "learning_state" /\ S!ResponseEvidence.name = "response_evidence"
        /\ S!ChoiceStatistics.name = "choice_statistics"
    BY DEF S!Outcomes, S!ResponseEvidence, S!ChoiceStatistics, S!Transaction
  <2>2. \A s \in {S!Outcomes, S!ResponseEvidence, S!ChoiceStatistics} : s.name \in Derived
    BY <2>1 DEF Derived
  <2> QED
    BY <2>2 DEF S!AnswersMigratedOnce, SchemaInv, DerivedOnce
<1> QED
    BY <1>1, <1>2 DEF SchemaInv, SchemaTyped

-----------------------------------------------------------------------------
(***************************************************************************)
(* The backup. The copy is read at one point of the database, and rows are *)
(* only added before their companions are there.                           *)
(***************************************************************************)
\* Whether database d has a row of that id in table t.
HasRow(d, t, k) == \E r \in d[t] : r.id = k

\* Every id of database d is in database e, in the tables U.
Within(d, e, U) == \A t \in U : \A r \in d[t] : HasRow(e, t, r.id)

Databases == [B!Tables -> SUBSET B!Rows]

\* A task came with its batch, an exam with its snapshots and questions.
Companions ==
    \A k \in Ids :
       /\ HasRow(db, "document_parse_tasks", k) => HasRow(db, "question_import_batches", k)
       /\ HasRow(db, "assessment_sessions", k) =>
             HasRow(db, "question_version_snapshots", k) /\ HasRow(db, "questions", k)

BackupTyped ==
    /\ db \in Databases /\ copy \in Databases /\ before \in Databases /\ restored \in Databases
    /\ position \in 0..B!NotExporting

\* What the export has read holds what was there when it began.
ReadSince ==
    position # B!NotExporting =>
       /\ B!Consistent(before)
       /\ Within(before, db, B!Tables)
       /\ Within(before, copy, {B!BackupTables[n] : n \in 1..position})

RestoredIsCopy ==
    restored # B!Empty => /\ position = Len(B!BackupTables)
                          /\ \A t \in B!Listed : restored[t] = copy[t]

BackupInv ==
    /\ BackupTyped /\ B!Consistent(db) /\ Companions /\ ReadSince /\ RestoredIsCopy

LEMMA BackupTablesAre ==
    /\ Len(B!BackupTables) = 8 /\ DOMAIN B!BackupTables = 1..8 /\ B!NotExporting = 9
    /\ B!Listed = B!Tables \ {"document_conversions"}
    /\ B!Listed = {B!BackupTables[n] : n \in 1..8}
    /\ \A n \in 1..8 : B!BackupTables[n] \in B!Tables
<1>1. Len(B!BackupTables) = 8 /\ DOMAIN B!BackupTables = 1..8
    BY DEF B!BackupTables
<1>2. B!NotExporting = 9
    BY <1>1 DEF B!NotExporting
<1>3. B!Listed = {B!BackupTables[n] : n \in 1..8}
    BY <1>1 DEF B!Listed
<1>4. 1..8 = {1, 2, 3, 4, 5, 6, 7, 8}
    OBVIOUS
<1>5. B!Listed = {B!BackupTables[1], B!BackupTables[2], B!BackupTables[3], B!BackupTables[4],
                  B!BackupTables[5], B!BackupTables[6], B!BackupTables[7], B!BackupTables[8]}
    BY <1>3, <1>4
<1>6. B!Listed = B!Tables \ {"document_conversions"}
    BY <1>5 DEF B!BackupTables, B!Tables
<1> QED
    BY <1>1, <1>2, <1>3, <1>6

LEMMA ConsistentMeans ==
    ASSUME NEW d \in Databases
    PROVE  B!Consistent(d) <=> \A t, u \in B!Tables : \A r \in d[t] : u \in r.refs => HasRow(d, u, r.id)
<1>1. ASSUME B!Consistent(d), NEW t \in B!Tables, NEW u \in B!Tables, NEW r \in d[t], u \in r.refs
      PROVE  HasRow(d, u, r.id)
  <2>1. <<r, u>> \notin B!DanglingIn(d, t)
    BY <1>1 DEF B!Consistent
  <2> QED
    BY <1>1, <2>1 DEF B!DanglingIn, HasRow
<1>2. ASSUME \A t, u \in B!Tables : \A r \in d[t] : u \in r.refs => HasRow(d, u, r.id)
      PROVE  B!Consistent(d)
    BY <1>2 DEF B!Consistent, B!DanglingIn, HasRow
<1> QED
    BY <1>1, <1>2

LEMMA BackupStarts == ASSUME B!BackupInit PROVE BackupInv
<1>1. B!Empty \in Databases /\ \A t \in B!Tables : B!Empty[t] = {}
    BY DEF B!Empty, Databases
<1>2. BackupTyped
    BY <1>1, BackupTablesAre DEF B!BackupInit, BackupTyped
<1>3. B!Consistent(db)
    BY <1>1, ConsistentMeans DEF B!BackupInit
<1>4. Companions
    BY <1>1 DEF Companions, HasRow, B!BackupInit, B!Tables
<1> QED
    BY <1>2, <1>3, <1>4 DEF BackupInv, ReadSince, RestoredIsCopy, B!BackupInit

\* One transaction of somebody at work: rows of one id in the tables into.
LEMMA WriteKeeps ==
    ASSUME BackupInv, NEW k \in Ids, NEW into \in SUBSET B!Tables, NEW rows, DOMAIN rows = into,
           B!Write(rows),
           \A t \in into : /\ rows[t] \in B!Rows /\ rows[t].id = k
                        /\ \A u \in rows[t].refs : u \in into \/ HasRow(db, u, k),
           "document_parse_tasks" \in into =>
                "question_import_batches" \in into \/ HasRow(db, "question_import_batches", k),
           "assessment_sessions" \in into =>
                /\ "question_version_snapshots" \in into
                /\ "questions" \in into \/ HasRow(db, "questions", k)
    PROVE  BackupInv'
<1> USE DEF BackupInv
<1>1. /\ db' = [t \in B!Tables |->
                  IF t \in into THEN {r \in db[t] : r.id # rows[t].id} \cup {rows[t]} ELSE db[t]]
      /\ UNCHANGED <<position, copy, before, restored>>
    BY DEF B!Write
<1>2. db \in Databases /\ \A t \in B!Tables : db[t] \subseteq B!Rows
    BY DEF BackupTyped, Databases
<1>3. db' \in Databases
    BY <1>1, <1>2 DEF Databases
<1>4. \A t \in B!Tables : \A r \in db'[t] : r \in db[t] \/ (t \in into /\ r = rows[t])
  <2> SUFFICES ASSUME NEW t \in B!Tables, NEW r \in db'[t]
               PROVE  r \in db[t] \/ (t \in into /\ r = rows[t])
    OBVIOUS
  <2>1. db'[t] = IF t \in into THEN {q \in db[t] : q.id # rows[t].id} \cup {rows[t]} ELSE db[t]
    BY <1>1, Zenon
  <2>2. CASE t \in into
    BY <2>1, <2>2
  <2>3. CASE t \notin into
    BY <2>1, <2>3
  <2> QED
    BY <2>2, <2>3
<1>5. \A t \in B!Tables : \A j : HasRow(db, t, j) => HasRow(db', t, j)
    BY <1>1 DEF HasRow
<1>6. \A t \in into : HasRow(db', t, k)
    BY <1>1 DEF HasRow
<1>7. B!Consistent(db)'
  <2> SUFFICES ASSUME NEW t \in B!Tables, NEW u \in B!Tables, NEW r \in db'[t], u \in r.refs
               PROVE  HasRow(db', u, r.id)
    <3>1. B!Consistent(db') <=>
             \A t, u \in B!Tables : \A r \in db'[t] : u \in r.refs => HasRow(db', u, r.id)
        BY <1>3, ConsistentMeans
    <3> QED
        BY <3>1 DEF B!Consistent, B!DanglingIn, B!Tables
  <2>1. CASE r \in db[t]
    <3>1. HasRow(db, u, r.id)
        BY <1>2, <2>1, ConsistentMeans
    <3> QED
        BY <1>5, <3>1
  <2>2. CASE t \in into /\ r = rows[t]
    BY <1>5, <1>6, <2>2
  <2> QED
    BY <1>4, <2>1, <2>2
<1>8. Companions'
  <2>1. \A t \in B!Tables, j \in Ids : HasRow(db', t, j) => HasRow(db, t, j) \/ (t \in into /\ j = k)
    <3> SUFFICES ASSUME NEW t \in B!Tables, NEW j \in Ids, NEW r \in db'[t], r.id = j
                 PROVE  HasRow(db, t, j) \/ (t \in into /\ j = k)
        BY DEF HasRow
    <3> QED
        BY <1>4 DEF HasRow
  <2>2. {"document_parse_tasks", "question_import_batches", "assessment_sessions",
         "question_version_snapshots", "questions"} \subseteq B!Tables
    BY DEF B!Tables
  <2> SUFFICES ASSUME NEW j \in Ids
               PROVE  /\ HasRow(db', "document_parse_tasks", j) =>
                            HasRow(db', "question_import_batches", j)
                      /\ HasRow(db', "assessment_sessions", j) =>
                            /\ HasRow(db', "question_version_snapshots", j)
                            /\ HasRow(db', "questions", j)
    BY DEF Companions, HasRow
  <2>3. ASSUME HasRow(db', "document_parse_tasks", j) PROVE HasRow(db', "question_import_batches", j)
    <3>1. CASE HasRow(db, "document_parse_tasks", j)
        BY <1>5, <2>2, <3>1 DEF Companions
    <3>2. CASE "document_parse_tasks" \in into /\ j = k
        BY <1>5, <1>6, <2>2, <3>2
    <3> QED
        BY <2>1, <2>2, <2>3, <3>1, <3>2
  <2>4. ASSUME HasRow(db', "assessment_sessions", j)
        PROVE  HasRow(db', "question_version_snapshots", j) /\ HasRow(db', "questions", j)
    <3>1. CASE HasRow(db, "assessment_sessions", j)
        BY <1>5, <2>2, <3>1 DEF Companions
    <3>2. CASE "assessment_sessions" \in into /\ j = k
        BY <1>5, <1>6, <2>2, <3>2
    <3> QED
        BY <2>1, <2>2, <2>4, <3>1, <3>2
  <2> QED
    BY <2>3, <2>4
<1>9. ReadSince'
    BY <1>1, <1>5 DEF ReadSince, Within, B!Consistent, B!DanglingIn, B!Tables, HasRow
<1>10. BackupTyped'
    BY <1>1, <1>3 DEF BackupTyped, Databases, B!Tables, B!Rows, B!NotExporting
<1>11. RestoredIsCopy'
    BY <1>1 DEF RestoredIsCopy
<1> QED
    BY <1>7, <1>8, <1>9, <1>10, <1>11

LEMMA BackupStep == ASSUME BackupInv, B!BackupNext PROVE BackupInv'
<1> USE DEF BackupInv
<1>1. /\ {"users", "question_import_batches", "questions", "assessment_sessions",
         "question_version_snapshots", "student_responses", "document_parse_tasks",
         "parsed_question_items", "document_conversions"} = B!Tables
      /\ \A t \in B!Tables : \A k : B!Has(t, k) <=> HasRow(db, t, k)
    BY DEF B!Tables, B!Has, HasRow
<1>r. \A k \in Ids, names \in SUBSET B!Tables :
         B!Row(k, names) \in B!Rows /\ B!Row(k, names).id = k /\ B!Row(k, names).refs = names
    BY DEF B!Row, B!Rows
<1>2. ASSUME NEW k \in Ids, B!ImportUser(k) PROVE BackupInv'
  <2> DEFINE into == {"users"}
             rows == [t \in into |-> B!Row(k, {})]
  <2>1. B!Write(rows) /\ DOMAIN rows = into /\ into \subseteq B!Tables
    BY <1>1, <1>2 DEF B!ImportUser
  <2>2. \A t \in into : /\ rows[t] \in B!Rows /\ rows[t].id = k
                     /\ \A u \in rows[t].refs : u \in into \/ HasRow(db, u, k)
    BY <1>r
  <2> HIDE DEF rows
  <2> QED
    BY <2>1, <2>2, WriteKeeps
<1>3. ASSUME NEW k \in Ids, B!CreateTask(k) PROVE BackupInv'
  <2> DEFINE into == {"question_import_batches", "document_parse_tasks"}
             rows == [t \in into |-> B!Row(k, IF t = "document_parse_tasks"
                                           THEN {"question_import_batches"} ELSE {})]
  <2>1. B!Write(rows) /\ DOMAIN rows = into /\ into \subseteq B!Tables
    BY <1>1, <1>3 DEF B!CreateTask
  <2>2. \A t \in into : rows[t] = B!Row(k, IF t = "document_parse_tasks"
                                           THEN {"question_import_batches"} ELSE {})
    OBVIOUS
  <2>3. {"question_import_batches"} \subseteq B!Tables
    BY <1>1
  <2>4. \A t \in into : /\ rows[t] \in B!Rows /\ rows[t].id = k
                     /\ \A u \in rows[t].refs : u \in into \/ HasRow(db, u, k)
    BY <1>r, <2>2, <2>3
  <2> HIDE DEF rows
  <2> QED
    BY <2>1, <2>4, WriteKeeps
<1>4. ASSUME NEW k \in Ids, B!ConvertTask(k) PROVE BackupInv'
  <2> DEFINE into == {"document_conversions", "document_parse_tasks", "parsed_question_items"}
             names(t) == CASE t = "document_conversions"  -> {"document_parse_tasks"}
                          [] t = "document_parse_tasks"  ->
                                {"question_import_batches", "document_conversions"}
                          [] t = "parsed_question_items" ->
                                {"question_import_batches", "document_parse_tasks",
                                 "document_conversions"}
             rows == [t \in into |-> B!Row(k, names(t))]
  <2>1. B!Write(rows) /\ DOMAIN rows = into /\ into \subseteq B!Tables
        /\ HasRow(db, "document_parse_tasks", k)
    BY <1>1, <1>4 DEF B!ConvertTask
  <2>2. HasRow(db, "question_import_batches", k)
    BY <2>1 DEF Companions
  <2>3. \A t \in into : names(t) \subseteq into \cup {"question_import_batches"}
    OBVIOUS
  <2>4. into \cup {"question_import_batches"} \subseteq B!Tables
    BY <1>1
  <2>5. \A t \in into : rows[t] = B!Row(k, names(t))
    OBVIOUS
  <2> HIDE DEF rows, names
  <2>6. \A t \in into : rows[t] \in B!Rows /\ rows[t].id = k /\ rows[t].refs = names(t)
    BY <1>r, <2>3, <2>4, <2>5
  <2>7. \A t \in into : /\ rows[t] \in B!Rows /\ rows[t].id = k
                     /\ \A u \in rows[t].refs : u \in into \/ HasRow(db, u, k)
    BY <2>2, <2>3, <2>6
  <2> QED
    BY <2>1, <2>2, <2>7, WriteKeeps
<1>5. ASSUME NEW k \in Ids, B!CreateQuestion(k) PROVE BackupInv'
  <2> DEFINE into == {"questions"}
             rows == [t \in into |-> B!Row(k, {})]
  <2>1. B!Write(rows) /\ DOMAIN rows = into /\ into \subseteq B!Tables
    BY <1>1, <1>5 DEF B!CreateQuestion
  <2>2. \A t \in into : /\ rows[t] \in B!Rows /\ rows[t].id = k
                     /\ \A u \in rows[t].refs : u \in into \/ HasRow(db, u, k)
    BY <1>r
  <2> HIDE DEF rows
  <2> QED
    BY <2>1, <2>2, WriteKeeps
<1>6. ASSUME NEW k \in Ids, B!CreateAssessment(k) PROVE BackupInv'
  <2> DEFINE into == {"assessment_sessions", "question_version_snapshots"}
             names(t) == IF t = "assessment_sessions" THEN {} ELSE {"assessment_sessions", "questions"}
             rows == [t \in into |-> B!Row(k, names(t))]
  <2>1. B!Write(rows) /\ DOMAIN rows = into /\ into \subseteq B!Tables /\ HasRow(db, "questions", k)
    BY <1>1, <1>6 DEF B!CreateAssessment
  <2>2. \A t \in into : names(t) \subseteq into \cup {"questions"}
    OBVIOUS
  <2>3. into \cup {"questions"} \subseteq B!Tables
    BY <1>1
  <2>4. \A t \in into : rows[t] = B!Row(k, names(t))
    OBVIOUS
  <2> HIDE DEF rows, names
  <2>5. \A t \in into : rows[t] \in B!Rows /\ rows[t].id = k /\ rows[t].refs = names(t)
    BY <1>r, <2>2, <2>3, <2>4
  <2>6. \A t \in into : /\ rows[t] \in B!Rows /\ rows[t].id = k
                     /\ \A u \in rows[t].refs : u \in into \/ HasRow(db, u, k)
    BY <2>1, <2>2, <2>5
  <2> QED
    BY <2>1, <2>6, WriteKeeps
<1>7. ASSUME NEW k \in Ids, B!ImportResponse(k) PROVE BackupInv'
  <2> DEFINE into == {"student_responses"}
             names == {"users", "assessment_sessions", "questions", "question_version_snapshots"}
             rows == [t \in into |-> B!Row(k, names)]
  <2>1. B!Write(rows) /\ DOMAIN rows = into /\ into \subseteq B!Tables /\ names \subseteq B!Tables
        /\ HasRow(db, "users", k) /\ HasRow(db, "assessment_sessions", k)
    BY <1>1, <1>7 DEF B!ImportResponse
  <2>2. HasRow(db, "questions", k) /\ HasRow(db, "question_version_snapshots", k)
    BY <2>1 DEF Companions
  <2>3. \A t \in into : rows[t] = B!Row(k, names)
    OBVIOUS
  <2>4. \A t \in into : /\ rows[t] \in B!Rows /\ rows[t].id = k
                     /\ \A u \in rows[t].refs : u \in into \/ HasRow(db, u, k)
    BY <1>r, <2>1, <2>2, <2>3
  <2> HIDE DEF rows, names
  <2> QED
    BY <2>1, <2>4, WriteKeeps
<1>8. ASSUME B!BeginExport PROVE BackupInv'
  <2>1. /\ position = 9 /\ position' = 0 /\ copy' = B!Empty /\ before' = db
        /\ UNCHANGED <<db, restored>>
    BY <1>8, BackupTablesAre DEF B!BeginExport
  <2>2. B!Empty \in Databases
    BY DEF B!Empty, Databases
  <2>3. BackupTyped'
    BY <2>1, <2>2, BackupTablesAre DEF BackupTyped, Databases, B!Tables, B!Rows, B!NotExporting
  <2>4. Companions' /\ B!Consistent(db)'
    BY <2>1 DEF Companions, HasRow, B!Consistent, B!DanglingIn, B!Tables
  <2>5. B!Consistent(before)'
    BY <2>1 DEF B!Consistent, B!DanglingIn, B!Tables
  <2>6. Within(before', db', B!Tables)
    BY <2>1 DEF Within, HasRow
  <2>7. Within(before', copy', {B!BackupTables[n] : n \in 1..position'})
    BY <2>1 DEF Within
  <2>8. ReadSince'
    BY <2>5, <2>6, <2>7 DEF ReadSince, Within, HasRow, B!Tables, B!BackupTables
  <2>9. RestoredIsCopy'
    BY <2>1, BackupTablesAre DEF RestoredIsCopy, B!Empty, B!Tables
  <2> QED
    BY <2>3, <2>4, <2>8, <2>9
<1>9. ASSUME B!ExportTable PROVE BackupInv'
  <2> DEFINE T == B!BackupTables[position + 1]
  <2>1. /\ position \in 0..7 /\ position' = position + 1
        /\ copy' = [copy EXCEPT ![T] = db[T]]
        /\ UNCHANGED <<db, before, restored>>
    BY <1>9, BackupTablesAre DEF B!ExportTable, BackupTyped
  <2>2. position + 1 \in 1..8 /\ T \in B!Tables
    BY <2>1, BackupTablesAre
  <2>3. copy \in Databases /\ db \in Databases
    BY DEF BackupTyped
  <2>4. copy' \in Databases /\ \A t \in B!Tables : copy'[t] = IF t = T THEN db[T] ELSE copy[t]
    BY <2>1, <2>2, <2>3 DEF Databases
  <2>5. BackupTyped'
    BY <2>1, <2>2, <2>4, BackupTablesAre
    DEF BackupTyped, Databases, B!Tables, B!Rows, B!NotExporting
  <2>6. Companions' /\ B!Consistent(db)' /\ B!Consistent(before)'
    <3>1. position # B!NotExporting
        BY <2>1, BackupTablesAre
    <3> QED
        BY <2>1, <3>1 DEF Companions, ReadSince, HasRow, B!Consistent, B!DanglingIn, B!Tables
  <2>7. ASSUME NEW n \in 1..position', NEW r \in before[B!BackupTables[n]]
        PROVE  HasRow(copy', B!BackupTables[n], r.id)
    <3>1. n \in 1..8 /\ B!BackupTables[n] \in B!Tables /\ position # B!NotExporting
        BY <2>1, BackupTablesAre
    <3>2. CASE B!BackupTables[n] = T
        BY <2>4, <2>7, <3>1, <3>2 DEF ReadSince, Within, HasRow
    <3>3. CASE B!BackupTables[n] # T
        <4>1. n \in 1..position
            BY <2>1, <3>3
        <4> QED
            BY <2>4, <2>7, <3>1, <3>3, <4>1 DEF ReadSince, Within, HasRow
    <3> QED
        BY <3>2, <3>3
  <2>8. ReadSince'
    <3>1. Within(before, db, B!Tables)
        BY <2>1, BackupTablesAre DEF ReadSince
    <3>2. Within(before', db', B!Tables)
        BY <2>1, <3>1 DEF Within, HasRow
    <3>3. Within(before', copy', {B!BackupTables[n] : n \in 1..position'})
        BY <2>1, <2>7 DEF Within
    <3> QED
        BY <2>6, <3>2, <3>3 DEF ReadSince, Within, HasRow, B!Tables, B!BackupTables
  <2>9. RestoredIsCopy'
    BY <2>1, BackupTablesAre DEF RestoredIsCopy, B!Empty, B!Tables
  <2> QED
    BY <2>5, <2>6, <2>8, <2>9
<1>10. ASSUME B!Restore PROVE BackupInv'
  <2>1. /\ position = 8 /\ UNCHANGED <<db, position, copy, before>>
        /\ \E target \in {B!Empty, db} :
              restored' = [t \in B!Tables |-> IF t \in B!Listed THEN copy[t] ELSE target[t]]
    BY <1>10, BackupTablesAre DEF B!Restore
  <2>2. PICK target \in {B!Empty, db} :
              restored' = [t \in B!Tables |-> IF t \in B!Listed THEN copy[t] ELSE target[t]]
    BY <2>1
  <2>3. target \in Databases /\ copy \in Databases
    BY DEF BackupTyped, B!Empty, Databases
  <2>4. restored' \in Databases
    BY <2>2, <2>3 DEF Databases
  <2>5. BackupTyped'
    BY <2>1, <2>4 DEF BackupTyped, Databases, B!Tables, B!Rows, B!NotExporting
  <2>6. Companions' /\ B!Consistent(db)'
    BY <2>1 DEF Companions, HasRow, B!Consistent, B!DanglingIn, B!Tables
  <2>7. ReadSince'
    BY <2>1 DEF ReadSince, Within, HasRow, B!Consistent, B!DanglingIn, B!Tables
  <2>8. RestoredIsCopy'
    BY <2>1, <2>2, BackupTablesAre DEF RestoredIsCopy, B!Listed, B!BackupTables
  <2> QED
    BY <2>5, <2>6, <2>7, <2>8
<1> QED
    BY <1>2, <1>3, <1>4, <1>5, <1>6, <1>7, <1>8, <1>9, <1>10 DEF B!BackupNext

LEMMA BackupHolds == ASSUME BackupInv PROVE B!BackupTypeOK /\ B!RestoredIsExplained
<1> USE DEF BackupInv
<1>1. B!BackupTypeOK
    BY DEF B!BackupTypeOK, BackupTyped, Databases
<1>2. ASSUME restored # B!Empty
      PROVE  /\ \A t \in B!Tables \ {"document_conversions"} : \A r \in before[t] :
                   \E s \in restored[t] : s.id = r.id
             /\ \A t \in B!Tables : \A x \in B!DanglingIn(restored, t) :
                   "document_conversions" \in {t, x[2]} \/ x[1] \notin before[t]
  <2>1. position = 8 /\ position # B!NotExporting
    BY <1>2, BackupTablesAre DEF RestoredIsCopy
  <2>2. \A t \in B!Tables \ {"document_conversions"} :
           /\ restored[t] = copy[t]
           /\ t \in {B!BackupTables[n] : n \in 1..position}
    BY <1>2, <2>1, BackupTablesAre DEF RestoredIsCopy
  <2>3. \A t \in B!Tables \ {"document_conversions"} : \A r \in before[t] :
           \E s \in restored[t] : s.id = r.id
    BY <2>1, <2>2 DEF ReadSince, Within, HasRow
  <2>4. ASSUME NEW t \in B!Tables, NEW x \in B!DanglingIn(restored, t),
               "document_conversions" \notin {t, x[2]}, x[1] \in before[t]
        PROVE  FALSE
    <3>1. /\ x[2] \in B!Tables /\ x[2] \in x[1].refs
          /\ \A s \in restored[x[2]] : s.id # x[1].id
        BY DEF B!DanglingIn
    <3>2. before \in Databases /\ B!Consistent(before)
        BY <2>1 DEF BackupTyped, ReadSince
    <3>3. HasRow(before, x[2], x[1].id)
        BY <2>4, <3>1, <3>2, ConsistentMeans
    <3> QED
        BY <2>3, <2>4, <3>1, <3>3 DEF HasRow
  <2> QED
    BY <2>3, <2>4
<1> QED
    BY <1>1, <1>2 DEF B!RestoredIsExplained

\* Files on disk, old ones and deleted ones are objects there can be.
FilesTyped ==
    /\ file \subseteq Assets /\ deleted \subseteq Assets /\ conv \subseteq Runs /\ old \subseteq Objects

LEMMA FilesStep ==
    ASSUME StoreInv, FilesTyped, [StoreNext]_storeVars PROVE FilesTyped'
<1> USE DEF FilesTyped
<1>1. ASSUME NEW w \in Workers, NEW a \in Assets, StoreAsset(w, a) PROVE FilesTyped'
    BY <1>1 DEF StoreAsset, Objects
<1>2. ASSUME NEW w \in Workers, WriteConversion(w) PROVE FilesTyped'
  <2>1. worker[w].run \in Runs
      BY <1>2, StoreAssumption DEF WriteConversion, StoreInv, RunsAreUnique, Typed, Runs
  <2> QED
      BY <1>2, <2>1 DEF WriteConversion, Objects
<1>3. ASSUME NEW o \in Objects, Unlink(o) PROVE FilesTyped'
    BY <1>3 DEF Unlink, Removed, Objects
<1>4. CASE Collect
    BY <1>4 DEF Collect
<1>5. CASE Age
    BY <1>5 DEF Age, OnDisk, Objects
<1> QED
    BY <1>1, <1>2, <1>3, <1>4, <1>5
    DEF storeVars, StoreNext, Claims, Storing, Writing, Recording, Failing, Recovering, Retrying,
        Publishing, Deleting, Unlinks, Claim, Record, GiveUp, Recover, Retry, Publish, DeleteTask,
        StopUnlinking

LEMMA StoreTyped == ASSUME StoreInv, FilesTyped PROVE StoreTypeOK
BY DEF StoreInv, Typed, TaskRow, FilesTyped, StoreTypeOK

-----------------------------------------------------------------------------
(***************************************************************************)
(* Everything together.                                                    *)
(***************************************************************************)
ContentInv ==
    /\ part \in AllParts
    /\ StoreInv /\ FilesTyped /\ IntakeInv /\ PipeInv /\ CleanInv /\ SchemaInv /\ BackupInv

LEMMA StoreStep == StoreInv /\ [StoreNext]_storeVars => StoreInv'
BY TypedStep, UniqueStep, HeldStep, OwnerStep, OverStep, UsedStep, SparedStep
DEF StoreInv, ImagesAreKept

\* A part that rests keeps its invariant.
LEMMA IntakeRests == ASSUME IntakeInv, UNCHANGED intakeVars PROVE IntakeInv'
BY DEF IntakeInv, IntakeTyped, ItemsOfOutput, QuestionFirst, intakeVars

LEMMA PipeRests ==
    ASSUME PipeInv, UNCHANGED pipelineVars PROVE PipeInv'
<1> USE DEF pipelineVars
<1>1. PipeTyped'
    BY DEF PipeInv, PipeTyped
<1>2. SavesCount' /\ RunnerFits' /\ RequestsInTime'
    BY DEF PipeInv, SavesCount, Acting, RunnerFits, RequestsInTime
<1>3. AnswersReviewed' /\ ContentAudited' /\ NothingPublished' /\ TagsAudited'
    BY DEF PipeInv, AnswersReviewed, ContentAudited, NothingPublished, TagsAudited
<1>4. PublicationExplained'
    BY DEF PipeInv, PublicationExplained, Explained, Acting
<1> QED
    BY <1>1, <1>2, <1>3, <1>4 DEF PipeInv

LEMMA CleanRests ==
    ASSUME CleanInv, UNCHANGED pipelineVars PROVE CleanInv'
<1> USE DEF pipelineVars
<1>1. Clean' => Clean
    BY DEF Clean, L!DeferralAsked
<1> SUFFICES ASSUME Calm PROVE Calm'
    BY <1>1 DEF CleanInv
<1>2. AllThere' /\ SavesStand' /\ InventoryStands'
    BY DEF Calm, AllThere, SavesStand, InventoryStands
<1>3. PaperStands'
    BY DEF Calm, PaperStands, L!Revisions
<1>4. DoneIsRemembered'
  <2>1. L!PaperConfirmed' <=> L!PaperConfirmed
      BY DEF L!PaperConfirmed, L!Snapshot
  <2> QED
      BY <2>1 DEF Calm, DoneIsRemembered
<1>5. TagsStand'
    BY DEF Calm, TagsStand, TagsAdopted
<1> QED
    BY <1>2, <1>3, <1>4, <1>5 DEF Calm

LEMMA SchemaRests == ASSUME SchemaInv, UNCHANGED schemaVars PROVE SchemaInv'
<1> USE DEF schemaVars
<1>1. SchemaTyped'
    BY DEF SchemaInv, SchemaTyped, S!SchemaTypeOK
<1>2. BehindIsWhole' /\ HalfIsScript'
    BY DEF SchemaInv, BehindIsWhole, HalfIsScript, S!Here
<1> QED
    BY <1>1, <1>2 DEF SchemaInv, RecordedIsWhole, DerivedOnce

LEMMA BackupRests == ASSUME BackupInv, UNCHANGED backupVars PROVE BackupInv'
<1> USE DEF backupVars
<1>1. BackupTyped' /\ RestoredIsCopy'
    BY DEF BackupInv, BackupTyped, RestoredIsCopy
<1>2. B!Consistent(db)' /\ Companions'
    BY DEF BackupInv, B!Consistent, Companions, HasRow
<1>3. ReadSince'
    BY DEF BackupInv, ReadSince, B!Consistent, Within, HasRow
<1> QED
    BY <1>1, <1>2, <1>3 DEF BackupInv

LEMMA ContentStarts == ContentInit => ContentInv
<1>1. StoreInit => FilesTyped
    BY DEF StoreInit, FilesTyped
<1>2. L!PipelineAssumption /\ I!IntakeAssumption /\ MaxStarts \in Nat
    BY ContentAssumption DEF S!SchemaAssumption
<1> QED
    BY <1>1, <1>2, StoreInvInit, IntakeStarts, PipeStarts, CleanStarts, SchemaStarts,
       BackupStarts
    DEF ContentInit, ContentInv

LEMMA ContentStep ==
    ContentInv /\ [ContentNext]_<<part, storeVars, splitterVars, intakeVars, pipelineVars,
                                  schemaVars, backupVars>> => ContentInv'
<1> SUFFICES ASSUME ContentInv,
                    [ContentNext]_<<part, storeVars, splitterVars, intakeVars, pipelineVars,
                                    schemaVars, backupVars>>
             PROVE  ContentInv'
    OBVIOUS
<1> USE DEF ContentNext, Keeping, Splitting, Parsing, Supervising, Migrating, BackingUp
<1>1. part' = part
    OBVIOUS
<1>2. StoreInv' /\ FilesTyped'
  <2>1. [StoreNext]_storeVars
      OBVIOUS
  <2> QED
      BY <2>1, StoreStep, FilesStep DEF ContentInv
<1>3. IntakeInv'
  <2>1. I!IntakeNext \/ UNCHANGED intakeVars
      OBVIOUS
  <2> QED
      BY <2>1, IntakeStep, IntakeRests, ContentAssumption DEF ContentInv
<1>4. PipeInv' /\ CleanInv'
  <2>1. L!PipelineNext \/ UNCHANGED pipelineVars
      OBVIOUS
  <2> QED
      BY <2>1, PipeStep, CleanStep, PipeRests, CleanRests DEF ContentInv
<1>5. SchemaInv'
  <2>1. S!SchemaNext \/ UNCHANGED schemaVars
      OBVIOUS
  <2>2. MaxStarts \in Nat
      BY ContentAssumption DEF S!SchemaAssumption
  <2> QED
      BY <2>1, <2>2, SchemaStep, SchemaRests DEF ContentInv
<1>6. BackupInv'
  <2>1. B!BackupNext \/ UNCHANGED backupVars
      OBVIOUS
  <2> QED
      BY <2>1, BackupStep, BackupRests DEF ContentInv
<1> QED
    BY <1>1, <1>2, <1>3, <1>4, <1>5, <1>6 DEF ContentInv

LEMMA ContentStays == ContentSpec => []ContentInv
BY ContentStarts, ContentStep, PTL DEF ContentSpec

\* Every image in use has its row and every row its file, unless a deletion took the
\* file, for any number of tasks, workers and images.
THEOREM ImagesStay == ContentSpec => []ImagesAreKept
<1>1. ContentInv => ImagesAreKept
    BY DEF ContentInv, StoreInv
<1> QED
    BY <1>1, ContentStays, PTL

\* The tables and files of every part but the splitter, whose paper is divided by
\* folds, hold what they can hold; the splitter's are typed in TLC's runs.
THEOREM TablesAndFilesTyped == ContentSpec => [](part # "splitter" => ContentTypeOK)
<1>1. ContentInv => (part # "splitter" => ContentTypeOK)
    BY StoreTyped, IntakeHolds, PipeHolds, SchemaHolds, BackupHolds DEF ContentInv, ContentTypeOK
<1> QED
    BY <1>1, ContentStays, PTL

\* Whichever teachers run and save at once, a parsed task shows one run's items, all
\* of them, and a saved item has its question.  What the splitter divides is left to
\* TLC.
THEOREM ParsedTasksAreWhole == ContentSpec => [](part # "splitter" => QuestionsAreWhole)
<1>1. ContentInv => (part # "splitter" => QuestionsAreWhole)
    BY IntakeHolds DEF ContentInv, QuestionsAreWhole
<1> QED
    BY <1>1, ContentStays, PTL

\* A runner that is started again is never taken for an editor, a server that is up
\* has the whole schema, and a restored database has all that its backup saw.
THEOREM RestartsStayHarmless == ContentSpec => []RestartsAreHarmless
<1>1. ContentInv => RestartsAreHarmless
    BY CleanHolds, SchemaHolds, BackupHolds DEF ContentInv, RestartsAreHarmless
<1> QED
    BY <1>1, ContentStays, PTL

\* A question is published with the text that was reviewed and audited, and tags are
\* adopted in the version that was audited, whatever teachers edit meanwhile.
THEOREM PublishedIsReviewed == ContentSpec => PublishedAsReviewed
<1>1. ContentInv /\ [ContentNext]_<<part, storeVars, splitterVars, intakeVars, pipelineVars,
                                    schemaVars, backupVars>>
         => [\A i \in Items : question[i].body = 0 /\ question'[i].body # 0 =>
               /\ question'[i].body = checked["answers"][i]
               /\ i \in Sampled => question'[i].body = audited["content"][i]]_(L!ipVars)
  <2> SUFFICES ASSUME ContentInv, L!PipelineNext, NEW i \in Items,
                      question[i].body = 0, question'[i].body # 0
               PROVE  /\ question'[i].body = checked["answers"][i]
                      /\ i \in Sampled => question'[i].body = audited["content"][i]
      BY DEF ContentNext, Keeping, Splitting, Parsing, Supervising, Migrating, BackingUp,
             pipelineVars, L!ipVars
  <2> QED
      BY PublishedStep DEF ContentInv
<1>2. ContentInv /\ [ContentNext]_<<part, storeVars, splitterVars, intakeVars, pipelineVars,
                                    schemaVars, backupVars>>
         => [(L!Running("send") /\ runner.name[1] = "adopt" /\ question' # question /\ edits' = edits) =>
               \A i \in L!ActiveItems :
                  /\ question[i].revision = 0
                  /\ i \in Sampled => question'[i].tags = audited["tags"][i]]_(L!ipVars)
  <2> SUFFICES ASSUME ContentInv, L!PipelineNext, NEW i \in L!ActiveItems,
                      L!Running("send"), runner.name[1] = "adopt", question' # question, edits' = edits
               PROVE  /\ question[i].revision = 0
                      /\ i \in Sampled => question'[i].tags = audited["tags"][i]
      BY DEF ContentNext, Keeping, Splitting, Parsing, Supervising, Migrating, BackingUp,
             pipelineVars, L!ipVars
  <2> QED
      BY AdoptedStep DEF ContentInv
<1> QED
    BY <1>1, <1>2, ContentStays, PTL
    DEF ContentSpec, PublishedAsReviewed, L!PublishedAsReviewed, L!AdoptedAsAudited
=============================================================================
