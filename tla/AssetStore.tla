------------------------------ MODULE AssetStore ------------------------------
(***************************************************************************)
(* Images and conversions on disk against their rows in the database.      *)
(*                                                                         *)
(* An image is stored under the hash of its bytes, before the row that     *)
(* names it: a conversion writes files while it runs and rows only when it *)
(* succeeds.  Three parties touch both sides: workers converting tasks     *)
(* (document_worker.py, document_store.py), a teacher deleting a task,     *)
(* whose files are unlinked after the rows are gone (delete_task of        *)
(* document_ingestion.py), and the collector of orphans, which works under *)
(* the write lock of the database (document_maintenance.py).               *)
(***************************************************************************)
EXTENDS Naturals, FiniteSets

CONSTANTS Tasks, Workers,
          Assets,    \* images, by the hash of their bytes
          Visible,   \* those of a question's stem or options, read when it is published
          MaxRuns    \* bound: claims of tasks

ASSUME StoreAssumption == MaxRuns \in Nat

VARIABLES task,      \* document_parse_tasks
          worker,    \* the conversion each worker process carries out
          file,      \* image files on disk
          conv,      \* conversion directories on disk, by the run that wrote them
          old,       \* files older than the retention time
          row,       \* document_assets
          convRow,   \* document_conversions: run -> task it belongs to
          refs,      \* conversion_asset_refs: task -> images
          content,   \* content_asset_refs of published questions
          unlinking, \* delete_task after its commit: what is still to be removed
          deleted,   \* history: images a deletion unlinked
          runs       \* number of claims so far

storeVars == <<task, worker, file, conv, old, row, convRow, refs, content, unlinking, deleted, runs>>

Runs  == 1..MaxRuns
SomeTask == CHOOSE t \in Tasks : TRUE   \* of a worker that has none
Idle   == [pc |-> "idle", task |-> SomeTask, run |-> 0, found |-> {}]
Queued == [status |-> "queued", lease |-> 0, published |-> FALSE]

StoreInit ==
    /\ task = [t \in Tasks |-> Queued]
    /\ worker = [w \in Workers |-> Idle]
    /\ file = {} /\ conv = {} /\ old = {} /\ row = {} /\ content = {}
    /\ convRow = [r \in Runs |-> {}]
    /\ refs = [t \in Tasks |-> {}]
    /\ unlinking = {} /\ deleted = {}
    /\ runs = 0

Objects == ({"image"} \X Assets) \cup ({"conversion"} \X Runs)
OnDisk  == ({"image"} \X file) \cup ({"conversion"} \X conv)

HasLiveWorker == \E t \in Tasks : task[t].status = "running"
Converting(w) == worker[w].pc = "converting"

----------------------------------------------------------------------------
(* Conversion.                                                             *)

\* One task runs at a time; a worker whose lease was taken away goes on unaware.
Claim(w, t) ==
    /\ worker[w].pc = "idle" /\ runs < MaxRuns
    /\ task[t].status = "queued" /\ ~HasLiveWorker
    /\ runs' = runs + 1
    /\ task' = [task EXCEPT ![t].status = "running", ![t].lease = runs + 1]
    /\ worker' = [worker EXCEPT ![w] = [pc |-> "converting", task |-> t, run |-> runs + 1, found |-> {}]]
    /\ UNCHANGED <<file, conv, old, row, convRow, refs, content, unlinking, deleted>>

\* An image is linked under its key; one that is there already is left as it is,
\* with the age it has.
StoreAsset(w, a) ==
    /\ Converting(w) /\ worker[w].run \notin conv /\ a \notin worker[w].found
    /\ file' = file \cup {a}
    /\ worker' = [worker EXCEPT ![w].found = @ \cup {a}]
    /\ UNCHANGED <<task, conv, old, row, convRow, refs, content, unlinking, deleted, runs>>

\* The converted document appears under its own id in one rename.
WriteConversion(w) ==
    /\ Converting(w) /\ worker[w].run \notin conv
    /\ conv' = conv \cup {worker[w].run}
    /\ UNCHANGED <<task, worker, file, old, row, convRow, refs, content, unlinking, deleted, runs>>

Holds(w) ==
    LET t == worker[w].task
    IN  task[t].status = "running" /\ task[t].lease = worker[w].run

\* Rows for the conversion and for every image of its output, if the lease is still held.
Record(w) ==
    LET t == worker[w].task
    IN  /\ Converting(w) /\ worker[w].run \in conv
        /\ worker' = [worker EXCEPT ![w] = Idle]
        /\ IF Holds(w)
           THEN /\ row' = row \cup worker[w].found
                /\ refs' = [refs EXCEPT ![t] = worker[w].found]
                /\ convRow' = [convRow EXCEPT ![worker[w].run] = {t}]
                /\ task' = [task EXCEPT ![t].status = "parsed", ![t].lease = 0]
           ELSE UNCHANGED <<row, refs, convRow, task>>
        /\ UNCHANGED <<file, conv, old, content, unlinking, deleted, runs>>

\* The conversion fails, is cancelled or the process dies; a process that died
\* leaves its task running until the lease runs out.
GiveUp(w) ==
    LET t == worker[w].task
    IN  /\ Converting(w)
        /\ worker' = [worker EXCEPT ![w] = Idle]
        /\ \/ Holds(w) /\ task' = [task EXCEPT ![t].status = "failed", ![t].lease = 0]
           \/ UNCHANGED task
        /\ UNCHANGED <<file, conv, old, row, convRow, refs, content, unlinking, deleted, runs>>

\* Another worker finds the lease expired and takes the task back.
Recover(t) ==
    /\ task[t].status = "running"
    /\ \E s \in {"queued", "failed"} : task' = [task EXCEPT ![t].status = s, ![t].lease = 0]
    /\ UNCHANGED <<worker, file, conv, old, row, convRow, refs, content, unlinking, deleted, runs>>

Retry(t) ==
    /\ task[t].status = "failed"
    /\ task' = [task EXCEPT ![t].status = "queued"]
    /\ UNCHANGED <<worker, file, conv, old, row, convRow, refs, content, unlinking, deleted, runs>>

\* Questions are published with their images: rows for all of them, and the bytes
\* of the visible ones are read.
Publish(t) ==
    /\ task[t].status = "parsed" /\ ~task[t].published
    /\ refs[t] \subseteq row
    /\ refs[t] \cap Visible \subseteq file
    /\ content' = content \cup refs[t]
    /\ task' = [task EXCEPT ![t].published = TRUE]
    /\ UNCHANGED <<worker, file, conv, old, row, convRow, refs, unlinking, deleted, runs>>

----------------------------------------------------------------------------
(* Deleting a task.                                                        *)

\* Mutated form: only the images of published questions are kept.
Unpublished(t) == {a \in refs[t] : a \notin content}

\* The images nobody else refers to.
Unreferenced(t) == {a \in refs[t] : a \notin content /\ \A u \in Tasks \ {t} : a \notin refs[u]}

\* In one transaction the task and the rows only it used go; the names of their
\* files are remembered.
DeleteTask(t) ==
    /\ task[t].status \in {"parsed", "failed"} /\ ~task[t].published /\ unlinking = {}
    /\ task' = [task EXCEPT ![t].status = "deleted"]
    /\ row' = row \ Unreferenced(t)
    /\ convRow' = [r \in Runs |-> convRow[r] \ {t}]
    /\ refs' = [refs EXCEPT ![t] = {}]
    /\ unlinking' = ({"image"} \X Unreferenced(t)) \cup ({"conversion"} \X {r \in Runs : t \in convRow[r]})
    /\ UNCHANGED <<worker, file, conv, old, content, deleted, runs>>

\* Then the files are removed one by one; a file that cannot be is reported.
Removed(o) ==
    /\ file' = IF o[1] = "image" THEN file \ {o[2]} ELSE file
    /\ conv' = IF o[1] = "conversion" THEN conv \ {o[2]} ELSE conv
    /\ old' = old \ {o}

Unlink(o) ==
    /\ o \in unlinking
    /\ unlinking' = unlinking \ {o}
    /\ \/ Removed(o) /\ deleted' = IF o[1] = "image" THEN deleted \cup {o[2]} ELSE deleted
       \/ UNCHANGED <<file, conv, old, deleted>>
    /\ UNCHANGED <<task, worker, row, convRow, refs, content, runs>>

\* The server dies before it has removed them all.
StopUnlinking ==
    /\ unlinking # {} /\ unlinking' = {}
    /\ UNCHANGED <<task, worker, file, conv, old, row, convRow, refs, content, deleted, runs>>

----------------------------------------------------------------------------
(* The collector of orphans.                                               *)

Age ==
    /\ old # OnDisk /\ old' = OnDisk
    /\ UNCHANGED <<task, worker, file, conv, row, convRow, refs, content, unlinking, deleted, runs>>

\* Mutated form: a conversion under way does not stop the collector.
OldAndUnreferenced ==
    {o \in old : IF o[1] = "image" THEN o[2] \notin row ELSE convRow[o[2]] = {}}

\* Old files without a row, unless a conversion is under way that may record them.
Orphans == IF HasLiveWorker THEN {} ELSE OldAndUnreferenced

\* The write lock is held from the look at the rows to the last removal.
Collect ==
    /\ Orphans # {}
    /\ \E gone \in SUBSET Orphans \ {{}} :
          /\ file' = {a \in file : <<"image", a>> \notin gone}
          /\ conv' = {r \in conv : <<"conversion", r>> \notin gone}
          /\ old' = old \ gone
    /\ UNCHANGED <<task, worker, row, convRow, refs, content, unlinking, deleted, runs>>

----------------------------------------------------------------------------
Claims      == \E w \in Workers, t \in Tasks : Claim(w, t)
Storing     == \E w \in Workers, a \in Assets : StoreAsset(w, a)
Writing     == \E w \in Workers : WriteConversion(w)
Recording   == \E w \in Workers : Record(w)
Failing     == \E w \in Workers : GiveUp(w)
Recovering  == \E t \in Tasks : Recover(t)
Retrying    == \E t \in Tasks : Retry(t)
Publishing  == \E t \in Tasks : Publish(t)
Deleting    == \E t \in Tasks : DeleteTask(t)
Unlinks     == \E o \in Objects : Unlink(o)

StoreNext ==
    \/ Claims \/ Storing \/ Writing \/ Recording \/ Failing
    \/ Recovering \/ Retrying \/ Publishing
    \/ Deleting \/ Unlinks \/ StopUnlinking
    \/ Age \/ Collect

StoreSpec == StoreInit /\ [][StoreNext]_storeVars

----------------------------------------------------------------------------
(* Properties.                                                             *)

StoreTypeOK ==
    /\ \A t \in Tasks : task[t].status \in {"queued", "running", "parsed", "failed", "deleted"}
    /\ file \subseteq Assets /\ row \subseteq Assets /\ content \subseteq Assets /\ deleted \subseteq Assets
    /\ conv \subseteq Runs /\ old \subseteq Objects /\ unlinking \subseteq Objects
    /\ runs \in 0..MaxRuns

\* A recorded image or conversion has its file, whatever is collected, retried or
\* given up meanwhile: only the deletion of a task takes a file away under a row
\* (has_live_worker of collect_orphaned_objects, lease check of process_task).
CollectorSparesLiveWork ==
    /\ \A a \in row : a \in file \/ a \in deleted
    /\ \A r \in Runs : convRow[r] # {} => r \in conv

\* Images in use keep their row: nothing refers to an image that is not recorded,
\* whichever tasks that share it are deleted (delete_task).
UsedImagesAreRecorded ==
    /\ content \subseteq row
    /\ \A t \in Tasks : refs[t] \subseteq row

\* Both: no row without its file, no use without its row.
ImagesAreKept == CollectorSparesLiveWork /\ UsedImagesAreRecorded

\* Published questions have the files of their images, whatever is deleted beside
\* them (the acceptance list of the document pipeline, ST-01).
ContentHasFiles == content \subseteq file
=============================================================================
