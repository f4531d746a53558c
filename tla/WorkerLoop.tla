----------------------------- MODULE WorkerLoop -----------------------------
(***************************************************************************)
(* The turns a worker process takes (document_worker.run_once): it         *)
(* recovers expired tag jobs, claims one, and only when there is none      *)
(* looks at the exam review items.  It works on one thing at a time, so a  *)
(* long call for one queue delays the other.  TagJobs and ReviewItems run  *)
(* side by side here on the same processes; the conversions and scans that *)
(* come before them are taken to be finished.                              *)
(***************************************************************************)
EXTENDS Naturals

CONSTANTS Workers, MaxAttempts,
          Jobs, Questions, MaxVersion, NoJob,
          Packages, SnapshotCount, Sources, Verified, Fields, AIFields, Copied, Texts, Reference,
          Tokens, NoToken, NoPage, MaxRevision

VARIABLES question, candidates, job, run, tagPage, package, item, call, reviewPage,
          turn  \* [Workers -> {"tags", "review"}]: the queue each process is at

tagState == <<question, candidates, job, run, tagPage>>
reviewState == <<package, item, call, reviewPage>>
vars == <<tagState, reviewState, turn>>

Tags == INSTANCE TagJobs WITH page <- tagPage, Threads <- {}, Editors <- {}, Agents <- {}
Review == INSTANCE ReviewItems WITH worker <- call, page <- reviewPage, Pages <- {}

-----------------------------------------------------------------------------
Init ==
    /\ Tags!Init /\ Review!Init
    /\ turn = [w \in Workers |-> "tags"]

\* Recover, claim and process tag jobs.
TagTurn(w) ==
    /\ turn[w] = "tags"
    /\ \/ Tags!RecoverExpiredTagJobs(w)
       \/ \E j \in Jobs : Tags!ClaimTagJob(w, j)
       \/ Tags!Progress(w)
    /\ UNCHANGED <<turn, reviewState>>

\* claim_next_tag_job returned None: the turn goes on with the review items.
NoTagJob(w) ==
    /\ turn[w] = "tags" /\ Tags!ClaimNothing(w)
    /\ turn' = [turn EXCEPT ![w] = "review"]
    /\ UNCHANGED reviewState

\* exam_review_worker.run_once; the next turn starts with the tag jobs again.
ReviewTurn(w) ==
    /\ turn[w] = "review" /\ Review!WorkerStep(w)
    /\ turn' = [turn EXCEPT ![w] = IF call'[w].calling THEN "review" ELSE "tags"]
    /\ UNCHANGED tagState

Crash(w) ==
    /\ \/ Tags!Crash(w) /\ UNCHANGED reviewState
       \/ Review!Crash(w) /\ UNCHANGED tagState
    /\ turn' = [turn EXCEPT ![w] = "tags"]

Loop(w) == TagTurn(w) \/ NoTagJob(w) \/ ReviewTurn(w)

\* New jobs, packages, retries and edits, and the clock.
TagSide ==
    /\ \/ \E j \in Jobs : Tags!QueueStep(j)
       \/ \E q \in Questions : Tags!EditQuestion(q)
    /\ UNCHANGED <<turn, reviewState>>

ReviewSide ==
    /\ \/ \E p \in Packages : Review!PackageStep(p)
       \/ \E p \in Packages, s \in 1..SnapshotCount :
             Review!RetryItem(p, s) \/ Review!LeaseExpires(p, s)
    /\ UNCHANGED <<turn, tagState>>

Next ==
    \/ \E w \in Workers : Loop(w) \/ Crash(w)
    \/ TagSide
    \/ ReviewSide

Spec == Init /\ [][Next]_vars

\* A process goes on until it crashes, and is started again; calls end; time passes.
Fairness ==
    /\ \A w \in Workers : WF_vars(Loop(w))
    /\ \A j \in Jobs : WF_vars(Tags!LeaseExpires(j) /\ UNCHANGED <<turn, reviewState>>)
                       /\ WF_vars(Tags!BackoffEnds(j) /\ UNCHANGED <<turn, reviewState>>)
    /\ \A p \in Packages, s \in 1..SnapshotCount :
          WF_vars(Review!LeaseExpires(p, s) /\ UNCHANGED <<turn, tagState>>)

FairSpec == Spec /\ Fairness

-----------------------------------------------------------------------------
\* Every tag job ends although its worker may be called away by a review item, crash
\* or be outrun by its lease.
JobsEnd == Tags!JobsEnd

\* Every review item is generated or fails although tag jobs always go first.
ItemsEnd == Review!ItemsEnd
=============================================================================
