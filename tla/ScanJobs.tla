------------------------------- MODULE ScanJobs -------------------------------
(***************************************************************************)
(* Answer-card recognition (response_scans.py): teachers upload scans, a   *)
(* worker process reads them page by page with OCR and a vision model,     *)
(* within the provider's budget, and leaves an import preview.             *)
(*                                                                         *)
(* The job commits its progress as it goes, so every step between two      *)
(* commits is an action.  A job has no lease: a worker process that starts *)
(* fails every running job, also one that another process still works on.  *)
(***************************************************************************)
EXTENDS Naturals, FiniteSets

CONSTANTS Jobs,         \* request keys of uploads
          Contents,     \* what is uploaded under a key
          Workers,      \* worker processes
          PageCount,    \* pages of a scan, for every content
          DailyLimit,   \* calls a day the provider allows; 0 is no limit
          MaxRestarts   \* bound: starts of worker processes

ASSUME ScanAssumption ==
    /\ IsFiniteSet(Workers)
    /\ PageCount \in [Contents -> Nat] /\ DailyLimit \in Nat /\ MaxRestarts \in Nat

VARIABLES job,        \* key -> the row of response_scan_jobs, if any
          waiting,    \* queued keys, oldest first, as a function of their turn
          worker,     \* process -> where it stands
          images,     \* job -> pages with images kept for their students
          calls,      \* job -> provider_usage_events of the job
          today,      \* daily window of provider_budget_windows
          enabled,    \* a provider is configured and enabled
          exam,       \* "open" or "published"
          restarts

scanVars == <<job, waiting, worker, images, calls, today, enabled, exam, restarts>>

NoJob    == [status |-> "none", content |-> "none", read |-> 0]
Stopped  == [at |-> "stopped", job |-> "none", page |-> 0]
Free     == [Stopped EXCEPT !.at = "free"]
At(w, s) == worker[w].at = s
On(w)    == worker[w].job
PagesOf(j) == PageCount[job[j].content]

----------------------------------------------------------------------------
(* Teachers and administrators.                                            *)

\* A new key is queued; the key again with the same files is acknowledged,
\* and with others refused.
ScanUpload(j, content) ==
    /\ exam = "open"
    /\ job[j] = NoJob
    /\ enabled
    /\ job' = [job EXCEPT ![j] = [status |-> "queued", content |-> content, read |-> 0]]
    /\ waiting' = [waiting EXCEPT ![j] = 1 + Cardinality({i \in Jobs : job[i] # NoJob})]
    /\ UNCHANGED <<worker, images, calls, today, enabled, exam, restarts>>

SaveProviderConfig ==
    /\ enabled' = ~enabled
    /\ UNCHANGED <<job, waiting, worker, images, calls, today, exam, restarts>>

PublishExam ==
    /\ exam = "open" /\ exam' = "published"
    /\ UNCHANGED <<job, waiting, worker, images, calls, today, enabled, restarts>>

----------------------------------------------------------------------------
(* The worker process.                                                     *)

\* A process starts: running jobs are failed, whoever runs them.
Start(w) ==
    /\ At(w, "stopped") /\ restarts < MaxRestarts
    /\ restarts' = restarts + 1
    /\ worker' = [worker EXCEPT ![w] = Free]
    /\ job' = [j \in Jobs |-> IF job[j].status = "running"
                              THEN [job[j] EXCEPT !.status = "failed"] ELSE job[j]]
    /\ UNCHANGED <<waiting, images, calls, today, enabled, exam>>

Crash(w) ==
    /\ ~At(w, "stopped")
    /\ worker' = [worker EXCEPT ![w] = Stopped]
    /\ UNCHANGED <<job, waiting, images, calls, today, enabled, exam, restarts>>

Oldest(j) == /\ job[j].status = "queued"
             /\ \A i \in Jobs : job[i].status = "queued" => waiting[j] <= waiting[i]

\* Mutated form: the claim does not take the job off the queue.
StillQueued == "queued"

\* The status a claimed job gets.
ClaimedStatus == "running"

\* One transaction: jobs that started six hours ago are failed, the oldest
\* queued one is claimed.
Claim(w, j) ==
    /\ At(w, "free")
    /\ Oldest(j)
    /\ \E late \in SUBSET {i \in Jobs : job[i].status = "running"} :
          job' = [i \in Jobs |-> IF i = j THEN [job[j] EXCEPT !.status = ClaimedStatus]
                                 ELSE IF i \in late THEN [job[i] EXCEPT !.status = "failed"] ELSE job[i]]
    /\ worker' = [worker EXCEPT ![w] = [Free EXCEPT !.at = "claimed", !.job = j]]
    /\ UNCHANGED <<waiting, images, calls, today, enabled, exam, restarts>>

\* Whatever raises ends the job, even if its row says something else by now;
\* what was not committed is rolled back.
Fail(w) ==
    /\ job' = [job EXCEPT ![On(w)].status = "failed"]
    /\ worker' = [worker EXCEPT ![w] = Free]

\* The uploader's account, the exam and the provider are checked, and the
\* scans are converted to pages.
Prepare(w) ==
    /\ At(w, "claimed")
    /\ UNCHANGED <<waiting, images, calls, today, enabled, exam, restarts>>
    /\ \/ /\ enabled /\ PagesOf(On(w)) > 0
          /\ worker' = [worker EXCEPT ![w].at = "page", ![w].page = 1]
          /\ UNCHANGED job
       \/ Fail(w)

\* Mutated form: one call too many fits.
BudgetNotExceeded == DailyLimit = 0 \/ today <= DailyLimit

\* The budget is read before the call and spent after it.
BudgetAllows == DailyLimit = 0 \/ today < DailyLimit

CallAllowed == enabled /\ BudgetAllows

\* A page whose text OCR cannot read costs a call of its own before grading.
ReadPage(w) ==
    /\ At(w, "page")
    /\ UNCHANGED <<waiting, images, calls, today, enabled, exam, restarts>>
    /\ \/ /\ CallAllowed
          /\ \E step \in {"transcribing", "grading"} :
                worker' = [worker EXCEPT ![w].at = step]
          /\ UNCHANGED job
       \/ ~CallAllowed /\ Fail(w)

\* Usage is recorded and committed, whether the model answered or not.
Charge(w) ==
    /\ calls' = [calls EXCEPT ![On(w)] = @ + 1]
    /\ today' = today + 1
    /\ UNCHANGED <<waiting, enabled, exam, restarts>>

Transcribed(w) ==
    /\ At(w, "transcribing")
    /\ Charge(w)
    /\ UNCHANGED images
    /\ \/ /\ worker' = [worker EXCEPT ![w].at = "transcribed"]
          /\ UNCHANGED job
       \/ Fail(w)

Grade(w) ==
    /\ At(w, "transcribed")
    /\ UNCHANGED <<waiting, images, calls, today, enabled, exam, restarts>>
    /\ \/ CallAllowed /\ worker' = [worker EXCEPT ![w].at = "grading"] /\ UNCHANGED job
       \/ ~CallAllowed /\ Fail(w)

Graded(w) ==
    /\ At(w, "grading")
    /\ Charge(w)
    /\ UNCHANGED images
    /\ \/ /\ worker' = [worker EXCEPT ![w].at = "matching"]
          /\ UNCHANGED job
       \/ Fail(w)

\* The records are matched to students and the page's images are kept with
\* the progress; one record that matches nobody fails the page whole.
MatchPage(w) ==
    LET j == On(w)
    IN  /\ At(w, "matching")
        /\ UNCHANGED <<waiting, calls, today, enabled, exam, restarts>>
        /\ \/ /\ images' = [images EXCEPT ![j] = @ \cup {worker[w].page}]
              /\ job' = [job EXCEPT ![j].read = worker[w].page]
              /\ worker' = IF worker[w].page < PagesOf(j)
                           THEN [worker EXCEPT ![w].at = "page", ![w].page = @ + 1]
                           ELSE [worker EXCEPT ![w].at = "preview"]
           \/ Fail(w) /\ UNCHANGED images

\* The preview has a transaction of its own, and the exam must be open still.
MakePreview(w) ==
    /\ At(w, "preview")
    /\ UNCHANGED <<waiting, images, calls, today, enabled, exam, restarts>>
    /\ \/ exam = "open" /\ worker' = [worker EXCEPT ![w].at = "done"] /\ UNCHANGED job
       \/ Fail(w)

Complete(w) ==
    /\ At(w, "done")
    /\ job' = [job EXCEPT ![On(w)].status = "completed"]
    /\ worker' = [worker EXCEPT ![w] = Free]
    /\ UNCHANGED <<waiting, images, calls, today, enabled, exam, restarts>>

----------------------------------------------------------------------------
ScanInit ==
    /\ job = [j \in Jobs |-> NoJob]
    /\ waiting = [j \in Jobs |-> 0]
    /\ worker = [w \in Workers |-> Stopped]
    /\ images = [j \in Jobs |-> {}]
    /\ calls = [j \in Jobs |-> 0]
    /\ today = 0
    /\ enabled = TRUE
    /\ exam = "open"
    /\ restarts = 0

Uploads   == \E j \in Jobs, c \in Contents : ScanUpload(j, c)
Starts    == \E w \in Workers : Start(w)
Crashes   == \E w \in Workers : Crash(w)
Claims    == \E w \in Workers, j \in Jobs : Claim(w, j)
Prepares  == \E w \in Workers : Prepare(w)
ReadPages == \E w \in Workers : ReadPage(w)
Transcriptions == \E w \in Workers : Transcribed(w)
Grades    == \E w \in Workers : Grade(w)
GradedAll == \E w \in Workers : Graded(w)
Matches   == \E w \in Workers : MatchPage(w)
Previews  == \E w \in Workers : MakePreview(w)
Completes == \E w \in Workers : Complete(w)

ScanNext == \/ Uploads \/ SaveProviderConfig \/ PublishExam \/ Starts \/ Crashes \/ Claims
            \/ Prepares \/ ReadPages \/ Transcriptions \/ Grades \/ GradedAll \/ Matches
            \/ Previews \/ Completes

ScanSpec == ScanInit /\ [][ScanNext]_scanVars

----------------------------------------------------------------------------
\* Every row and every process is in a state of its table or its loop.
ScanTypeOK ==
    /\ job \in [Jobs -> [status : {"none", "queued", "running", "failed", "completed"},
                         content : Contents \cup {"none"}, read : Nat]]
    /\ \A w \in Workers : On(w) \in Jobs \cup {"none"}
    /\ \A j \in Jobs : images[j] \subseteq Nat /\ calls[j] \in Nat
    /\ today \in Nat /\ restarts \in 0..MaxRestarts

\* A job's pages go to the model once: at most a transcription and a grading
\* are charged for a page, however often workers restart or fail each other's
\* jobs.  A failed job is never taken up again; the teacher uploads anew.
ChargedOnce ==
    \A j \in Jobs : job[j] # NoJob => calls[j] <= 2 * PagesOf(j)

\* The budget is read before a call and counted after it (call_vision), so the
\* daily limit of a provider can be passed, but only by the calls that were
\* under way together: one less than there are worker processes.
LimitNearlyHolds ==
    DailyLimit # 0 => today <= DailyLimit + Cardinality(Workers) - 1

\* What a school pays for: neither restarts nor parallel workers multiply the calls.
CallsAreBounded == ChargedOnce /\ LimitNearlyHolds
=============================================================================
