---------------------------- MODULE MarkingProofs ----------------------------
(***************************************************************************)
(* What marking keeps, for any number of students, teachers, questions,    *)
(* jobs and workers, and for all values of the bounds.  Each component has *)
(* an inductive invariant of its own; since a step of one leaves the       *)
(* variables of the others alone, all four hold together.                  *)
(***************************************************************************)
EXTENDS MCMarking, FiniteSetTheorems, WellFoundedInduction, TLAPS

-----------------------------------------------------------------------------
(***************************************************************************)
(* The calls of scan jobs are bounded.  A job is claimed once, since       *)
(* nothing queues it again, so one worker reads its pages in turn and      *)
(* charges at most two calls for each, even when another worker has failed *)
(* the job meanwhile.  A call is made only while the day's count is below  *)
(* the limit; those under way together are at most as many as there are    *)
(* workers.                                                                *)
(***************************************************************************)
Calling == {"transcribing", "grading"}
Reading == {"page", "transcribing", "transcribed", "grading", "matching"}
Ending  == {"claimed", "preview", "done"}
JobRow  == [status : {"none", "queued", "running", "failed", "completed"},
            content : Contents \cup {"none"}, read : Nat]
Process == [at : {"stopped", "free"} \cup Reading \cup Ending, job : Jobs \cup {"none"}, page : Nat]

Typed ==
    /\ job \in [Jobs -> JobRow]
    /\ worker \in [Workers -> Process]
    /\ calls \in [Jobs -> Nat]
    /\ today \in Nat

Working(w) == worker[w].at \in Reading \cup Ending
New(j)     == job[j].status \in {"none", "queued"}

\* What a worker may have spent on its job where it stands.
Quota(w) ==
    CASE worker[w].at \in {"page", "transcribing"}    -> 2 * (worker[w].page - 1)
      [] worker[w].at \in {"transcribed", "grading"}  -> 2 * worker[w].page - 1
      [] worker[w].at = "matching"                    -> 2 * worker[w].page
      [] worker[w].at = "claimed"                     -> 0
      [] OTHER                                        -> 2 * PagesOf(On(w))

\* A worker reads the pages of a job that is queued no more, within its quota.
InOrder(w) ==
    Working(w) =>
        /\ On(w) \in Jobs /\ ~New(On(w))
        /\ worker[w].at \in Reading => worker[w].page \in 1..PagesOf(On(w))
        /\ calls[On(w)] <= Quota(w)

\* A job nobody has claimed has cost nothing, and no job more than its pages.
Priced(j) ==
    /\ job[j].status = "none" => job[j] = NoJob
    /\ job[j].status # "none" => job[j].content \in Contents /\ calls[j] <= 2 * PagesOf(j)
    /\ New(j) => calls[j] = 0

OneWorkerEach ==
    \A v, w \in Workers : Working(v) /\ Working(w) /\ On(v) = On(w) => v = w

InCall == {w \in Workers : worker[w].at \in Calling}

\* Calls under way count as well.
WithinBudget ==
    DailyLimit # 0 => today + Cardinality(InCall) <= DailyLimit + Cardinality(Workers) - 1

ScanInv ==
    /\ Typed /\ OneWorkerEach /\ WithinBudget
    /\ \A w \in Workers : InOrder(w)
    /\ \A j \in Jobs : Priced(j)

-----------------------------------------------------------------------------
(***************************************************************************)
(* Types.                                                                  *)
(***************************************************************************)
LEMMA FreeIsProcess == Free \in Process /\ Stopped \in Process
BY DEF Free, Stopped, Process

\* A process that is moved stays one.
LEMMA ProcessChange ==
    ASSUME Typed, NEW w \in Workers
    PROVE  /\ \A s \in {"stopped", "free"} \cup Reading \cup Ending :
                 [worker EXCEPT ![w].at = s] \in [Workers -> Process]
           /\ \A s \in {"stopped", "free"} \cup Reading \cup Ending, n \in Nat :
                 [worker EXCEPT ![w].at = s, ![w].page = n] \in [Workers -> Process]
BY DEF Typed, Process

\* A job that is moved stays one.
LEMMA JobChange ==
    ASSUME Typed, NEW j \in Jobs
    PROVE  /\ \A s \in {"none", "queued", "running", "failed", "completed"} :
                 [job EXCEPT ![j].status = s] \in [Jobs -> JobRow]
           /\ \A n \in Nat : [job EXCEPT ![j].read = n] \in [Jobs -> JobRow]
BY DEF Typed, JobRow

LEMMA FailIsTyped ==
    ASSUME Typed, NEW w \in Workers, On(w) \in Jobs, Fail(w)
    PROVE  job' \in [Jobs -> JobRow] /\ worker' \in [Workers -> Process]
<1>1. job' \in [Jobs -> JobRow]
    BY JobChange DEF Fail
<1>2. worker' \in [Workers -> Process]
    BY FreeIsProcess DEF Fail, Typed
<1> QED
    BY <1>1, <1>2

\* The places a worker moves to along the pages.
LEMMA Places ==
    /\ "page" \in Reading /\ "transcribing" \in Reading /\ "transcribed" \in Reading
    /\ "grading" \in Reading /\ "matching" \in Reading
    /\ "claimed" \in Ending /\ "preview" \in Ending /\ "done" \in Ending
BY DEF Reading, Ending

LEMMA InitTyped == ScanInit => Typed
<1> SUFFICES ASSUME ScanInit PROVE Typed
    OBVIOUS
<1>1. job \in [Jobs -> JobRow]
    BY DEF ScanInit, NoJob, JobRow
<1> QED
    BY <1>1, FreeIsProcess DEF ScanInit, Typed

LEMMA TypedStep ==
    ASSUME ScanInv, [ScanNext]_scanVars PROVE Typed'
<1> USE DEF Typed
<1>t. Typed /\ \A w \in Workers : Working(w) => On(w) \in Jobs
    BY DEF ScanInv, InOrder
<1> DEFINE Rows == job' \in [Jobs -> JobRow]
           Processes == worker' \in [Workers -> Process]
<1>c. ASSUME NEW w \in Workers, On(w) \in Jobs, Charge(w)
      PROVE  calls' \in [Jobs -> Nat] /\ today' \in Nat
    BY <1>t, <1>c DEF Charge
<1>1. ASSUME NEW j \in Jobs, NEW c \in Contents, ScanUpload(j, c) PROVE Typed'
    <2>1. Rows
        BY <1>t, <1>1 DEF ScanUpload, JobRow
    <2> QED
        BY <1>t, <1>1, <2>1 DEF ScanUpload
<1>2. ASSUME NEW w \in Workers, Start(w) PROVE Typed'
    <2>1. Rows
        <3>1. \A j \in Jobs : job'[j] = job[j] \/ job'[j] = [job[j] EXCEPT !.status = "failed"]
            BY <1>2 DEF Start
        <3>2. \A j \in Jobs : [job[j] EXCEPT !.status = "failed"] \in JobRow
            BY <1>t DEF JobRow
        <3> QED
            BY <1>t, <1>2, <3>1, <3>2 DEF Start
    <2>2. Processes
        BY <1>t, <1>2, FreeIsProcess DEF Start
    <2> QED
        BY <1>t, <1>2, <2>1, <2>2 DEF Start
<1>3. ASSUME NEW w \in Workers, Crash(w) PROVE Typed'
    <2>1. Processes
        BY <1>t, <1>3, FreeIsProcess DEF Crash
    <2> QED
        BY <1>t, <1>3, <2>1 DEF Crash
<1>4. ASSUME NEW w \in Workers, NEW j \in Jobs, Claim(w, j) PROVE Typed'
    <2>1. Rows
        <3>1. PICK late \in SUBSET {i \in Jobs : job[i].status = "running"} :
                job' = [i \in Jobs |-> IF i = j THEN [job[j] EXCEPT !.status = ClaimedStatus]
                                 ELSE IF i \in late THEN [job[i] EXCEPT !.status = "failed"] ELSE job[i]]
            BY <1>4 DEF Claim
        <3>2. \A i \in Jobs : [job[i] EXCEPT !.status = "failed"] \in JobRow
                              /\ [job[i] EXCEPT !.status = ClaimedStatus] \in JobRow
            BY <1>t DEF JobRow, ClaimedStatus
        <3> QED
            BY <1>t, <3>1, <3>2
    <2>2. Processes
        <3>1. [Free EXCEPT !.at = "claimed", !.job = j] \in Process
            BY Places DEF Free, Stopped, Process
        <3> QED
            BY <1>t, <1>4, <3>1 DEF Claim
    <2> QED
        BY <1>t, <1>4, <2>1, <2>2 DEF Claim
<1>5. ASSUME NEW w \in Workers, Prepare(w) PROVE Typed'
    <2>1. On(w) \in Jobs
        BY <1>t, <1>5, Places DEF Prepare, At, Working
    <2>2. CASE worker' = [worker EXCEPT ![w].at = "page", ![w].page = 1] /\ UNCHANGED job
        BY <1>t, <1>5, <2>2, ProcessChange, Places DEF Prepare
    <2>3. CASE Fail(w)
        BY <1>t, <1>5, <2>1, <2>3, FailIsTyped DEF Prepare
    <2> QED
        BY <1>5, <2>2, <2>3 DEF Prepare
<1>6. ASSUME NEW w \in Workers, ReadPage(w) PROVE Typed'
    <2>1. On(w) \in Jobs
        BY <1>t, <1>6, Places DEF ReadPage, At, Working
    <2>2. ASSUME NEW s \in {"transcribing", "grading"}, worker' = [worker EXCEPT ![w].at = s],
                 UNCHANGED job
          PROVE  Typed'
        BY <1>t, <1>6, <2>2, ProcessChange, Places DEF ReadPage
    <2>3. CASE Fail(w)
        BY <1>t, <1>6, <2>1, <2>3, FailIsTyped DEF ReadPage
    <2> QED
        BY <1>6, <2>2, <2>3 DEF ReadPage
<1>7. ASSUME NEW w \in Workers, Transcribed(w) \/ Graded(w) PROVE Typed'
    <2>1. On(w) \in Jobs /\ Charge(w)
        BY <1>t, <1>7, Places DEF Transcribed, Graded, At, Working
    <2>2. ASSUME NEW s \in {"transcribed", "matching"}, worker' = [worker EXCEPT ![w].at = s],
                 UNCHANGED job
          PROVE  Typed'
        BY <1>t, <1>c, <2>1, <2>2, ProcessChange, Places
    <2>3. CASE Fail(w)
        BY <1>t, <1>c, <2>1, <2>3, FailIsTyped
    <2> QED
        BY <1>7, <2>2, <2>3 DEF Transcribed, Graded
<1>8. ASSUME NEW w \in Workers, Grade(w) PROVE Typed'
    <2>1. On(w) \in Jobs
        BY <1>t, <1>8, Places DEF Grade, At, Working
    <2>2. CASE worker' = [worker EXCEPT ![w].at = "grading"] /\ UNCHANGED job
        BY <1>t, <1>8, <2>2, ProcessChange, Places DEF Grade
    <2>3. CASE Fail(w)
        BY <1>t, <1>8, <2>1, <2>3, FailIsTyped DEF Grade
    <2> QED
        BY <1>8, <2>2, <2>3 DEF Grade
<1>9. ASSUME NEW w \in Workers, MatchPage(w) PROVE Typed'
    <2>1. On(w) \in Jobs
        BY <1>t, <1>9, Places DEF MatchPage, At, Working
    <2>2. ASSUME job' = [job EXCEPT ![On(w)].read = worker[w].page],
                 worker' = IF worker[w].page < PagesOf(On(w))
                           THEN [worker EXCEPT ![w].at = "page", ![w].page = @ + 1]
                           ELSE [worker EXCEPT ![w].at = "preview"]
          PROVE  Typed'
        <3>1. worker[w].page \in Nat /\ worker[w] \in Process
            BY <1>t DEF Process
        <3>2. Rows
            BY <1>t, <2>1, <2>2, <3>1, JobChange
        <3>3. Processes
            <4>1. CASE worker[w].page < PagesOf(On(w))
                <5>1. worker[w].page + 1 \in Nat
                    BY <3>1
                <5> QED
                    BY <1>t, <2>2, <4>1, <5>1, ProcessChange, Places
            <4>2. CASE ~(worker[w].page < PagesOf(On(w)))
                <5>1. worker' = [worker EXCEPT ![w].at = "preview"]
                    BY <1>t, <2>2, <4>2
                <5> QED
                    BY <1>t, <5>1, ProcessChange, Places
            <4> QED
                BY <4>1, <4>2
        <3> QED
            BY <1>t, <1>9, <3>2, <3>3 DEF MatchPage
    <2>3. CASE Fail(w)
        BY <1>t, <1>9, <2>1, <2>3, FailIsTyped DEF MatchPage
    <2> QED
        BY <1>9, <2>2, <2>3 DEF MatchPage
<1>10. ASSUME NEW w \in Workers, MakePreview(w) PROVE Typed'
    <2>1. On(w) \in Jobs
        BY <1>t, <1>10, Places DEF MakePreview, At, Working
    <2>2. CASE worker' = [worker EXCEPT ![w].at = "done"] /\ UNCHANGED job
        BY <1>t, <1>10, <2>2, ProcessChange, Places DEF MakePreview
    <2>3. CASE Fail(w)
        BY <1>t, <1>10, <2>1, <2>3, FailIsTyped DEF MakePreview
    <2> QED
        BY <1>10, <2>2, <2>3 DEF MakePreview
<1>11. ASSUME NEW w \in Workers, Complete(w) PROVE Typed'
    <2>1. On(w) \in Jobs
        BY <1>t, <1>11, Places DEF Complete, At, Working
    <2>2. Rows
        BY <1>t, <1>11, <2>1, JobChange DEF Complete
    <2>3. Processes
        BY <1>t, <1>11, FreeIsProcess DEF Complete
    <2> QED
        BY <1>t, <1>11, <2>2, <2>3 DEF Complete
<1>12. CASE SaveProviderConfig \/ PublishExam \/ UNCHANGED scanVars
    BY <1>t, <1>12 DEF SaveProviderConfig, PublishExam, scanVars
<1> QED
    BY <1>1, <1>2, <1>3, <1>4, <1>5, <1>6, <1>7, <1>8, <1>9, <1>10, <1>11, <1>12
    DEF ScanNext, Uploads, Starts, Crashes, Claims, Prepares, ReadPages, Transcriptions, Grades,
        GradedAll, Matches, Previews, Completes

-----------------------------------------------------------------------------
(***************************************************************************)
(* One worker reads a job.                                                 *)
(***************************************************************************)
\* A job that is queued no more never is again, and keeps its content.
Kept(j) ==
    \/ job'[j] = job[j]
    \/ ~New(j) /\ ~New(j)' /\ job'[j].content = job[j].content

OrderInv == OneWorkerEach /\ (\A w \in Workers : InOrder(w)) /\ (\A j \in Jobs : Priced(j))

\* A step of one worker, which goes on with its job or leaves it.
LEMMA OneMoves ==
    ASSUME ScanInv, Typed', NEW w \in Workers,
           \A v \in Workers \ {w} : worker'[v] = worker[v],
           \A j \in Jobs : Kept(j),
           \A j \in Jobs : \/ calls'[j] = calls[j]
                           \/ Working(w) /\ j = On(w) /\ calls'[j] <= 2 * PagesOf(j),
           Working(w)' => Working(w) /\ On(w)' = On(w) /\ InOrder(w)'
    PROVE  OrderInv'
<1> USE DEF On, PagesOf
<1> USE DEF ScanInv
<1>1. OneWorkerEach'
    BY DEF OneWorkerEach, Working
<1>2. ASSUME NEW v \in Workers, v # w, Working(v)' PROVE InOrder(v)'
    <2>1. Working(v) /\ worker'[v] = worker[v] /\ On(v) \in Jobs /\ ~New(On(v))
        BY <1>2 DEF Working, InOrder
    <2>2. Working(w) => On(w) # On(v)
        BY <1>2, <2>1 DEF OneWorkerEach
    <2>3. calls'[On(v)] = calls[On(v)]
        BY <2>1, <2>2
    <2>4. ~New(On(v))' /\ job'[On(v)].content = job[On(v)].content
        BY <2>1 DEF Kept, New
    <2>5. Quota(v)' = Quota(v)
        BY <2>1, <2>4 DEF Quota
    <2> QED
        BY <2>1, <2>3, <2>4, <2>5 DEF InOrder, Working
<1>3. \A v \in Workers : InOrder(v)'
    BY <1>2 DEF InOrder
<1>4. ASSUME NEW j \in Jobs PROVE Priced(j)'
    <2>1. CASE calls'[j] = calls[j]
        BY <2>1 DEF Kept, Priced, New, NoJob
    <2>2. CASE Working(w) /\ j = On(w) /\ calls'[j] <= 2 * PagesOf(j)
        <3>1. ~New(j) /\ ~New(j)' /\ job'[j].content = job[j].content
            BY <2>2 DEF InOrder, Kept, New
        <3> QED
            BY <2>2, <3>1 DEF Priced, New
    <2> QED
        BY <2>1, <2>2
<1> QED
    BY <1>1, <1>3, <1>4 DEF OrderInv

\* A worker that fails its job leaves it.
LEMMA FailLeaves ==
    ASSUME ScanInv, NEW w \in Workers, Working(w), Fail(w)
    PROVE  /\ \A v \in Workers \ {w} : worker'[v] = worker[v]
           /\ \A j \in Jobs : Kept(j)
           /\ ~Working(w)'
<1>1. On(w) \in Jobs /\ ~New(On(w))
    BY DEF ScanInv, InOrder
<1>2. \A j \in Jobs : Kept(j)
    BY <1>1 DEF Fail, Kept, New, ScanInv, Typed, JobRow
<1>3. ~Working(w)' /\ \A v \in Workers \ {w} : worker'[v] = worker[v]
    BY DEF Fail, Working, Free, Stopped, Reading, Ending, ScanInv, Typed
<1> QED
    BY <1>2, <1>3

\* A worker that pays for a call has the quota for it.
LEMMA PaidMove ==
    ASSUME ScanInv, NEW w \in Workers, Working(w), Charge(w), job' = job,
           \/ worker[w].at = "transcribing" /\ worker' = [worker EXCEPT ![w].at = "transcribed"]
           \/ worker[w].at = "grading" /\ worker' = [worker EXCEPT ![w].at = "matching"]
    PROVE  Working(w)' /\ On(w)' = On(w) /\ InOrder(w)'
<1> USE DEF On, PagesOf
<1>1. worker[w] \in Process /\ On(w) \in Jobs /\ ~New(On(w)) /\ calls[On(w)] \in Nat
      /\ calls[On(w)] <= Quota(w) /\ worker[w].page \in Nat
    BY DEF ScanInv, Typed, InOrder, Process
<1>2. worker[w].page \in 1..PagesOf(On(w))
    BY DEF ScanInv, InOrder, Reading
<1>3. worker'[w].page = worker[w].page /\ On(w)' = On(w)
      /\ \/ worker[w].at = "transcribing" /\ worker'[w].at = "transcribed"
         \/ worker[w].at = "grading" /\ worker'[w].at = "matching"
    BY <1>1 DEF ScanInv, Typed, Process
<1>4. calls'[On(w)] = calls[On(w)] + 1
    BY <1>1 DEF Charge, ScanInv, Typed
<1>5. Quota(w)' = Quota(w) + 1
    BY <1>1, <1>3 DEF Quota
<1>6. calls'[On(w)] <= Quota(w)'
    <2>1. Quota(w) \in Int
        BY <1>1, <1>3 DEF Quota
    <2> QED
        BY <1>1, <1>4, <1>5, <2>1
<1> QED
    BY <1>1, <1>2, <1>3, <1>6 DEF InOrder, Working, Reading, New

\* A call is within what the pages of its job cost.
LEMMA PaidIsPriced ==
    ASSUME ScanInv, NEW w \in Workers, worker[w].at \in Calling, Charge(w)
    PROVE  \A j \in Jobs : \/ calls'[j] = calls[j]
                           \/ Working(w) /\ j = On(w) /\ calls'[j] <= 2 * PagesOf(j)
<1>1. Working(w) /\ On(w) \in Jobs /\ calls[On(w)] \in Nat /\ calls[On(w)] <= Quota(w)
      /\ worker[w].page \in 1..PagesOf(On(w)) /\ worker[w].page \in Nat
    BY DEF ScanInv, Typed, InOrder, Process, Working, Reading, Calling, On
<1>2. calls'[On(w)] = calls[On(w)] + 1 /\ \A j \in Jobs : j # On(w) => calls'[j] = calls[j]
    BY <1>1 DEF Charge, ScanInv, Typed
<1>3. PagesOf(On(w)) \in Nat
    <2>1. job[On(w)].content \in Contents
        BY <1>1 DEF ScanInv, InOrder, Priced, New
    <2> QED
        BY <2>1, ScanAssumption DEF PagesOf
<1>4. calls[On(w)] + 1 <= 2 * PagesOf(On(w))
    BY <1>1, <1>3 DEF Quota, Calling
<1> QED
    BY <1>1, <1>2, <1>4

LEMMA OrderStep ==
    ASSUME ScanInv, Typed', [ScanNext]_scanVars PROVE OrderInv'
<1> USE DEF ScanInv
<1>k. ASSUME NEW j \in Jobs, job'[j] = job[j] PROVE Kept(j)
    BY <1>k DEF Kept
<1>w. ASSUME NEW w \in Workers PROVE worker[w] \in Process /\ worker[w].page \in Nat
    BY DEF Typed, Process
<1>p. ASSUME NEW w \in Workers, Working(w)
      PROVE  On(w) \in Jobs /\ PagesOf(On(w)) \in Nat
    BY <1>p, ScanAssumption DEF InOrder, Priced, New, PagesOf
<1>1. ASSUME NEW j \in Jobs, NEW c \in Contents, ScanUpload(j, c) PROVE OrderInv'
    <2>1. job[j] = NoJob /\ New(j) /\ calls' = calls /\ worker' = worker
          /\ job' = [job EXCEPT ![j] = [status |-> "queued", content |-> c, read |-> 0]]
        BY <1>1 DEF ScanUpload, NoJob, New
    <2>2. OneWorkerEach'
        BY <2>1 DEF OneWorkerEach, Working, On
    <2>3. ASSUME NEW v \in Workers, Working(v) PROVE InOrder(v)'
        <3>1. On(v) # j /\ On(v) \in Jobs
            BY <2>1, <2>3 DEF InOrder
        <3>2. job'[On(v)] = job[On(v)]
            BY <2>1, <3>1
        <3> QED
            BY <2>1, <2>3, <3>2 DEF InOrder, Working, Quota, New, PagesOf, On
    <2>4. \A v \in Workers : InOrder(v)'
        BY <2>1, <2>3 DEF InOrder, Working
    <2>5. ASSUME NEW i \in Jobs PROVE Priced(i)'
        <3>1. CASE i = j
            <4>1. job'[j].status = "queued" /\ job'[j].content = c /\ calls'[j] = 0
                BY <2>1 DEF Typed, Priced
            <4>2. PageCount[c] \in Nat
                BY ScanAssumption
            <4> QED
                BY <3>1, <4>1, <4>2 DEF Priced, New, PagesOf
        <3>2. CASE i # j
            BY <2>1, <3>2 DEF Priced, New, PagesOf, Typed
        <3> QED
            BY <3>1, <3>2
    <2> QED
        BY <2>2, <2>4, <2>5 DEF OrderInv
<1>2. ASSUME NEW w \in Workers, Start(w) PROVE OrderInv'
    <2>1. \A j \in Jobs : Kept(j)
        BY <1>2 DEF Start, Kept, New, Typed, JobRow
    <2>2. ~Working(w)' /\ \A v \in Workers \ {w} : worker'[v] = worker[v]
        BY <1>2 DEF Start, Working, Free, Stopped, Reading, Ending, Typed
    <2>3. \A j \in Jobs : calls'[j] = calls[j]
        BY <1>2 DEF Start
    <2> QED
        BY <2>1, <2>2, <2>3, OneMoves
<1>3. ASSUME NEW w \in Workers, Crash(w) PROVE OrderInv'
    <2>1. ~Working(w)' /\ \A v \in Workers \ {w} : worker'[v] = worker[v]
        BY <1>3 DEF Crash, Working, Stopped, Reading, Ending, Typed
    <2>2. (\A j \in Jobs : calls'[j] = calls[j]) /\ (\A j \in Jobs : Kept(j))
        BY <1>3, <1>k DEF Crash
    <2> QED
        BY <2>1, <2>2, OneMoves
<1>4. ASSUME NEW w \in Workers, NEW j \in Jobs, Claim(w, j) PROVE OrderInv'
    <2>1. job[j].status = "queued" /\ calls' = calls /\ calls[j] = 0
        BY <1>4 DEF Claim, Oldest, Priced, New
    <2>2. worker'[w].at = "claimed" /\ On(w)' = j /\ \A v \in Workers \ {w} : worker'[v] = worker[v]
        BY <1>4 DEF Claim, Typed, Free, Stopped, On
    <2>3. ~New(j)' /\ job'[j].content = job[j].content /\ \A i \in Jobs \ {j} : Kept(i)
        BY <1>4 DEF Claim, ClaimedStatus, Kept, New, Typed, JobRow
    <2>4. \A v \in Workers : Working(v) => On(v) # j
        BY <2>1 DEF InOrder, New
    <2>5. OneWorkerEach'
        BY <2>2, <2>4 DEF OneWorkerEach, Working, On
    <2>6. InOrder(w)'
        <3>1. Quota(w)' = 0
            BY <2>2 DEF Quota
        <3>2. worker'[w].at \notin Reading
            BY <2>2 DEF Reading
        <3> QED
            BY <2>1, <2>2, <2>3, <3>1, <3>2 DEF InOrder
    <2>7. ASSUME NEW v \in Workers \ {w}, Working(v) PROVE InOrder(v)'
        <3>1. On(v) \in Jobs \ {j} /\ worker'[v] = worker[v] /\ ~New(On(v))
            BY <2>2, <2>4, <2>7 DEF InOrder
        <3>2. ~New(On(v))' /\ job'[On(v)].content = job[On(v)].content
            BY <2>3, <3>1 DEF Kept, New, On
        <3> QED
            BY <2>1, <2>7, <3>1, <3>2 DEF InOrder, Working, Quota, PagesOf, On
    <2>8. \A v \in Workers : InOrder(v)'
        BY <2>2, <2>6, <2>7 DEF InOrder, Working
    <2>9. \A i \in Jobs : Priced(i)'
        <3>1. ASSUME NEW i \in Jobs, i # j PROVE Priced(i)'
            BY <2>1, <2>3, <3>1 DEF Kept, Priced, New, NoJob, PagesOf
        <3>2. Priced(j)'
            BY <2>1, <2>3 DEF Priced, New, PagesOf
        <3> QED
            BY <3>1, <3>2
    <2> QED
        BY <2>5, <2>8, <2>9 DEF OrderInv
<1>f. ASSUME NEW w \in Workers, Working(w), Fail(w), calls' = calls \/ (worker[w].at \in Calling /\ Charge(w))
      PROVE  OrderInv'
    <2>1. /\ \A v \in Workers \ {w} : worker'[v] = worker[v]
          /\ \A j \in Jobs : Kept(j)
          /\ ~Working(w)'
        BY <1>f, FailLeaves
    <2>2. \A j \in Jobs : \/ calls'[j] = calls[j]
                          \/ Working(w) /\ j = On(w) /\ calls'[j] <= 2 * PagesOf(j)
        BY <1>f, PaidIsPriced
    <2> QED
        BY <2>1, <2>2, OneMoves
<1>m. ASSUME NEW w \in Workers, Working(w), NEW s \in Reading \cup Ending, NEW n \in Nat,
             \A j \in Jobs : Kept(j), \A j \in Jobs : job'[j].content = job[j].content,
             ~New(On(w))', calls' = calls,
             \A v \in Workers \ {w} : worker'[v] = worker[v],
             worker'[w].at = s, worker'[w].page = n, worker'[w].job = worker[w].job,
             s \in Reading => n \in 1..PagesOf(On(w)),
             calls[On(w)] <= Quota(w)'
      PROVE  OrderInv'
    <2>1. Working(w)' /\ On(w)' = On(w) /\ InOrder(w)'
        BY <1>m, <1>p DEF Working, InOrder, On, PagesOf
    <2> QED
        BY <1>m, <2>1, OneMoves
<1>5. ASSUME NEW w \in Workers, Prepare(w) PROVE OrderInv'
    <2>1. worker[w].at = "claimed" /\ Working(w) /\ calls' = calls
        BY <1>5, Places DEF Prepare, At, Working
    <2>2. CASE PagesOf(On(w)) > 0 /\ worker' = [worker EXCEPT ![w].at = "page", ![w].page = 1]
               /\ UNCHANGED job
        <3>1. worker'[w].at = "page" /\ worker'[w].page = 1 /\ worker'[w].job = worker[w].job
              /\ \A v \in Workers \ {w} : worker'[v] = worker[v]
            BY <1>w, <2>2 DEF Typed, Process
        <3>2. Quota(w)' = 0 /\ Quota(w) = 0
            BY <2>1, <3>1 DEF Quota
        <3>3. calls[On(w)] <= Quota(w)' /\ ~New(On(w))'
            BY <2>1, <2>2, <3>1, <3>2 DEF InOrder, New, On
        <3>4. 1 \in 1..PagesOf(On(w))
            BY <1>p, <2>1, <2>2
        <3> QED
            BY <1>k, <1>m, <2>1, <2>2, <3>1, <3>3, <3>4, Places
    <2> QED
        BY <1>5, <1>f, <2>1, <2>2 DEF Prepare
<1>6. ASSUME NEW w \in Workers, ReadPage(w) PROVE OrderInv'
    <2>1. worker[w].at = "page" /\ Working(w) /\ calls' = calls
        BY <1>6, Places DEF ReadPage, At, Working
    <2>2. ASSUME NEW s \in {"transcribing", "grading"}, worker' = [worker EXCEPT ![w].at = s],
                 UNCHANGED job
          PROVE  OrderInv'
        <3>1. worker'[w].at = s /\ worker'[w].page = worker[w].page /\ worker'[w].job = worker[w].job
              /\ \A v \in Workers \ {w} : worker'[v] = worker[v]
            BY <1>w, <2>2 DEF Typed, Process
        <3>2. Quota(w) = 2 * (worker[w].page - 1)
              /\ (Quota(w)' = 2 * (worker[w].page - 1) \/ Quota(w)' = 2 * worker[w].page - 1)
            BY <2>1, <2>2, <3>1 DEF Quota
        <3>3. calls[On(w)] <= Quota(w) /\ calls[On(w)] \in Nat /\ ~New(On(w))
              /\ worker[w].page \in 1..PagesOf(On(w))
            BY <1>p, <2>1, Places DEF InOrder, Typed
        <3>4. calls[On(w)] <= Quota(w)'
            BY <1>w, <3>2, <3>3
        <3>5. ~New(On(w))'
            BY <2>2, <3>1, <3>3 DEF New, On
        <3>6. s \in Reading \cup Ending
            BY <2>2, Places
        <3> QED
            BY <1>k, <1>m, <1>w, <2>1, <2>2, <3>1, <3>3, <3>4, <3>5, <3>6
    <2> QED
        BY <1>6, <1>f, <2>1, <2>2 DEF ReadPage
<1>7. ASSUME NEW w \in Workers, Transcribed(w) \/ Graded(w) PROVE OrderInv'
    <2>1. worker[w].at \in Calling /\ Working(w) /\ Charge(w)
        BY <1>7, Places DEF Transcribed, Graded, At, Working, Calling
    <2>2. ASSUME job' = job,
                 \/ worker[w].at = "transcribing" /\ worker' = [worker EXCEPT ![w].at = "transcribed"]
                 \/ worker[w].at = "grading" /\ worker' = [worker EXCEPT ![w].at = "matching"]
          PROVE  OrderInv'
        <3>1. Working(w)' /\ On(w)' = On(w) /\ InOrder(w)'
            BY <2>1, <2>2, PaidMove
        <3>2. \A v \in Workers \ {w} : worker'[v] = worker[v]
            BY <2>2 DEF Typed
        <3>3. \A j \in Jobs : Kept(j)
            BY <1>k, <2>2
        <3> QED
            BY <2>1, <3>1, <3>2, <3>3, OneMoves, PaidIsPriced
    <2> QED
        BY <1>7, <1>f, <2>1, <2>2 DEF Transcribed, Graded, At
<1>8. ASSUME NEW w \in Workers, Grade(w) PROVE OrderInv'
    <2>1. worker[w].at = "transcribed" /\ Working(w) /\ calls' = calls
        BY <1>8, Places DEF Grade, At, Working
    <2>2. CASE worker' = [worker EXCEPT ![w].at = "grading"] /\ UNCHANGED job
        <3>1. worker'[w].at = "grading" /\ worker'[w].page = worker[w].page
              /\ worker'[w].job = worker[w].job /\ \A v \in Workers \ {w} : worker'[v] = worker[v]
            BY <1>w, <2>2 DEF Typed, Process
        <3>2. Quota(w)' = Quota(w)
            BY <2>1, <3>1 DEF Quota
        <3>3. calls[On(w)] <= Quota(w) /\ ~New(On(w)) /\ worker[w].page \in 1..PagesOf(On(w))
            BY <2>1, Places DEF InOrder
        <3>4. ~New(On(w))'
            BY <2>2, <3>1, <3>3 DEF New, On
        <3> QED
            BY <1>k, <1>m, <1>w, <2>1, <2>2, <3>1, <3>2, <3>3, <3>4, Places
    <2> QED
        BY <1>8, <1>f, <2>1, <2>2 DEF Grade
<1>9. ASSUME NEW w \in Workers, MatchPage(w) PROVE OrderInv'
    <2>1. worker[w].at = "matching" /\ Working(w) /\ calls' = calls /\ On(w) \in Jobs /\ ~New(On(w))
        BY <1>9, Places DEF MatchPage, At, Working, InOrder
    <2>2. ASSUME job' = [job EXCEPT ![On(w)].read = worker[w].page],
                 worker' = IF worker[w].page < PagesOf(On(w))
                           THEN [worker EXCEPT ![w].at = "page", ![w].page = @ + 1]
                           ELSE [worker EXCEPT ![w].at = "preview"]
          PROVE  OrderInv'
        <3>1. \A j \in Jobs : job'[j].status = job[j].status /\ job'[j].content = job[j].content
            BY <2>2 DEF Typed, JobRow
        <3>2. \A j \in Jobs : Kept(j)
            <4>1. \A j \in Jobs \ {On(w)} : job'[j] = job[j]
                BY <2>2 DEF Typed
            <4> QED
                BY <2>1, <3>1, <4>1 DEF Kept, New
        <3>3. \A v \in Workers \ {w} : worker'[v] = worker[v]
            BY <2>2 DEF Typed
        <3>4. calls[On(w)] <= 2 * worker[w].page /\ worker[w].page \in 1..PagesOf(On(w))
              /\ calls[On(w)] \in Nat /\ PagesOf(On(w)) \in Nat
            BY <1>p, <2>1, Places DEF InOrder, Quota, Typed
        <3>5. worker'[w].job = worker[w].job /\ On(w)' = On(w)
            BY <1>w, <2>2 DEF Typed, Process, On
        <3>6. ~New(On(w))' /\ PagesOf(On(w))' = PagesOf(On(w))
            BY <2>1, <3>1, <3>5 DEF New, PagesOf
        <3>7. CASE worker[w].page < PagesOf(On(w))
            <4>1. worker'[w].at = "page" /\ worker'[w].page = worker[w].page + 1
                BY <1>w, <2>2, <3>7 DEF Typed, Process
            <4>2. Quota(w)' = 2 * worker[w].page
                <5>1. Quota(w)' = 2 * (worker'[w].page - 1)
                    BY <4>1 DEF Quota
                <5> QED
                    BY <1>w, <4>1, <5>1
            <4>3. worker[w].page + 1 \in 1..PagesOf(On(w)) /\ calls[On(w)] <= Quota(w)'
                  /\ worker[w].page + 1 \in Nat
                BY <1>w, <3>4, <3>7, <4>2
            <4> QED
                BY <1>m, <2>1, <3>1, <3>2, <3>3, <3>5, <3>6, <4>1, <4>3, Places
        <3>8. CASE ~(worker[w].page < PagesOf(On(w)))
            <4>1. worker'[w].at = "preview" /\ worker'[w].page = worker[w].page
                BY <1>w, <2>2, <3>8 DEF Typed, Process
            <4>2. Quota(w)' = 2 * PagesOf(On(w))
                BY <3>5, <3>6, <4>1 DEF Quota
            <4>3. calls[On(w)] <= Quota(w)'
                BY <1>w, <3>4, <4>2
            <4>4. "preview" \notin Reading
                BY DEF Reading
            <4> QED
                BY <1>m, <1>w, <2>1, <3>1, <3>2, <3>3, <3>5, <3>6, <4>1, <4>3, <4>4, Places
        <3> QED
            BY <3>7, <3>8
    <2> QED
        BY <1>9, <1>f, <2>1, <2>2 DEF MatchPage
<1>10. ASSUME NEW w \in Workers, MakePreview(w) PROVE OrderInv'
    <2>1. worker[w].at = "preview" /\ Working(w) /\ calls' = calls
        BY <1>10, Places DEF MakePreview, At, Working
    <2>2. CASE worker' = [worker EXCEPT ![w].at = "done"] /\ UNCHANGED job
        <3>1. worker'[w].at = "done" /\ worker'[w].page = worker[w].page
              /\ worker'[w].job = worker[w].job /\ \A v \in Workers \ {w} : worker'[v] = worker[v]
            BY <1>w, <2>2 DEF Typed, Process
        <3>2. Quota(w)' = Quota(w)
            BY <2>1, <2>2, <3>1 DEF Quota, PagesOf, On
        <3>3. calls[On(w)] <= Quota(w) /\ ~New(On(w))
            BY <2>1 DEF InOrder
        <3>4. ~New(On(w))' /\ "done" \notin Reading
            BY <2>2, <3>1, <3>3 DEF New, On, Reading
        <3> QED
            BY <1>k, <1>m, <1>w, <2>1, <2>2, <3>1, <3>2, <3>3, <3>4, Places
    <2> QED
        BY <1>10, <1>f, <2>1, <2>2 DEF MakePreview
<1>11. ASSUME NEW w \in Workers, Complete(w) PROVE OrderInv'
    <2>1. Working(w) /\ On(w) \in Jobs /\ ~New(On(w)) /\ calls' = calls
        BY <1>11, Places DEF Complete, At, Working, InOrder
    <2>2. \A j \in Jobs : Kept(j)
        BY <1>11, <2>1 DEF Complete, Kept, New, Typed, JobRow
    <2>3. ~Working(w)' /\ \A v \in Workers \ {w} : worker'[v] = worker[v]
        BY <1>11 DEF Complete, Working, Free, Stopped, Reading, Ending, Typed
    <2> QED
        BY <2>1, <2>2, <2>3, OneMoves
<1>12. CASE SaveProviderConfig \/ PublishExam \/ UNCHANGED scanVars
    <2>1. job' = job /\ worker' = worker /\ calls' = calls
        BY <1>12 DEF SaveProviderConfig, PublishExam, scanVars
    <2>2. OneWorkerEach' /\ \A w \in Workers : InOrder(w)'
        BY <2>1 DEF OneWorkerEach, InOrder, Working, New, Quota, On, PagesOf
    <2>3. \A j \in Jobs : Priced(j)'
        BY <2>1 DEF Priced, New, PagesOf
    <2> QED
        BY <2>2, <2>3 DEF OrderInv
<1> QED
    BY <1>1, <1>2, <1>3, <1>4, <1>5, <1>6, <1>7, <1>8, <1>9, <1>10, <1>11, <1>12
    DEF ScanNext, Uploads, Starts, Crashes, Claims, Prepares, ReadPages, Transcriptions, Grades,
        GradedAll, Matches, Previews, Completes

-----------------------------------------------------------------------------
(***************************************************************************)
(* The budget.                                                             *)
(***************************************************************************)
LEMMA InCallIsFinite == IsFiniteSet(InCall) /\ Cardinality(InCall) \in Nat
BY ScanAssumption, FS_Subset, FS_CardinalityType DEF InCall

\* Fewer calls under way and no more paid: still within the budget.
LEMMA NoNewCall ==
    ASSUME ScanInv, today' = today, InCall' \subseteq InCall PROVE WithinBudget'
<1>1. Cardinality(InCall') <= Cardinality(InCall) /\ Cardinality(InCall') \in Nat
    BY InCallIsFinite, FS_Subset, FS_CardinalityType
<1>2. Cardinality(Workers) \in Nat /\ DailyLimit \in Nat
    BY ScanAssumption, FS_CardinalityType
<1> QED
    BY <1>1, <1>2, InCallIsFinite DEF ScanInv, WithinBudget, Typed

\* A call that ends is paid.
LEMMA CallPaid ==
    ASSUME ScanInv, NEW w \in InCall, today' = today + 1, InCall' \subseteq InCall \ {w}
    PROVE  WithinBudget'
<1>1. Cardinality(InCall \ {w}) = Cardinality(InCall) - 1 /\ IsFiniteSet(InCall \ {w})
    BY InCallIsFinite, FS_RemoveElement
<1>2. Cardinality(InCall') <= Cardinality(InCall) - 1 /\ Cardinality(InCall') \in Nat
    BY <1>1, FS_Subset, FS_CardinalityType
<1>3. Cardinality(Workers) \in Nat /\ DailyLimit \in Nat
    BY ScanAssumption, FS_CardinalityType
<1> QED
    BY <1>2, <1>3, InCallIsFinite DEF ScanInv, WithinBudget, Typed

\* A call begins while the day is below its limit.
LEMMA CallBegins ==
    ASSUME ScanInv, BudgetAllows, today' = today PROVE WithinBudget'
<1>1. InCall' \subseteq Workers
    BY DEF InCall
<1>2. Cardinality(InCall') <= Cardinality(Workers) /\ Cardinality(InCall') \in Nat
    BY <1>1, ScanAssumption, FS_Subset, FS_CardinalityType
<1>3. Cardinality(Workers) \in Nat /\ DailyLimit \in Nat
    BY ScanAssumption, FS_CardinalityType
<1> QED
    BY <1>2, <1>3 DEF ScanInv, WithinBudget, Typed, BudgetAllows

LEMMA BudgetStep ==
    ASSUME ScanInv, [ScanNext]_scanVars PROVE WithinBudget'
<1> USE DEF ScanInv
<1>e. ASSUME NEW w \in Workers, NEW s, s \notin Calling,
             \A v \in Workers \ {w} : worker'[v] = worker[v], worker'[w].at = s
      PROVE  InCall' \subseteq InCall \ {w}
    BY <1>e DEF InCall
<1>f. ASSUME NEW w \in Workers, Fail(w) PROVE InCall' \subseteq InCall \ {w}
    <2>1. worker'[w].at = "free" /\ \A v \in Workers \ {w} : worker'[v] = worker[v]
        BY <1>f DEF Fail, Free, Stopped, Typed
    <2> QED
        BY <1>e, <2>1 DEF Calling
<1>s. ASSUME NEW w \in Workers, NEW s \in {"transcribed", "matching", "done", "page", "preview"},
             \/ worker' = [worker EXCEPT ![w].at = s]
             \/ \E n \in Nat : worker' = [worker EXCEPT ![w].at = s, ![w].page = n]
      PROVE  InCall' \subseteq InCall \ {w}
    <2>1. worker'[w].at = s /\ \A v \in Workers \ {w} : worker'[v] = worker[v]
        BY <1>s DEF Typed, Process
    <2> QED
        BY <1>e, <1>s, <2>1 DEF Calling
<1>1. ASSUME NEW w \in Workers, Start(w) \/ Crash(w) \/ (\E j \in Jobs : Claim(w, j)) \/ Complete(w)
      PROVE  WithinBudget'
    <2>1. today' = today /\ \A v \in Workers \ {w} : worker'[v] = worker[v]
        BY <1>1 DEF Start, Crash, Claim, Complete, Typed
    <2>2. worker'[w].at \in {"free", "stopped", "claimed"}
        <3>1. worker'[w] = Free \/ worker'[w] = Stopped
              \/ \E j \in Jobs : worker'[w] = [Free EXCEPT !.at = "claimed", !.job = j]
            BY <1>1 DEF Start, Crash, Claim, Complete, Typed
        <3>2. Free.at = "free" /\ Stopped.at = "stopped"
            BY DEF Free, Stopped
        <3>3. \A j : [Free EXCEPT !.at = "claimed", !.job = j].at = "claimed"
            BY DEF Free
        <3>4. CASE worker'[w] = Free \/ worker'[w] = Stopped
            BY <3>2, <3>4
        <3>5. CASE \E j \in Jobs : worker'[w] = [Free EXCEPT !.at = "claimed", !.job = j]
            BY <3>3, <3>5
        <3> QED
            BY <3>1, <3>4, <3>5
    <2> QED
        BY <1>e, <2>1, <2>2, NoNewCall DEF Calling
<1>2. ASSUME NEW w \in Workers, Prepare(w) \/ MakePreview(w) PROVE WithinBudget'
    <2>1. InCall' \subseteq InCall \ {w}
        BY <1>2, <1>f, <1>s DEF Prepare, MakePreview
    <2> QED
        BY <1>2, <2>1, NoNewCall DEF Prepare, MakePreview
<1>3. ASSUME NEW w \in Workers, ReadPage(w) \/ Grade(w) PROVE WithinBudget'
    <2>1. today' = today
        BY <1>3 DEF ReadPage, Grade
    <2>2. CASE CallAllowed
        BY <2>1, <2>2, CallBegins DEF CallAllowed
    <2>3. CASE Fail(w)
        BY <1>f, <2>1, <2>3, NoNewCall
    <2> QED
        BY <1>3, <2>2, <2>3 DEF ReadPage, Grade
<1>4. ASSUME NEW w \in Workers, Transcribed(w) \/ Graded(w) PROVE WithinBudget'
    <2>1. w \in InCall /\ today' = today + 1
        BY <1>4 DEF Transcribed, Graded, At, Charge, InCall, Calling
    <2>2. InCall' \subseteq InCall \ {w}
        BY <1>4, <1>f, <1>s DEF Transcribed, Graded
    <2> QED
        BY <2>1, <2>2, CallPaid
<1>5. ASSUME NEW w \in Workers, MatchPage(w) PROVE WithinBudget'
    <2>1. worker[w].page + 1 \in Nat /\ today' = today
        BY <1>5 DEF MatchPage, Typed, Process
    <2>2. InCall' \subseteq InCall \ {w}
        BY <1>5, <1>f, <1>s, <2>1 DEF MatchPage
    <2> QED
        BY <2>1, <2>2, NoNewCall
<1>6. CASE Uploads \/ SaveProviderConfig \/ PublishExam \/ UNCHANGED scanVars
    <2>1. today' = today /\ worker' = worker
        BY <1>6 DEF Uploads, ScanUpload, SaveProviderConfig, PublishExam, scanVars
    <2> QED
        BY <2>1, NoNewCall DEF InCall
<1> QED
    BY <1>1, <1>2, <1>3, <1>4, <1>5, <1>6
    DEF ScanNext, Starts, Crashes, Claims, Prepares, ReadPages, Transcriptions, Grades,
        GradedAll, Matches, Previews, Completes

-----------------------------------------------------------------------------
LEMMA InitInv == ScanInit => ScanInv
<1> SUFFICES ASSUME ScanInit PROVE ScanInv
    OBVIOUS
<1>1. Typed
    BY InitTyped
<1>2. \A w \in Workers : ~Working(w)
    BY DEF ScanInit, Working, Stopped, Reading, Ending
<1>3. OneWorkerEach /\ \A w \in Workers : InOrder(w)
    BY <1>2 DEF OneWorkerEach, InOrder
<1>4. \A j \in Jobs : Priced(j)
    BY DEF ScanInit, Priced, NoJob, New
<1>5. WithinBudget
    <2>1. InCall = {}
        BY DEF ScanInit, InCall, Stopped, Calling
    <2>2. Cardinality(InCall) = 0 /\ Cardinality(Workers) \in Nat /\ DailyLimit \in Nat
        BY <2>1, ScanAssumption, FS_EmptySet, FS_CardinalityType
    <2> QED
        BY <2>2 DEF ScanInit, WithinBudget
<1> QED
    BY <1>1, <1>3, <1>4, <1>5 DEF ScanInv

LEMMA InvBoundsCalls == ScanInv => CallsAreBounded
<1> SUFFICES ASSUME ScanInv PROVE CallsAreBounded
    OBVIOUS
<1>1. ChargedOnce
    BY DEF ScanInv, ChargedOnce, Priced, Typed, JobRow
<1>2. LimitNearlyHolds
    <2>1. Cardinality(Workers) \in Nat /\ DailyLimit \in Nat
        BY ScanAssumption, FS_CardinalityType
    <2> QED
        BY <2>1, InCallIsFinite DEF ScanInv, WithinBudget, LimitNearlyHolds, Typed
<1> QED
    BY <1>1, <1>2 DEF CallsAreBounded

LEMMA ScanStep == ScanInv /\ [ScanNext]_scanVars => ScanInv'
<1> SUFFICES ASSUME ScanInv, [ScanNext]_scanVars PROVE ScanInv'
    OBVIOUS
<1>1. Typed' /\ WithinBudget'
    BY TypedStep, BudgetStep
<1>2. OrderInv'
    BY <1>1, OrderStep
<1> QED
    BY <1>1, <1>2 DEF ScanInv, OrderInv

\* The pages whose images are kept, and how often processes came back.
PagesKept == images \in [Jobs -> SUBSET Nat] /\ restarts \in 0..MaxRestarts

LEMMA PagesStep == ScanInv /\ PagesKept /\ [ScanNext]_scanVars => PagesKept'
<1> SUFFICES ASSUME ScanInv, PagesKept, [ScanNext]_scanVars PROVE PagesKept'
    OBVIOUS
<1>1. CASE Starts
    <2>1. restarts < MaxRestarts /\ restarts' = restarts + 1 /\ images' = images
        BY <1>1 DEF Starts, Start
    <2> QED
        BY <2>1, ScanAssumption DEF PagesKept
<1>2. CASE Matches
    <2>1. PICK w \in Workers : MatchPage(w)
        BY <1>2 DEF Matches
    <2>2. worker[w].page \in Nat
        BY DEF ScanInv, Typed, Process
    <2> QED
        BY <2>1, <2>2 DEF MatchPage, PagesKept
<1>3. CASE UNCHANGED <<images, restarts>>
    BY <1>3 DEF PagesKept
<1> QED
    BY <1>1, <1>2, <1>3
    DEF ScanNext, Uploads, Crashes, Claims, Prepares, ReadPages, Transcriptions, Grades, GradedAll,
        Previews, Completes, ScanUpload, Crash, Claim, Prepare, ReadPage, Transcribed, Grade, Graded,
        MakePreview, Complete, Charge, SaveProviderConfig, PublishExam, scanVars

LEMMA ScansTyped == ScanInv /\ PagesKept => ScanTypeOK
BY DEF ScanInv, Typed, JobRow, Process, PagesKept, ScanTypeOK, On

-----------------------------------------------------------------------------
(* Answer cards and decisions.                                             *)

Published == UNION {[P \X Asked -> 1..MaxDecisions] : P \in SUBSET Students}

\* The tables of the workflow.
RWRows ==
    /\ grading \in {"open", "published"}
    /\ status \in [Students -> {"present", "absent", "not_submitted"}]
    /\ content \in [Asked -> Revisions]
    /\ answers \in [C!Pairs -> C!RowType]
    /\ pending \subseteq C!Pairs
    /\ mistakes \in [C!Pairs -> {"none", "active", "inactive"}]
    /\ publications \in Seq(Published)
    /\ decisions \in 0..MaxDecisions
    /\ shown \in [Teachers -> [C!Pairs -> C!ShownType]]
    /\ previews \in 0..MaxPreviews

\* A correction's preview names a question and a revision, or nothing.
CorrectionFits ==
    /\ correction = [preview |-> correction.preview, active |-> correction.active,
                     count |-> correction.count]
    /\ correction.active \subseteq Asked
    /\ correction.preview.of # "none" =>
          correction.preview.of \in Asked /\ correction.preview.to \in Revisions

\* What the context of a preview says of the rows is what was seen.
SeenInContext(b) ==
    \A row \in b.context[4] : \E o \in C!Pairs :
        b.seen[o].id = row[1] /\ b.seen[o].decision = row[2]

\* An import is kept with its lines and context until it is saved.
BatchFits(b) ==
    \/ \E s \in {"none", "saved", "published"} : b = [C!NoBatch EXCEPT !.state = s]
    \/ /\ b.state = "preview"
       /\ DOMAIN b.lines \subseteq C!Pairs
       /\ b.lines \in [DOMAIN b.lines -> C!Line]
       /\ SeenInContext(b)

BatchesFit ==
    /\ batch = [r \in C!Requests |-> batch[r]]
    /\ \A r \in C!Requests : BatchFits(batch[r])

CardRows ==
    /\ card \in [Cards -> [state : {"unsaved", "awaiting", "assigned", "deleted"},
                           student : Students \cup {C!Nobody}]]
    /\ \A c \in Cards : card[c].state = "assigned" <=> card[c].student # C!Nobody

\* An assignment names a card and a student, who was present when it was previewed.
AssignFits(a) ==
    /\ a.at \in {"idle", "checked", "previewed", "saved"}
    /\ a.at # "idle" => a.card \in Cards /\ a.student \in Students
    /\ a.at = "previewed" =>
          /\ a.batch.lines = C!LinesFor(a.card, a.student)
          /\ a.batch.context[2][a.student] = "present"
          /\ SeenInContext(a.batch)

AssignsFit ==
    /\ assign = [t \in Teachers |-> assign[t]]
    /\ \A t \in Teachers : AssignFits(assign[t])

\* A stored answer belongs to a student who is present, has been decided, and has
\* an id that was drawn with a decision.
StoredIsDecided ==
    \A p \in C!Pairs : answers[p] # C!NoRow =>
        /\ p[1] \in C!Present /\ answers[p].decision \in 1..decisions
        /\ answers[p].id # C!NoId /\ answers[p].id[1] \in 1..decisions

\* Published decisions are decisions that were taken.
PublicationsAreDecided ==
    \A i \in DOMAIN publications : \A p \in DOMAIN publications[i] :
        publications[i][p] \in 1..decisions

\* Before publication nothing is wrong; after it every answer is there.
PublishedIsWhole ==
    /\ grading = "open" => \A p \in C!Pairs : mistakes[p] = "none"
    /\ grading = "published" => C!Present \X Asked \subseteq C!Stored

RWInv ==
    /\ RWRows /\ CorrectionFits /\ BatchesFit
    /\ StoredIsDecided /\ PublicationsAreDecided /\ PublishedIsWhole
    /\ C!PublicationAgrees

CardInv == RWInv /\ CardRows /\ AssignsFit

CardConstants == C!WorkflowAssumption /\ C!CardAssumption

LEMMA CardAssumptions == CardConstants
BY MarkingAssumption DEF CardConstants

LEMMA InitCards == C!CardInit => CardInv
<1> SUFFICES ASSUME C!CardInit PROVE CardInv
    OBVIOUS
<1> USE CardAssumptions DEF CardConstants, C!WorkflowAssumption, C!CardAssumption
<1>1. RWRows
    <2>1. C!NoRow \in C!RowType
        BY DEF C!NoRow, C!RowType
    <2>2. answers = [p \in C!Pairs |-> C!NoRow] /\ publications = <<>> /\ decisions = 0
        BY DEF C!CardInit, C!RWInit
    <2>3. answers \in [C!Pairs -> C!RowType] /\ publications \in Seq(Published)
          /\ decisions \in 0..MaxDecisions
        BY <2>1, <2>2
    <2>4. [id |-> C!NoId, decision |-> 0, moved |-> 0] \in C!ShownType
        BY DEF C!ShownType
    <2>5. shown \in [Teachers -> [C!Pairs -> C!ShownType]]
        BY <2>4 DEF C!CardInit, C!RWInit
    <2>6. /\ grading \in {"open", "published"}
          /\ status \in [Students -> {"present", "absent", "not_submitted"}]
          /\ mistakes \in [C!Pairs -> {"none", "active", "inactive"}]
        BY Zenon DEF C!CardInit, C!RWInit
    <2>7. /\ content \in [Asked -> Revisions] /\ pending \subseteq C!Pairs
          /\ previews \in 0..MaxPreviews
        BY DEF C!CardInit, C!RWInit
    <2> QED
        BY <2>3, <2>5, <2>6, <2>7 DEF RWRows
<1>2. CorrectionFits
    BY DEF C!CardInit, C!RWInit, CorrectionFits, C!NoPreview
<1>3. BatchesFit
    BY DEF C!CardInit, C!RWInit, BatchesFit, BatchFits, C!NoBatch
<1>4. CardRows /\ AssignsFit
    BY DEF C!CardInit, CardRows, AssignsFit, AssignFits, C!Idle
<1>5. StoredIsDecided /\ PublicationsAreDecided /\ PublishedIsWhole /\ C!PublicationAgrees
    BY DEF C!CardInit, C!RWInit, StoredIsDecided, PublicationsAreDecided, PublishedIsWhole,
        C!PublicationAgrees
<1> QED
    BY <1>1, <1>2, <1>3, <1>4, <1>5 DEF CardInv, RWInv

-----------------------------------------------------------------------------
(* What the operators return.                                              *)

Outcomes == {"correct", "wrong", "blank", "pending"}
Texts    == {"right", "other", "unclear", ""}
Prepared == [answer : Texts, outcome : Outcomes, proposed : Outcomes, basis : Revisions,
             scored : BOOLEAN]

LEMMA OutcomesOfLines ==
    ASSUME NEW q \in Asked, NEW g \in C!Line
    PROVE  C!Proposed(q, g) \in Outcomes /\ C!Effective(q, g) \in Outcomes
<1>1. C!Decide(q, g.answer) \in Outcomes
    BY DEF C!Decide, Outcomes
<1>2. C!Proposed(q, g) \in Outcomes
    BY <1>1 DEF C!Proposed, Outcomes
<1>3. g.supplied \in Outcomes \cup {"none"}
    BY DEF C!Line, Outcomes
<1> QED
    BY <1>2, <1>3 DEF C!Effective, Outcomes

LEMMA RecordsOfLines ==
    ASSUME RWRows, NEW lines, DOMAIN lines \subseteq C!Pairs, lines \in [DOMAIN lines -> C!Line]
    PROVE  C!Prepare(lines) \in [DOMAIN lines -> Prepared]
<1> SUFFICES ASSUME NEW p \in DOMAIN lines
             PROVE  [answer |-> lines[p].answer, outcome |-> C!Effective(p[2], lines[p]),
                     proposed |-> C!Proposed(p[2], lines[p]), basis |-> content[p[2]],
                     scored |-> lines[p].score # "none"] \in Prepared
    BY DEF C!Prepare
<1>1. p[2] \in Asked /\ lines[p] \in C!Line
    BY DEF C!Pairs
<1>2. lines[p].answer \in Texts /\ content[p[2]] \in Revisions
    BY <1>1 DEF C!Line, Texts, RWRows
<1> QED
    BY <1>1, <1>2, OutcomesOfLines DEF Prepared

LEMMA NextDecision ==
    ASSUME RWRows, decisions < MaxDecisions
    PROVE  decisions + 1 \in 0..MaxDecisions /\ decisions \in Nat /\ MaxDecisions \in Nat
BY CardAssumptions DEF RWRows, CardConstants, C!WorkflowAssumption

LEMMA ContentOf == ASSUME RWRows, NEW q \in Asked PROVE content[q] \in Revisions
BY DEF RWRows

Spoken   == {"right", "other", ""}
Marks    == {"correct", "wrong", "blank"}
Answered == RequestKeys \X Spoken \X Marks

LEMMA RowTypeIs ==
    C!RowType = [id : C!Ids \cup {C!NoId}, moved : 0..MaxMoves, scored : BOOLEAN,
                 outcome : Outcomes \cup {"none"}, answer : Texts, initial : Texts,
                 decision : 0..MaxDecisions, basis : Revisions, by : Teachers \cup {"none"},
                 requests : SUBSET Answered]
<1>1. Outcomes \cup {"none"} = {"none", "correct", "wrong", "blank", "pending"}
    BY DEF Outcomes
<1> QED
    BY <1>1, Zenon DEF C!RowType, Texts, Answered, Spoken, Marks

LEMMA ChoicesFit ==
    ASSUME NEW c \in C!Choices PROVE c[1] \in Spoken /\ c[2] \in Marks
<1>1. CASE c = <<"right", "correct">>
    BY <1>1 DEF Spoken, Marks
<1>2. CASE c = <<"other", "wrong">>
    BY <1>2 DEF Spoken, Marks
<1>3. CASE c = <<"", "correct">>
    BY <1>3, Zenon DEF Spoken, Marks
<1>4. CASE c = <<"", "wrong">>
    BY <1>4, Zenon DEF Spoken, Marks
<1>5. CASE c = <<"", "blank">>
    BY <1>5, Zenon DEF Spoken, Marks
<1> QED
    BY <1>1, <1>2, <1>3, <1>4, <1>5, Zenon DEF C!Choices

\* The id of a new row.
LEMMA NewIdFits ==
    ASSUME RWRows, decisions < MaxDecisions, NEW p \in C!Pairs
    PROVE  <<decisions + 1, p>> \in C!Ids
<1>1. decisions + 1 \in 1..MaxDecisions
    BY NextDecision
<1> QED
    BY <1>1 DEF C!Ids

\* A decided row, by whatever handler.
LEMMA SavedRowFits ==
    ASSUME RWRows, decisions < MaxDecisions, NEW t \in Teachers, NEW p \in C!Pairs,
           NEW row \in C!RowType, NEW r \in Prepared
    PROVE  LET new == C!SavedRow(t, p, row, r)
           IN  /\ new \in C!RowType
               /\ new.decision = decisions + 1
               /\ new.by = t
               /\ new.id = IF row.id = C!NoId THEN <<decisions + 1, p>> ELSE row.id
               /\ new.moved = row.moved
<1> DEFINE fresh == <<decisions + 1, p>>
<1>1. decisions + 1 \in 0..MaxDecisions /\ fresh \in C!Ids
    BY NextDecision, NewIdFits
<1>2. C!SavedRow(t, p, row, r) =
         [row EXCEPT !.id = IF @ = C!NoId THEN fresh ELSE @, !.scored = @ \/ r.scored,
                     !.outcome = r.outcome, !.answer = r.answer, !.initial = r.answer,
                     !.decision = decisions + 1, !.basis = r.basis, !.by = t]
    BY DEF C!SavedRow
<1> HIDE DEF fresh
<1>3. r.scored \in BOOLEAN /\ r.outcome \in Outcomes /\ r.answer \in Texts /\ r.basis \in Revisions
    BY DEF Prepared
<1>4. row.scored \in BOOLEAN /\ row.id \in C!Ids \cup {C!NoId}
    BY RowTypeIs
<1> DEFINE id == IF row.id = C!NoId THEN fresh ELSE row.id
           scored == row.scored \/ r.scored
<1>5. id \in C!Ids \cup {C!NoId} /\ scored \in BOOLEAN
    BY <1>1, <1>3, <1>4
<1>6. C!SavedRow(t, p, row, r) =
         [row EXCEPT !.id = id, !.scored = scored,
                     !.outcome = r.outcome, !.answer = r.answer, !.initial = r.answer,
                     !.decision = decisions + 1, !.basis = r.basis, !.by = t]
    BY <1>2, RowTypeIs
<1> HIDE DEF id, scored
<1>7. LET new == [row EXCEPT !.id = id, !.scored = scored,
                      !.outcome = r.outcome, !.answer = r.answer, !.initial = r.answer,
                      !.decision = decisions + 1, !.basis = r.basis, !.by = t]
      IN  /\ new \in C!RowType /\ new.decision = decisions + 1 /\ new.by = t /\ new.id = id
          /\ new.moved = row.moved
    BY <1>1, <1>3, <1>5, RowTypeIs
<1> QED
    BY <1>6, <1>7 DEF id, fresh

LEMMA DecidedRowFits ==
    ASSUME RWRows, decisions < MaxDecisions, NEW t \in Teachers, NEW k \in RequestKeys,
           NEW row \in C!RowType, NEW q \in Asked, NEW answer \in Spoken, NEW outcome \in Marks
    PROVE  /\ C!PersonDecides(t, k, row, q, answer, outcome) \in C!RowType
           /\ C!PersonDecides(t, k, row, q, answer, outcome).decision = decisions + 1
           /\ C!PersonDecides(t, k, row, q, answer, outcome).by = t
           /\ C!PersonDecides(t, k, row, q, answer, outcome).id = row.id
           /\ C!PersonDecides(t, k, row, q, answer, outcome).moved = row.moved
           /\ grading # "open" =>
                 C!PersonDecides(t, k, row, q, answer, outcome).initial = row.initial
<1> DEFINE added == <<k, answer, outcome>>
<1>1. decisions + 1 \in 0..MaxDecisions /\ content[q] \in Revisions
    BY NextDecision, ContentOf
<1>2. added \in Answered
    BY DEF Answered
<1>3. answer \in Texts /\ outcome \in Outcomes
    BY DEF Texts, Outcomes, Spoken, Marks
<1>4. C!PersonDecides(t, k, row, q, answer, outcome) =
         [row EXCEPT !.outcome = outcome, !.answer = answer, !.decision = decisions + 1,
                     !.initial = IF grading = "open" THEN answer ELSE @, !.basis = content[q],
                     !.by = t, !.requests = @ \cup {added}]
    BY Zenon DEF C!PersonDecides
<1> HIDE DEF added
<1>5. LET new == [row EXCEPT !.outcome = outcome, !.answer = answer, !.decision = decisions + 1,
                             !.initial = IF grading = "open" THEN answer ELSE @,
                             !.basis = content[q], !.by = t, !.requests = @ \cup {added}]
      IN  /\ new \in C!RowType /\ new.decision = decisions + 1 /\ new.by = t
          /\ new.id = row.id /\ new.moved = row.moved
          /\ grading # "open" => new.initial = row.initial
    BY <1>1, <1>2, <1>3, RowTypeIs
<1> QED
    BY <1>4, <1>5, Zenon

LEMMA WrongRows ==
    ASSUME RWRows, NEW rows, NEW P
    PROVE  C!SyncWrong(rows, P) \in [C!Pairs -> {"none", "active", "inactive"}]
BY DEF C!SyncWrong, RWRows

-----------------------------------------------------------------------------
(* What the steps of a decision have in common.                            *)

LEMMA RWUnchanged == ASSUME RWInv, UNCHANGED C!rwVars PROVE RWInv'
BY DEF RWInv, C!rwVars, RWRows, CorrectionFits, BatchesFit, StoredIsDecided,
    PublicationsAreDecided, PublishedIsWhole, C!PublicationAgrees, C!Present, C!Stored

\* What publication left stays right while its tables are left alone.
LEMMA PublishedUnchanged ==
    ASSUME RWInv, UNCHANGED <<grading, status, answers, mistakes, publications, decisions>>
    PROVE  /\ StoredIsDecided' /\ PublicationsAreDecided' /\ PublishedIsWhole'
           /\ C!PublicationAgrees'
BY DEF RWInv, StoredIsDecided, PublicationsAreDecided, PublishedIsWhole, C!PublicationAgrees,
    C!Present, C!Stored

\* New decisions on some answers of present students.
Decided(t, P) ==
    /\ decisions' = decisions + 1
    /\ answers' \in [C!Pairs -> C!RowType]
    /\ \A p \in P :
          /\ answers'[p].decision = decisions + 1 /\ answers'[p].by = t
          /\ answers'[p].id = IF answers[p].id = C!NoId THEN <<decisions + 1, p>>
                              ELSE answers[p].id
          /\ answers'[p].moved = answers[p].moved
    /\ \A p \in C!Pairs \ P : answers'[p] = answers[p]

LEMMA DecidedIsStored ==
    ASSUME RWInv, NEW t, NEW P, \A p \in P : p[1] \in C!Present, decisions < MaxDecisions,
           Decided(t, P), UNCHANGED status
    PROVE  /\ StoredIsDecided'
           /\ C!Stored \subseteq C!Stored'
           /\ \A p \in C!Pairs : answers'[p].decision > decisions =>
                 p \in P /\ answers'[p].by = t
<1>1. decisions \in Nat
    BY NextDecision DEF RWInv
<1>2. \A p \in C!Pairs : answers[p].decision <= decisions /\ answers[p].decision \in Nat
    <2>1. C!NoRow.decision = 0
        BY DEF C!NoRow
    <2> QED
        BY <1>1, <2>1 DEF RWInv, StoredIsDecided
<1>3. C!Present' = C!Present
    BY DEF C!Present
<1>4. \A p \in P : answers'[p] # C!NoRow
    <2>1. C!NoRow.decision = 0
        BY DEF C!NoRow
    <2>2. \A p \in P : answers'[p].decision = decisions + 1
        BY DEF Decided
    <2> QED
        BY <1>1, <2>1, <2>2
<1>5. StoredIsDecided'
    <2> SUFFICES ASSUME NEW p \in C!Pairs, answers'[p] # C!NoRow
                 PROVE  /\ p[1] \in C!Present /\ answers'[p].decision \in 1..decisions'
                        /\ answers'[p].id # C!NoId /\ answers'[p].id[1] \in 1..decisions'
        BY <1>3 DEF StoredIsDecided
    <2>1. decisions' = decisions + 1 /\ decisions + 1 \in 1..decisions'
        BY <1>1 DEF Decided
    <2>2. CASE p \notin P
        BY <1>1, <2>1, <2>2 DEF Decided, RWInv, StoredIsDecided
    <2>3. CASE p \in P /\ answers[p].id = C!NoId
        <3>1. answers'[p].id = <<decisions + 1, p>> /\ answers'[p].decision = decisions + 1
            BY <2>3 DEF Decided
        <3>2. answers'[p].id # C!NoId /\ answers'[p].id[1] = decisions + 1
            BY <3>1 DEF C!NoId
        <3> QED
            BY <2>1, <2>3, <3>1, <3>2
    <2>4. CASE p \in P /\ answers[p].id # C!NoId
        <3>1. answers[p] # C!NoRow
            <4>1. C!NoRow.id = C!NoId
                BY DEF C!NoRow
            <4> QED
                BY <2>4, <4>1
        <3>2. answers'[p].id = answers[p].id /\ answers'[p].decision = decisions + 1
            BY <2>4 DEF Decided
        <3> QED
            BY <1>1, <2>1, <2>4, <3>1, <3>2 DEF RWInv, StoredIsDecided
    <2> QED
        BY <2>2, <2>3, <2>4
<1>6. C!Stored \subseteq C!Stored'
    BY <1>4 DEF C!Stored, Decided
<1>7. ASSUME NEW p \in C!Pairs, answers'[p].decision > decisions
      PROVE  p \in P /\ answers'[p].by = t
    <2>1. CASE p \in P
        BY <2>1 DEF Decided
    <2>2. CASE p \notin P
        BY <1>1, <1>2, <1>7, <2>2 DEF Decided
    <2> QED
        BY <2>1, <2>2
<1> QED
    BY <1>5, <1>6, <1>7

LEMMA MoreDecisions ==
    ASSUME RWInv, decisions < MaxDecisions, decisions' = decisions + 1, UNCHANGED publications
    PROVE  PublicationsAreDecided'
BY NextDecision DEF RWInv, PublicationsAreDecided

LEMMA RecordsDecide ==
    ASSUME RWInv, NEW t \in Teachers, NEW records, C!SaveRecords(t, records),
           DOMAIN records \subseteq C!Pairs, records \in [DOMAIN records -> Prepared]
    PROVE  Decided(t, DOMAIN records) /\ pending' \subseteq C!Pairs
<1>1. RWRows /\ decisions < MaxDecisions /\ decisions' = decisions + 1
    BY DEF RWInv, C!SaveRecords
<1>2. answers' = [p \in C!Pairs |-> IF p \in DOMAIN records
                     THEN C!SavedRow(t, p, answers[p], records[p]) ELSE answers[p]]
    BY DEF C!SaveRecords
<1>3. \A p \in C!Pairs : answers[p] \in C!RowType
    BY <1>1 DEF RWRows
<1>4. \A p \in DOMAIN records :
         LET new == C!SavedRow(t, p, answers[p], records[p])
         IN  /\ new \in C!RowType /\ new.decision = decisions + 1 /\ new.by = t
             /\ new.id = IF answers[p].id = C!NoId THEN <<decisions + 1, p>> ELSE answers[p].id
             /\ new.moved = answers[p].moved
    BY <1>1, <1>3, SavedRowFits
<1>5. pending' \subseteq C!Pairs
    BY <1>1 DEF C!SaveRecords, RWRows
<1> QED
    BY <1>1, <1>2, <1>3, <1>4, <1>5 DEF Decided

-----------------------------------------------------------------------------
(* Imports.                                                                *)

\* The context of a preview names every row with its decision.
LEMMA ContextShows ==
    /\ C!ContextHash[2] = status
    /\ \A row \in C!ContextHash[4] : \E p \in C!Stored :
          row[1] = answers[p].id /\ row[2] = answers[p].decision
    /\ \A p \in C!Stored : \E row \in C!ContextHash[4] :
          row[1] = answers[p].id /\ row[2] = answers[p].decision
<1>1. C!ContextHash[2] = status
    BY DEF C!ContextHash
<1>2. C!ContextHash[4] = {<<answers[p].id, answers[p].decision, answers[p].outcome,
                            answers[p].answer>> : p \in C!Stored}
    BY DEF C!ContextHash
<1>3. \A row \in C!ContextHash[4] : \E p \in C!Stored :
          row[1] = answers[p].id /\ row[2] = answers[p].decision
    <2> TAKE row \in C!ContextHash[4]
    <2>1. PICK p \in C!Stored : row = <<answers[p].id, answers[p].decision, answers[p].outcome,
                                       answers[p].answer>>
        BY <1>2
    <2> QED
        BY <2>1
<1>4. \A p \in C!Stored : \E row \in C!ContextHash[4] :
          row[1] = answers[p].id /\ row[2] = answers[p].decision
    <2> TAKE p \in C!Stored
    <2> DEFINE row == <<answers[p].id, answers[p].decision, answers[p].outcome, answers[p].answer>>
    <2>1. row \in C!ContextHash[4]
        BY <1>2
    <2>2. row[1] = answers[p].id /\ row[2] = answers[p].decision
        OBVIOUS
    <2> QED
        BY <2>1, <2>2
<1> QED
    BY <1>1, <1>3, <1>4

\* A preview that is made now shows what its context says, and one whose context is
\* still that of the tables shows every row that is there.
LEMMA PreviewShows ==
    ASSUME NEW b, b.seen = C!Shown, b.context = C!ContextHash PROVE SeenInContext(b)
<1>1. \A p \in C!Stored : p \in C!Pairs /\ C!Shown[p].id = answers[p].id
                           /\ C!Shown[p].decision = answers[p].decision
    BY DEF C!Stored, C!Shown
<1> QED
    BY <1>1, ContextShows DEF SeenInContext

SeenRow(seen, p) ==
    \E o \in C!Pairs : seen[o].id = answers[p].id /\ seen[o].decision = answers[p].decision

LEMMA ContextSeen ==
    ASSUME NEW b, SeenInContext(b), b.context = C!ContextHash
    PROVE  \A p \in C!Stored : SeenRow(b.seen, p)
BY ContextShows DEF SeenInContext, SeenRow

LEMMA ImportPreviewStep ==
    ASSUME RWInv, C!ImportPreviews PROVE RWInv'
<1>1. PICK t \in Teachers, k \in RequestKeys, P \in SUBSET C!Pairs :
         \E lines \in [P -> Given] : C!ImportPreview(t, k, lines)
    BY DEF C!ImportPreviews
<1>2. PICK lines \in [P -> Given] : C!ImportPreview(t, k, lines)
    BY <1>1
<1>3. UNCHANGED <<grading, status, content, answers, pending, mistakes, publications,
                  decisions, shown, correction>>
    BY <1>2 DEF C!ImportPreview
<1>4. RWRows'
    BY <1>2, <1>3, CardAssumptions
    DEF RWInv, RWRows, C!ImportPreview, CardConstants, C!WorkflowAssumption
<1>5. CorrectionFits'
    BY <1>3 DEF RWInv, CorrectionFits
<1>6. BatchesFit'
    <2> DEFINE new == [state |-> "preview", lines |-> lines, context |-> C!ContextHash,
                       records |-> C!Prepare(lines), seen |-> C!Shown]
    <2>1. batch' = [batch EXCEPT ![<<t, k>>] = new]
        BY <1>2 DEF C!ImportPreview
    <2>2. SeenInContext(new)
        BY PreviewShows
    <2>3. DOMAIN lines \subseteq C!Pairs /\ lines \in [DOMAIN lines -> C!Line]
        BY CardAssumptions DEF CardConstants, C!WorkflowAssumption
    <2>4. BatchFits(new)
        BY <2>2, <2>3 DEF BatchFits
    <2> HIDE DEF new
    <2> QED
        BY <2>1, <2>4 DEF RWInv, BatchesFit
<1> QED
    BY <1>3, <1>4, <1>5, <1>6, PublishedUnchanged DEF RWInv

\* An import is saved as it was previewed.
LEMMA ImportSaveStep ==
    ASSUME RWInv, NEW t \in Teachers, NEW k \in RequestKeys, C!ImportSave(t, k)
    PROVE  /\ RWInv'
           /\ \E P \in SUBSET C!Pairs : Decided(t, P)
           /\ batch[<<t, k>>].state = "preview" /\ batch'[<<t, k>>].state = "saved"
           /\ \A p \in C!Stored : SeenRow(batch[<<t, k>>].seen, p)
           /\ \A p \in C!Pairs : answers'[p].decision > decisions => answers'[p].by = t
<1> DEFINE b == batch[<<t, k>>]
           P == DOMAIN b.lines
<1>1. /\ grading = "open" /\ b.state = "preview" /\ C!Preparable(b.lines)
      /\ b.context = C!ContextHash /\ b.records = C!Prepare(b.lines)
      /\ C!SaveRecords(t, b.records)
      /\ batch' = [batch EXCEPT ![<<t, k>>] = [C!NoBatch EXCEPT !.state = "saved"]]
      /\ UNCHANGED <<grading, status, content, mistakes, publications, shown, correction, previews>>
    BY DEF C!ImportSave
<1>2. /\ <<t, k>> \in C!Requests
      /\ P \subseteq C!Pairs /\ b.lines \in [P -> C!Line] /\ SeenInContext(b)
    <2>1. <<t, k>> \in C!Requests
        BY DEF C!Requests
    <2>2. BatchFits(b)
        BY <2>1 DEF RWInv, BatchesFit
    <2>3. \A s \in {"none", "saved", "published"} : b # [C!NoBatch EXCEPT !.state = s]
        BY <1>1 DEF C!NoBatch
    <2> QED
        BY <2>1, <2>2, <2>3 DEF BatchFits
<1>3. b.records \in [P -> Prepared] /\ DOMAIN b.records = P
    BY <1>1, <1>2, RecordsOfLines DEF RWInv
<1>4. Decided(t, P) /\ pending' \subseteq C!Pairs
    BY <1>1, <1>2, <1>3, RecordsDecide
<1>5. \A p \in P : p[1] \in C!Present
    BY <1>1 DEF C!Preparable
<1>6. decisions < MaxDecisions /\ decisions' = decisions + 1
    BY <1>1 DEF C!SaveRecords
<1>7. /\ StoredIsDecided'
      /\ \A p \in C!Pairs : answers'[p].decision > decisions => p \in P /\ answers'[p].by = t
    BY <1>1, <1>4, <1>5, <1>6, DecidedIsStored
<1>8. PublicationsAreDecided'
    BY <1>1, <1>6, MoreDecisions
<1>9. RWRows'
    <2>1. decisions' \in 0..MaxDecisions
        BY <1>6, NextDecision DEF RWInv
    <2>2. answers' \in [C!Pairs -> C!RowType]
        BY <1>4 DEF Decided
    <2> QED
        BY <1>1, <1>4, <2>1, <2>2 DEF RWInv, RWRows
<1>10. BatchesFit'
    <2>1. BatchFits([C!NoBatch EXCEPT !.state = "saved"])
        BY DEF BatchFits
    <2> QED
        BY <1>1, <2>1 DEF RWInv, BatchesFit
<1>11. PublishedIsWhole' /\ C!PublicationAgrees' /\ CorrectionFits'
    BY <1>1 DEF RWInv, PublishedIsWhole, C!PublicationAgrees, CorrectionFits
<1>12. RWInv'
    BY <1>7, <1>8, <1>9, <1>10, <1>11 DEF RWInv
<1>13. \A p \in C!Stored : SeenRow(b.seen, p)
    BY <1>1, <1>2, ContextSeen
<1>14. batch'[<<t, k>>].state = "saved"
    BY <1>1, <1>2 DEF RWInv, BatchesFit, C!NoBatch
<1> QED
    BY <1>1, <1>2, <1>4, <1>7, <1>12, <1>13, <1>14

-----------------------------------------------------------------------------
(* Participants.                                                           *)

LEMMA ConfirmStep == ASSUME RWInv, C!Confirms PROVE RWInv'
<1>1. PICK some \in SUBSET Students, to \in Missing \cup {"present"} : C!ConfirmMissing(some, to)
    BY DEF C!Confirms
<1>2. /\ grading = "open" /\ status' = [st \in Students |-> IF st \in some THEN to ELSE status[st]]
      /\ \A st \in some, q \in Asked : <<st, q>> \notin C!Stored
      /\ UNCHANGED <<grading, content, answers, pending, batch, mistakes, publications,
                     decisions, shown, correction, previews>>
    BY <1>1 DEF C!ConfirmMissing
<1>3. to \in {"present", "absent", "not_submitted"}
    BY CardAssumptions DEF CardConstants, C!WorkflowAssumption
<1>4. RWRows'
    BY <1>2, <1>3 DEF RWInv, RWRows
<1>5. StoredIsDecided'
    <2> SUFFICES ASSUME NEW p \in C!Pairs, answers[p] # C!NoRow
                 PROVE  /\ p[1] \in C!Present' /\ answers[p].decision \in 1..decisions
                        /\ answers[p].id # C!NoId /\ answers[p].id[1] \in 1..decisions
        BY <1>2 DEF StoredIsDecided
    <2>1. p = <<p[1], p[2]>> /\ p[1] \in Students /\ p[2] \in Asked
        BY DEF C!Pairs
    <2>2. p[1] \notin some
        BY <1>2, <2>1 DEF C!Stored
    <2> QED
        BY <1>2, <2>1, <2>2 DEF RWInv, StoredIsDecided, C!Present
<1>6. /\ PublicationsAreDecided' /\ PublishedIsWhole' /\ C!PublicationAgrees'
      /\ CorrectionFits' /\ BatchesFit'
    BY <1>2 DEF RWInv, PublicationsAreDecided, PublishedIsWhole, C!PublicationAgrees,
        CorrectionFits, BatchesFit
<1> QED
    BY <1>4, <1>5, <1>6 DEF RWInv

\* Where a row of the tables after a reassignment was before.
LEMMA MovedRows ==
    ASSUME RWInv, NEW t \in Teachers, NEW from \in Students, NEW to \in Students,
           C!ReassignStudentAnswers(t, from, to)
    PROVE  /\ answers' \in [C!Pairs -> C!RowType]
           /\ \A p \in C!Pairs : p[1] = to =>
                 /\ <<from, p[2]>> \in C!Pairs
                 /\ answers'[p] = C!Moved(answers[<<from, p[2]>>])
           /\ \A p \in C!Pairs : p[1] = from => answers'[p] = C!NoRow
           /\ \A p \in C!Pairs : p[1] \notin {from, to} => answers'[p] = answers[p]
<1> DEFINE before(p) == CASE p[1] = to   -> <<from, p[2]>>
                          [] p[1] = from -> <<to, p[2]>>
                          [] OTHER       -> p
<1>1. /\ from # to /\ \A q \in Asked : <<to, q>> \notin C!Stored
      /\ \A q \in Asked : answers[<<from, q>>].moved < MaxMoves
      /\ answers' = [p \in C!Pairs |-> IF p[1] = to THEN C!Moved(answers[before(p)])
                                                   ELSE answers[before(p)]]
    BY DEF C!ReassignStudentAnswers
<1>2. \A p \in C!Pairs : /\ p[1] \in Students /\ p[2] \in Asked
                         /\ <<from, p[2]>> \in C!Pairs /\ <<to, p[2]>> \in C!Pairs
    BY DEF C!Pairs
<1>3. \A p \in C!Pairs : answers[p] \in C!RowType
    BY DEF RWInv, RWRows
<1>4. \A p \in C!Pairs : p[1] = to => answers'[p] = C!Moved(answers[<<from, p[2]>>])
    BY <1>1
<1>5. \A p \in C!Pairs : p[1] = from => answers'[p] = C!NoRow
    BY <1>1, <1>2 DEF C!Stored
<1>6. \A p \in C!Pairs : p[1] \notin {from, to} => answers'[p] = answers[p]
    BY <1>1
<1> HIDE DEF before
<1>7. ASSUME NEW p \in C!Pairs, p[1] = to PROVE C!Moved(answers[<<from, p[2]>>]) \in C!RowType
    <2> DEFINE row == answers[<<from, p[2]>>]
    <2>1. row \in C!RowType /\ row.moved < MaxMoves
        BY <1>1, <1>2, <1>3
    <2> HIDE DEF row
    <2>2. row.moved \in 0..MaxMoves /\ MaxMoves \in Nat
        BY <2>1, RowTypeIs, CardAssumptions DEF CardConstants, C!WorkflowAssumption
    <2>3. row.moved + 1 \in 0..MaxMoves
        BY <2>1, <2>2
    <2>4. [row EXCEPT !.moved = @ + 1] = [row EXCEPT !.moved = row.moved + 1]
        BY <2>1, RowTypeIs
    <2>5. [row EXCEPT !.moved = row.moved + 1] \in C!RowType
        BY <2>1, <2>3, RowTypeIs
    <2> QED
        BY <2>1, <2>4, <2>5 DEF C!Moved, row
<1>8. ASSUME NEW p \in C!Pairs PROVE answers'[p] \in C!RowType
    <2>1. CASE p[1] = to
        BY <1>4, <1>7, <2>1
    <2>2. CASE p[1] = from
        <3>1. <<to, p[2]>> \in C!Pairs /\ answers[<<to, p[2]>>] = C!NoRow
            BY <1>1, <1>2 DEF C!Stored
        <3> QED
            BY <1>3, <1>5, <2>2, <3>1
    <2>3. CASE p[1] \notin {from, to}
        BY <1>3, <1>6, <2>3
    <2> QED
        BY <2>1, <2>2, <2>3
<1> QED
    BY <1>1, <1>2, <1>4, <1>5, <1>6, <1>8

\* All of a student's answers move, and nobody is decided anew.
LEMMA ReassignStep ==
    ASSUME RWInv, NEW t \in Teachers, NEW from \in Students, NEW to \in Students,
           C!ReassignStudentAnswers(t, from, to)
    PROVE  RWInv' /\ \A p \in C!Pairs : answers'[p].decision <= decisions
<1>1. /\ grading = "open" /\ from # to /\ from \in C!Present /\ to \in C!Present
      /\ pending' \subseteq C!Pairs
      /\ UNCHANGED <<grading, status, content, batch, mistakes, publications, decisions,
                     shown, correction, previews>>
    BY DEF C!ReassignStudentAnswers
<1>2. RWRows'
    BY <1>1, MovedRows DEF RWInv, RWRows
<1>3. \A p \in C!Pairs : C!Moved(answers[p]) # C!NoRow =>
          /\ answers[p] # C!NoRow /\ C!Moved(answers[p]).decision = answers[p].decision
          /\ C!Moved(answers[p]).id = answers[p].id
    <2> TAKE p \in C!Pairs
    <2>1. answers[p] \in C!RowType
        BY DEF RWInv, RWRows
    <2>2. CASE answers[p] = C!NoRow
        BY <2>2 DEF C!Moved
    <2>3. CASE answers[p] # C!NoRow
        BY <2>1, <2>3, RowTypeIs DEF C!Moved
    <2> QED
        BY <2>2, <2>3
<1>4. StoredIsDecided'
    <2> SUFFICES ASSUME NEW p \in C!Pairs, answers'[p] # C!NoRow
                 PROVE  /\ p[1] \in C!Present /\ answers'[p].decision \in 1..decisions
                        /\ answers'[p].id # C!NoId /\ answers'[p].id[1] \in 1..decisions
        BY <1>1 DEF StoredIsDecided, C!Present
    <2>1. CASE p[1] = to
        <3> DEFINE o == <<from, p[2]>>
        <3>1. o \in C!Pairs /\ answers'[p] = C!Moved(answers[o])
            BY <2>1, MovedRows
        <3>2. answers[o] # C!NoRow /\ answers'[p].decision = answers[o].decision
              /\ answers'[p].id = answers[o].id
            BY <1>3, <3>1
        <3> HIDE DEF o
        <3> QED
            BY <1>1, <2>1, <3>1, <3>2 DEF RWInv, StoredIsDecided
    <2>2. CASE p[1] = from
        BY <2>2, MovedRows
    <2>3. CASE p[1] \notin {from, to}
        BY <2>3, MovedRows DEF RWInv, StoredIsDecided
    <2> QED
        BY <2>1, <2>2, <2>3
<1>5. \A p \in C!Pairs : answers'[p].decision <= decisions
    <2>1. C!NoRow.decision = 0
        BY DEF C!NoRow
    <2>2. decisions \in Nat
        BY CardAssumptions DEF RWInv, RWRows, CardConstants, C!WorkflowAssumption
    <2> QED
        BY <1>1, <1>4, <2>1, <2>2 DEF StoredIsDecided
<1>6. /\ PublicationsAreDecided' /\ PublishedIsWhole' /\ C!PublicationAgrees'
      /\ CorrectionFits' /\ BatchesFit'
    BY <1>1 DEF RWInv, PublicationsAreDecided, PublishedIsWhole, C!PublicationAgrees,
        CorrectionFits, BatchesFit
<1> QED
    BY <1>2, <1>4, <1>5, <1>6 DEF RWInv

-----------------------------------------------------------------------------
(* Publication.                                                            *)

\* What is published once every answer that is asked for is there.
LEMMA PublicationIs ==
    ASSUME NEW rows, NEW n \in Nat, n <= MaxDecisions, MaxDecisions \in Nat,
           \A p \in C!Present \X Asked : rows[p].decision \in 1..n
    PROVE  /\ C!Publication(rows) \in Published
           /\ C!Publication(rows) = [p \in C!Present \X Asked |-> rows[p].decision]
           /\ \A p \in DOMAIN C!Publication(rows) : C!Publication(rows)[p] \in 1..n
<1>1. C!Publication(rows) = [p \in C!Present \X Asked |-> rows[p].decision]
    BY DEF C!Publication
<1>2. C!Publication(rows) \in [C!Present \X Asked -> 1..MaxDecisions]
    BY <1>1
<1>3. C!Present \in SUBSET Students
    BY DEF C!Present
<1> QED
    BY <1>1, <1>2, <1>3 DEF Published

LEMMA PublicationAdded ==
    ASSUME RWInv, NEW new \in Published, publications' = Append(publications, new),
           decisions' \in Nat, decisions' >= decisions,
           \A p \in DOMAIN new : new[p] \in 1..decisions'
    PROVE  /\ publications' \in Seq(Published) /\ publications' # <<>>
           /\ publications'[Len(publications')] = new
           /\ PublicationsAreDecided'
<1>1. publications \in Seq(Published) /\ decisions \in Nat
    BY CardAssumptions DEF RWInv, RWRows, CardConstants, C!WorkflowAssumption
<1>2. /\ publications' \in Seq(Published) /\ Len(publications') = Len(publications) + 1
      /\ Len(publications) \in Nat /\ publications'[Len(publications) + 1] = new
      /\ \A i \in 1..Len(publications) : publications'[i] = publications[i]
      /\ DOMAIN publications = 1..Len(publications)
      /\ DOMAIN publications' = 1..(Len(publications) + 1)
    BY <1>1
<1>3. PublicationsAreDecided'
    <2> SUFFICES ASSUME NEW i \in DOMAIN publications', NEW p \in DOMAIN publications'[i]
                 PROVE  publications'[i][p] \in 1..decisions'
        BY DEF PublicationsAreDecided
    <2>1. CASE i = Len(publications) + 1
        BY <1>2, <2>1
    <2>2. CASE i \in 1..Len(publications)
        BY <1>1, <1>2, <2>2 DEF RWInv, PublicationsAreDecided
    <2> QED
        BY <1>2, <2>1, <2>2
<1> QED
    BY <1>2, <1>3

LEMMA PublishStep == ASSUME RWInv, C!Publish PROVE RWInv'
<1> DEFINE P == C!Present \X Asked
           new == C!Publication(answers)
<1>1. /\ grading = "open" /\ \A p \in P : C!Publishable(p)
      /\ grading' = "published" /\ mistakes' = C!SyncWrong(answers, P)
      /\ batch' = [r \in C!Requests |-> IF batch[r].state = "saved"
                       THEN [batch[r] EXCEPT !.state = "published"] ELSE batch[r]]
      /\ publications' = Append(publications, new)
      /\ UNCHANGED <<status, content, answers, pending, decisions, shown, correction, previews>>
    BY DEF C!Publish
<1>2. P \subseteq C!Pairs /\ P \subseteq C!Stored
    BY <1>1 DEF C!Publishable, C!Pairs, C!Present
<1>3. decisions \in Nat /\ decisions <= MaxDecisions /\ MaxDecisions \in Nat
    BY CardAssumptions DEF RWInv, RWRows, CardConstants, C!WorkflowAssumption
<1>4. \A p \in P : answers[p].decision \in 1..decisions
    BY <1>2 DEF RWInv, StoredIsDecided, C!Stored
<1>5. /\ new \in Published /\ new = [p \in P |-> answers[p].decision]
      /\ \A p \in DOMAIN new : new[p] \in 1..decisions
    BY <1>3, <1>4, PublicationIs
<1> HIDE DEF new
<1>6. /\ publications' \in Seq(Published) /\ publications' # <<>>
      /\ publications'[Len(publications')] = new
      /\ PublicationsAreDecided'
    <2>1. decisions' = decisions /\ publications' = Append(publications, new)
        BY <1>1
    <2>2. decisions' \in Nat /\ decisions' >= decisions
        BY <1>3, <2>1
    <2>3. \A p \in DOMAIN new : new[p] \in 1..decisions'
        BY <1>5, <2>1
    <2> QED
        BY <1>5, <2>1, <2>2, <2>3, PublicationAdded
<1>7. C!Present' = C!Present
    BY <1>1 DEF C!Present
<1>8. \A p \in C!Pairs : mistakes'[p] = "active" <=>
          p \in P /\ answers[p].outcome \in {"wrong", "blank"}
    <2>1. \A p \in C!Pairs : mistakes[p] = "none"
        BY <1>1 DEF RWInv, PublishedIsWhole
    <2> QED
        BY <1>1, <2>1 DEF C!SyncWrong
<1>9. C!PublicationAgrees'
    BY <1>1, <1>5, <1>6, <1>7, <1>8 DEF C!PublicationAgrees
<1>10. RWRows'
    BY <1>1, <1>6, WrongRows DEF RWInv, RWRows
<1>11. BatchesFit'
    <2>1. \A r \in C!Requests : BatchFits(batch'[r])
        <3> TAKE r \in C!Requests
        <3>1. BatchFits(batch[r])
            BY DEF RWInv, BatchesFit
        <3>2. CASE batch[r].state = "saved"
            <4>1. batch'[r] = [batch[r] EXCEPT !.state = "published"]
                BY <1>1, <3>2
            <4>2. batch[r] = [C!NoBatch EXCEPT !.state = "saved"]
                BY <3>1, <3>2 DEF BatchFits, C!NoBatch
            <4>3. batch'[r] = [C!NoBatch EXCEPT !.state = "published"]
                BY <4>1, <4>2 DEF C!NoBatch
            <4> QED
                BY <4>3 DEF BatchFits
        <3>3. CASE batch[r].state # "saved"
            BY <1>1, <3>1, <3>3
        <3> QED
            BY <3>2, <3>3
    <2> QED
        BY <1>1, <2>1 DEF BatchesFit
<1>12. StoredIsDecided' /\ PublishedIsWhole' /\ CorrectionFits'
    BY <1>1, <1>2, <1>7 DEF RWInv, StoredIsDecided, PublishedIsWhole, CorrectionFits, C!Stored
<1> QED
    BY <1>6, <1>9, <1>10, <1>11, <1>12 DEF RWInv

-----------------------------------------------------------------------------
(* A person decides.                                                       *)

LEMMA OpenPageStep == ASSUME RWInv, C!OpenPages PROVE RWInv'
<1>1. PICK t \in Teachers : C!OpenPage(t)
    BY DEF C!OpenPages
<1>2. /\ shown' = [shown EXCEPT ![t] = C!Shown]
      /\ UNCHANGED <<grading, status, content, answers, pending, batch, mistakes,
                     publications, decisions, correction, previews>>
    BY <1>1 DEF C!OpenPage
<1>3. RWRows'
    <2>1. \A p \in C!Pairs : [id |-> answers[p].id, decision |-> answers[p].decision,
                              moved |-> answers[p].moved] \in C!ShownType
        BY RowTypeIs DEF RWInv, RWRows, C!ShownType
    <2>2. C!Shown \in [C!Pairs -> C!ShownType]
        BY <2>1 DEF C!Shown
    <2>3. shown' \in [Teachers -> [C!Pairs -> C!ShownType]]
        BY <1>2, <2>2 DEF RWInv, RWRows
    <2> QED
        BY <1>2, <2>3 DEF RWInv, RWRows
<1>4. CorrectionFits' /\ BatchesFit'
    BY <1>2 DEF RWInv, CorrectionFits, BatchesFit
<1> QED
    BY <1>2, <1>3, <1>4, PublishedUnchanged DEF RWInv

\* The rows of the answers a person decides.
LEMMA PersonDecidesAll ==
    ASSUME RWInv, decisions < MaxDecisions, NEW t \in Teachers, NEW k \in RequestKeys,
           NEW P \in SUBSET C!Pairs, NEW answer \in Spoken, NEW outcome \in Marks,
           \A p \in P : answers[p].id # C!NoId,
           decisions' = decisions + 1,
           answers' = [p \in C!Pairs |-> answers'[p]],
           \A p \in P : answers'[p] = C!PersonDecides(t, k, answers[p], p[2], answer, outcome),
           \A p \in C!Pairs \ P : answers'[p] = answers[p]
    PROVE  /\ Decided(t, P)
           /\ grading # "open" => \A p \in C!Pairs : answers'[p].initial = answers[p].initial
<1>1. RWRows /\ \A p \in C!Pairs : answers[p] \in C!RowType /\ p[2] \in Asked
    BY DEF RWInv, RWRows, C!Pairs
<1>2. \A p \in P :
         LET new == C!PersonDecides(t, k, answers[p], p[2], answer, outcome)
         IN  /\ new \in C!RowType /\ new.decision = decisions + 1 /\ new.by = t
             /\ new.id = answers[p].id /\ new.moved = answers[p].moved
             /\ grading # "open" => new.initial = answers[p].initial
    BY <1>1, DecidedRowFits
<1>3. \A p \in C!Pairs : answers'[p] \in C!RowType
    BY <1>1, <1>2
<1>4. \A p \in P :
         /\ answers'[p].decision = decisions + 1 /\ answers'[p].by = t
         /\ answers'[p].id = IF answers[p].id = C!NoId THEN <<decisions + 1, p>>
                             ELSE answers[p].id
         /\ answers'[p].moved = answers[p].moved
    BY <1>2
<1>5. answers' \in [C!Pairs -> C!RowType]
    BY <1>3
<1>6. Decided(t, P)
    BY <1>4, <1>5 DEF Decided
<1>7. grading # "open" => \A p \in C!Pairs : answers'[p].initial = answers[p].initial
    BY <1>2
<1> QED
    BY <1>6, <1>7

LEMMA ReviewStep ==
    ASSUME RWInv, NEW t \in Teachers, NEW k \in RequestKeys, NEW P \in SUBSET C!Pairs,
           NEW answer \in Spoken, NEW outcome \in Marks, C!Review(t, k, P, answer, outcome)
    PROVE  /\ RWInv'
           /\ Decided(t, P)
           /\ \A p \in C!Pairs : answers'[p].decision > decisions =>
                 answers'[p].by = t /\ SeenRow(shown[t], p)
<1>1. /\ grading = "open" /\ decisions < MaxDecisions /\ decisions' = decisions + 1
      /\ \A p \in P : C!MayDecide(t, k, p, answer, outcome)
      /\ answers' = [p \in C!Pairs |-> IF p \in P
                        THEN C!PersonDecides(t, k, answers[p], p[2], answer, outcome)
                        ELSE answers[p]]
      /\ pending' = pending \ P
      /\ UNCHANGED <<grading, status, content, batch, mistakes, publications, shown,
                     correction, previews>>
    BY DEF C!Review
<1>2. Decided(t, P)
    <2>1. /\ answers' = [p \in C!Pairs |-> answers'[p]]
          /\ \A p \in P : answers'[p] = C!PersonDecides(t, k, answers[p], p[2], answer, outcome)
          /\ \A p \in C!Pairs \ P : answers'[p] = answers[p]
        BY <1>1
    <2>2. \A p \in P : answers[p].id # C!NoId
        BY <1>1 DEF RWInv, StoredIsDecided, C!MayDecide, C!Stored
    <2> QED
        BY <1>1, <2>1, <2>2, PersonDecidesAll
<1>3. \A p \in P : p[1] \in C!Present /\ SeenRow(shown[t], p)
    BY <1>1 DEF RWInv, StoredIsDecided, C!MayDecide, C!Stored, SeenRow
<1>4. /\ StoredIsDecided'
      /\ \A p \in C!Pairs : answers'[p].decision > decisions => p \in P /\ answers'[p].by = t
    BY <1>1, <1>2, <1>3, DecidedIsStored
<1>5. PublicationsAreDecided'
    BY <1>1, MoreDecisions
<1>6. RWRows'
    <2>1. decisions' \in 0..MaxDecisions
        BY <1>1, NextDecision DEF RWInv
    <2>2. answers' \in [C!Pairs -> C!RowType]
        BY <1>2 DEF Decided
    <2> QED
        BY <1>1, <2>1, <2>2 DEF RWInv, RWRows
<1>7. PublishedIsWhole' /\ C!PublicationAgrees' /\ CorrectionFits' /\ BatchesFit'
    BY <1>1 DEF RWInv, PublishedIsWhole, C!PublicationAgrees, CorrectionFits, BatchesFit
<1> QED
    BY <1>2, <1>3, <1>4, <1>5, <1>6, <1>7 DEF RWInv

LEMMA CorrectStep ==
    ASSUME RWInv, NEW t \in Teachers, NEW k \in RequestKeys, NEW p \in C!Pairs,
           NEW answer \in Spoken, NEW outcome \in Marks, C!Correct(t, k, p, answer, outcome)
    PROVE  /\ RWInv'
           /\ \A o \in C!Pairs : answers'[o].initial = answers[o].initial
           /\ Decided(t, {p})
           /\ \A o \in C!Pairs : answers'[o].decision > decisions =>
                 answers'[o].by = t /\ SeenRow(shown[t], o)
<1> DEFINE P == C!Present \X Asked
           new == C!Publication(answers')
<1>1. /\ grading = "published" /\ decisions < MaxDecisions /\ decisions' = decisions + 1
      /\ C!MayDecide(t, k, p, answer, outcome)
      /\ answers' = [answers EXCEPT ![p] = C!PersonDecides(t, k, @, p[2], answer, outcome)]
      /\ pending' = pending \ {p}
      /\ mistakes' = C!SyncWrong(answers', {p})
      /\ publications' = Append(publications, new)
      /\ UNCHANGED <<grading, status, content, batch, shown, correction, previews>>
    BY DEF C!Correct
<1>2. PICK one \in SUBSET C!Pairs : one = {p}
    OBVIOUS
<1>3. /\ answers' = [o \in C!Pairs |-> answers'[o]]
      /\ \A o \in one : answers'[o] = C!PersonDecides(t, k, answers[o], o[2], answer, outcome)
      /\ \A o \in C!Pairs \ one : answers'[o] = answers[o]
    BY <1>2, <1>1 DEF RWInv, RWRows
<1>4. /\ Decided(t, one)
      /\ \A o \in C!Pairs : answers'[o].initial = answers[o].initial
    <2>1. /\ grading # "open" /\ decisions < MaxDecisions /\ decisions' = decisions + 1
          /\ \A o \in one : answers[o].id # C!NoId
        BY <1>1, <1>2 DEF RWInv, StoredIsDecided, C!MayDecide, C!Stored
    <2>2. Decided(t, one)
        BY <1>3, <2>1, PersonDecidesAll
    <2>3. \A o \in C!Pairs : answers'[o].initial = answers[o].initial
        BY <1>3, <2>1, PersonDecidesAll
    <2> QED
        BY <2>2, <2>3
<1>5. p[1] \in C!Present /\ p[2] \in Asked /\ p = <<p[1], p[2]>>
      /\ SeenRow(shown[t], p)
    <2>1. p[2] \in Asked /\ p = <<p[1], p[2]>>
        BY DEF C!Pairs
    <2> QED
        BY <1>1, <2>1 DEF RWInv, StoredIsDecided, C!MayDecide, C!Stored, SeenRow
<1>6. /\ StoredIsDecided' /\ C!Stored \subseteq C!Stored'
      /\ \A o \in C!Pairs : answers'[o].decision > decisions => o = p /\ answers'[o].by = t
    BY <1>2, <1>1, <1>4, <1>5, DecidedIsStored
<1>7. decisions' \in Nat /\ decisions' <= MaxDecisions /\ MaxDecisions \in Nat
      /\ decisions' >= decisions /\ decisions' \in 0..MaxDecisions
    BY <1>1, NextDecision DEF RWInv
<1>8. C!Present' = C!Present
    BY <1>1 DEF C!Present
<1>9. P \subseteq C!Stored' /\ P \subseteq C!Pairs
    BY <1>1, <1>6 DEF RWInv, PublishedIsWhole, C!Present, C!Pairs
<1>10. \A o \in P : answers'[o].decision \in 1..decisions'
    BY <1>6, <1>9 DEF StoredIsDecided, C!Stored
<1>11. /\ new \in Published /\ new = [o \in P |-> answers'[o].decision]
       /\ \A o \in DOMAIN new : new[o] \in 1..decisions'
    BY <1>7, <1>10, PublicationIs
<1> HIDE DEF new
<1>12. /\ publications' \in Seq(Published) /\ publications' # <<>>
       /\ publications'[Len(publications')] = new
       /\ PublicationsAreDecided'
    BY <1>1, <1>7, <1>11, PublicationAdded
<1>13. \A o \in C!Pairs : mistakes'[o] = "active" <=>
           o \in P /\ answers'[o].outcome \in {"wrong", "blank"}
    <2> TAKE o \in C!Pairs
    <2>1. CASE o = p
        BY <1>1, <1>5, <2>1 DEF C!SyncWrong
    <2>2. CASE o # p
        <3>1. mistakes'[o] = mistakes[o] /\ answers'[o] = answers[o]
            BY <1>2, <1>1, <1>3, <2>2 DEF C!SyncWrong
        <3>2. mistakes[o] = "active" <=> o \in P /\ answers[o].outcome \in {"wrong", "blank"}
            BY <1>1 DEF RWInv, C!PublicationAgrees
        <3> QED
            BY <3>1, <3>2
    <2> QED
        BY <2>1, <2>2
<1>14. C!PublicationAgrees'
    BY <1>1, <1>8, <1>11, <1>12, <1>13 DEF C!PublicationAgrees
<1>15. RWRows'
    <2>1. answers' \in [C!Pairs -> C!RowType]
        BY <1>4 DEF Decided
    <2>2. mistakes' \in [C!Pairs -> {"none", "active", "inactive"}]
        BY <1>1, WrongRows DEF RWInv
    <2> QED
        BY <1>1, <1>7, <1>12, <2>1, <2>2 DEF RWInv, RWRows
<1>16. PublishedIsWhole' /\ CorrectionFits' /\ BatchesFit'
    BY <1>1, <1>8, <1>9 DEF RWInv, PublishedIsWhole, CorrectionFits, BatchesFit
<1> QED
    BY <1>2, <1>4, <1>5, <1>6, <1>12, <1>14, <1>15, <1>16 DEF RWInv

-----------------------------------------------------------------------------
(* Content corrections.                                                    *)

LEMMA ContentStep ==
    ASSUME RWInv, C!PreviewCorrections \/ C!ApplyCorrection \/ C!RollbackCorrections
    PROVE  RWInv' /\ UNCHANGED answers
<1>1. UNCHANGED <<grading, status, answers, pending, batch, mistakes, publications,
                  decisions, shown>>
    BY DEF C!PreviewCorrections, C!PreviewCorrection, C!ApplyCorrection, C!RollbackCorrections,
        C!RollbackCorrection
<1>2. RWRows' /\ CorrectionFits'
    <2>1. CASE C!PreviewCorrections
        <3>1. PICK q \in Asked, rev \in Revisions : C!PreviewCorrection(q, rev)
            BY <2>1 DEF C!PreviewCorrections
        <3>2. /\ UNCHANGED content /\ previews < MaxPreviews /\ previews' = previews + 1
              /\ correction' = [correction EXCEPT !.preview =
                    [of |-> q, to |-> rev, manifest |-> C!ProtectedManifest]]
            BY <3>1 DEF C!PreviewCorrection
        <3>3. RWRows'
            BY <1>1, <3>2, CardAssumptions
            DEF RWInv, RWRows, CardConstants, C!WorkflowAssumption
        <3> DEFINE new == [of |-> q, to |-> rev, manifest |-> C!ProtectedManifest]
        <3>4. new.of = q /\ new.to = rev
            OBVIOUS
        <3>5. correction' = [correction EXCEPT !.preview = new]
            BY <3>2
        <3> HIDE DEF new
        <3>6. correction' = [preview |-> new, active |-> correction.active,
                             count |-> correction.count]
            BY <3>5 DEF RWInv, CorrectionFits
        <3>7. CorrectionFits'
            BY <3>4, <3>6 DEF RWInv, CorrectionFits
        <3> QED
            BY <3>3, <3>7
    <2>2. CASE C!ApplyCorrection
        <3>1. /\ correction.preview.of # "none" /\ UNCHANGED previews
              /\ content' = [content EXCEPT ![correction.preview.of] = correction.preview.to]
              /\ correction' = [preview |-> C!NoPreview,
                                active |-> correction.active \cup {correction.preview.of},
                                count |-> correction.count + 1]
            BY <2>2 DEF C!ApplyCorrection
        <3>2. correction.preview.of \in Asked /\ correction.preview.to \in Revisions
            BY <3>1 DEF RWInv, CorrectionFits
        <3>3. CorrectionFits'
            BY <3>1, <3>2 DEF RWInv, CorrectionFits, C!NoPreview
        <3>4. content' \in [Asked -> Revisions]
            BY <3>1, <3>2 DEF RWInv, RWRows
        <3> QED
            BY <1>1, <3>1, <3>3, <3>4 DEF RWInv, RWRows
    <2>3. CASE C!RollbackCorrections
        <3>1. PICK q \in Asked : C!RollbackCorrection(q)
            BY <2>3 DEF C!RollbackCorrections
        <3>2. /\ content' = [content EXCEPT ![q] = Original] /\ UNCHANGED previews
              /\ correction' = [correction EXCEPT !.active = @ \ {q}]
            BY <3>1 DEF C!RollbackCorrection
        <3>3. Original \in Revisions
            BY CardAssumptions DEF CardConstants, C!WorkflowAssumption
        <3>4. content' \in [Asked -> Revisions]
            BY <3>2, <3>3 DEF RWInv, RWRows
        <3>5. CorrectionFits'
            BY <3>2 DEF RWInv, CorrectionFits
        <3> QED
            BY <1>1, <3>2, <3>4, <3>5 DEF RWInv, RWRows
    <2> QED
        BY <2>1, <2>2, <2>3
<1>3. BatchesFit'
    BY <1>1 DEF RWInv, BatchesFit
<1> QED
    BY <1>1, <1>2, <1>3, PublishedUnchanged DEF RWInv

-----------------------------------------------------------------------------
(* Cards.                                                                  *)

LEMMA CardsUnchanged ==
    ASSUME CardRows, AssignsFit, UNCHANGED C!cardVars PROVE CardRows' /\ AssignsFit'
BY DEF C!cardVars, CardRows, AssignsFit

LEMMA NobodyIsNoStudent == C!Nobody \notin Students
BY CardAssumptions DEF CardConstants, C!CardAssumption

CardRow == [state : {"unsaved", "awaiting", "assigned", "deleted"},
            student : Students \cup {C!Nobody}]

\* A card is replaced by one that has a student exactly if it is assigned.
LEMMA CardReplaced ==
    ASSUME CardRows, NEW c \in Cards, NEW new \in CardRow,
           new.state = "assigned" <=> new.student # C!Nobody,
           card' = [card EXCEPT ![c] = new]
    PROVE  CardRows'
BY DEF CardRows, CardRow

LEMMA RowOfCard ==
    ASSUME CardRows, NEW c \in Cards
    PROVE  /\ card[c] \in CardRow
           /\ card[c].state = "assigned" <=> card[c].student # C!Nobody
BY DEF CardRows, CardRow

LEMMA CardEdits ==
    ASSUME CardRows, C!SaveCards \/ C!LinkCards \/ C!DeleteCards
    PROVE  CardRows' /\ UNCHANGED <<C!rwVars, assign>>
<1>1. CASE C!SaveCards
    <2>1. PICK c \in Cards : C!SaveCard(c)
        BY <1>1 DEF C!SaveCards
    <2>2. /\ card[c].student = C!Nobody /\ UNCHANGED <<C!rwVars, assign>>
          /\ card' = [card EXCEPT ![c] = [card[c] EXCEPT !.state = "awaiting"]]
        BY <2>1 DEF C!SaveCard
    <2>3. [card[c] EXCEPT !.state = "awaiting"] \in CardRow
          /\ [card[c] EXCEPT !.state = "awaiting"].student = C!Nobody
          /\ [card[c] EXCEPT !.state = "awaiting"].state # "assigned"
        BY <2>2, RowOfCard DEF CardRow
    <2> QED
        BY <2>2, <2>3, CardReplaced
<1>2. CASE C!LinkCards
    <2>1. PICK c \in Cards, st \in Students : C!LinkCard(c, st)
        BY <1>2 DEF C!LinkCards
    <2> DEFINE new == [state |-> "assigned", student |-> st]
    <2>2. card' = [card EXCEPT ![c] = new] /\ UNCHANGED <<C!rwVars, assign>>
        BY <2>1 DEF C!LinkCard
    <2>3. new \in CardRow /\ new.state = "assigned" /\ new.student # C!Nobody
        BY NobodyIsNoStudent DEF CardRow
    <2> HIDE DEF new
    <2> QED
        BY <2>2, <2>3, CardReplaced
<1>3. CASE C!DeleteCards
    <2>1. PICK c \in Cards : C!DeleteCard(c)
        BY <1>3 DEF C!DeleteCards
    <2> DEFINE new == [card[c] EXCEPT !.state = "deleted"]
    <2>2. /\ card[c].state = "awaiting" /\ UNCHANGED <<C!rwVars, assign>>
          /\ card' = [card EXCEPT ![c] = new]
        BY <2>1 DEF C!DeleteCard
    <2>3. new \in CardRow /\ new.student = C!Nobody /\ new.state # "assigned"
        BY <2>2, RowOfCard DEF CardRow
    <2> HIDE DEF new
    <2> QED
        BY <2>2, <2>3, CardReplaced
<1> QED
    BY <1>1, <1>2, <1>3

LEMMA AssignReplaced ==
    ASSUME AssignsFit, NEW t \in Teachers, NEW new, AssignFits(new),
           assign' = [assign EXCEPT ![t] = new]
    PROVE  AssignsFit'
BY DEF AssignsFit

LEMMA IdleFits == AssignFits(C!Idle)
BY DEF AssignFits, C!Idle

LEMMA AssignReadStep ==
    ASSUME CardInv, C!AssignReads PROVE CardInv' /\ UNCHANGED answers
<1>1. PICK t \in Teachers, c \in Cards, st \in Students : C!AssignRead(t, c, st)
    BY DEF C!AssignReads
<1> DEFINE new == [at |-> "checked", card |-> c, student |-> st]
<1>2. /\ previews < MaxPreviews /\ previews' = previews + 1
      /\ assign' = [assign EXCEPT ![t] = new]
      /\ UNCHANGED <<grading, status, content, answers, pending, batch, mistakes,
                     publications, decisions, shown, correction, card>>
    BY <1>1 DEF C!AssignRead
<1>3. AssignFits(new)
    BY DEF AssignFits
<1> HIDE DEF new
<1>4. AssignsFit' /\ CardRows'
    BY <1>2, <1>3, AssignReplaced DEF CardInv, CardRows
<1>5. RWRows'
    BY <1>2, CardAssumptions DEF CardInv, RWInv, RWRows, CardConstants, C!WorkflowAssumption
<1>6. CorrectionFits' /\ BatchesFit'
    BY <1>2 DEF CardInv, RWInv, CorrectionFits, BatchesFit
<1> QED
    BY <1>2, <1>4, <1>5, <1>6, PublishedUnchanged DEF CardInv, RWInv

LEMMA CardLinesFit ==
    ASSUME NEW c \in Cards, NEW st \in Students
    PROVE  /\ DOMAIN C!LinesFor(c, st) = {st} \X Asked
           /\ DOMAIN C!LinesFor(c, st) \subseteq C!Pairs
           /\ C!LinesFor(c, st) \in [DOMAIN C!LinesFor(c, st) -> C!Line]
<1>1. CardLines[c] \in [Asked -> C!Line]
    BY CardAssumptions DEF CardConstants, C!CardAssumption
<1>2. C!LinesFor(c, st) = [p \in {st} \X Asked |-> CardLines[c][p[2]]]
    BY DEF C!LinesFor
<1> QED
    BY <1>1, <1>2 DEF C!Pairs

LEMMA AssignPreviewStep ==
    ASSUME CardInv, C!AssignPreviews PROVE CardInv' /\ UNCHANGED answers
<1>1. PICK t \in Teachers : C!AssignPreview(t)
    BY DEF C!AssignPreviews
<1> DEFINE a == assign[t]
           b == C!CardBatch(t, a.card, a.student)
           new == [at |-> "previewed", card |-> a.card, student |-> a.student, batch |-> b]
<1>2. /\ a.at = "checked" /\ C!Preparable(C!LinesFor(a.card, a.student))
      /\ assign' = [assign EXCEPT ![t] = new]
      /\ UNCHANGED <<C!rwVars, card>>
    BY <1>1 DEF C!AssignPreview
<1>3. a.card \in Cards /\ a.student \in Students
    BY <1>2 DEF CardInv, AssignsFit, AssignFits
<1>4. a.student \in C!Present
    <2>1. PICK p \in DOMAIN C!LinesFor(a.card, a.student) : p[1] \in C!Present
        BY <1>2 DEF C!Preparable
    <2>2. DOMAIN C!LinesFor(a.card, a.student) = {a.student} \X Asked
        BY <1>3, CardLinesFit
    <2>3. p[1] = a.student
        BY <2>1, <2>2
    <2> QED
        BY <2>1, <2>3
<1>5. /\ b.lines = C!LinesFor(a.card, a.student) /\ b.context[2][a.student] = "present"
      /\ SeenInContext(b)
    BY <1>4, ContextShows, PreviewShows DEF C!CardBatch, C!Present
<1> HIDE DEF b
<1>6. AssignFits(new)
    BY <1>3, <1>5 DEF AssignFits
<1> HIDE DEF new
<1>7. AssignsFit' /\ CardRows'
    BY <1>2, <1>6, AssignReplaced DEF CardInv, CardRows
<1> QED
    BY <1>2, <1>7, RWUnchanged DEF CardInv, C!rwVars

\* An assigned card decides what its preview was built from.
LEMMA AssignSaveStep ==
    ASSUME CardInv, NEW t \in Teachers, C!AssignSave(t)
    PROVE  /\ CardInv'
           /\ \E P \in SUBSET C!Pairs : Decided(t, P)
           /\ assign[t].at = "previewed"
           /\ \A p \in C!Stored : SeenRow(assign[t].batch.seen, p)
           /\ \A p \in C!Pairs : answers'[p].decision > decisions => answers'[p].by = t
<1> DEFINE a == assign[t]
           b == a.batch
           P == DOMAIN b.lines
           new == [at |-> "saved", card |-> a.card, student |-> a.student]
<1>1. /\ a.at = "previewed" /\ grading = "open"
      /\ b.context = C!ContextHash /\ b.records = C!Prepare(b.lines)
      /\ C!SaveRecords(t, b.records)
      /\ assign' = [assign EXCEPT ![t] = new]
      /\ UNCHANGED <<grading, status, content, batch, mistakes, publications, shown, correction,
                     previews, card>>
    BY DEF C!AssignSave
<1>2. /\ a.card \in Cards /\ a.student \in Students
      /\ b.lines = C!LinesFor(a.card, a.student)
      /\ b.context[2][a.student] = "present" /\ SeenInContext(b)
    BY <1>1 DEF CardInv, AssignsFit, AssignFits
<1>3. P = {a.student} \X Asked /\ P \subseteq C!Pairs /\ b.lines \in [P -> C!Line]
    BY <1>2, CardLinesFit
<1>4. b.records \in [P -> Prepared] /\ DOMAIN b.records = P
    BY <1>1, <1>3, RecordsOfLines DEF CardInv, RWInv
<1>5. Decided(t, P) /\ pending' \subseteq C!Pairs
    BY <1>1, <1>3, <1>4, RecordsDecide DEF CardInv
<1>6. \A p \in P : p[1] \in C!Present
    <2>1. a.student \in C!Present
        BY <1>1, <1>2, ContextShows DEF C!Present
    <2> QED
        BY <1>3, <2>1
<1>7. decisions < MaxDecisions /\ decisions' = decisions + 1
    BY <1>1 DEF C!SaveRecords
<1>8. /\ StoredIsDecided'
      /\ \A p \in C!Pairs : answers'[p].decision > decisions => p \in P /\ answers'[p].by = t
    BY <1>1, <1>5, <1>6, <1>7, DecidedIsStored DEF CardInv
<1>9. PublicationsAreDecided'
    BY <1>1, <1>7, MoreDecisions DEF CardInv
<1>10. RWRows'
    <2>1. decisions' \in 0..MaxDecisions
        BY <1>7, NextDecision DEF CardInv, RWInv
    <2>2. answers' \in [C!Pairs -> C!RowType]
        BY <1>5 DEF Decided
    <2> QED
        BY <1>1, <1>5, <2>1, <2>2 DEF CardInv, RWInv, RWRows
<1>11. /\ PublishedIsWhole' /\ C!PublicationAgrees' /\ CorrectionFits' /\ BatchesFit'
       /\ CardRows'
    BY <1>1 DEF CardInv, RWInv, PublishedIsWhole, C!PublicationAgrees, CorrectionFits,
        BatchesFit, CardRows
<1>12. AssignFits(new)
    BY <1>2 DEF AssignFits
<1>13. \A p \in C!Stored : SeenRow(b.seen, p)
    BY <1>1, <1>2, ContextSeen
<1> HIDE DEF new
<1>14. AssignsFit'
    BY <1>1, <1>12, AssignReplaced DEF CardInv
<1> QED
    BY <1>1, <1>3, <1>5, <1>8, <1>9, <1>10, <1>11, <1>13, <1>14 DEF CardInv, RWInv

LEMMA AssignEndStep ==
    ASSUME CardInv, C!AssignMarks \/ C!AssignStopped PROVE CardInv' /\ UNCHANGED answers
<1>1. CASE C!AssignMarks
    <2>1. PICK t \in Teachers : C!AssignMark(t)
        BY <1>1 DEF C!AssignMarks
    <2> DEFINE a == assign[t]
               new == [state |-> "assigned", student |-> a.student]
    <2>2. /\ a.at = "saved" /\ card' = C!Marked(a)
          /\ assign' = [assign EXCEPT ![t] = C!Idle] /\ UNCHANGED C!rwVars
        BY <2>1 DEF C!AssignMark
    <2>3. AssignsFit' /\ RWInv'
        BY <2>2, IdleFits, AssignReplaced, RWUnchanged DEF CardInv
    <2>4. a.card \in Cards /\ a.student \in Students
        BY <2>2 DEF CardInv, AssignsFit, AssignFits
    <2>5. new \in CardRow /\ new.state = "assigned" /\ new.student # C!Nobody
        BY <2>4, NobodyIsNoStudent DEF CardRow
    <2>6. card' = card \/ card' = [card EXCEPT ![a.card] = new]
        BY <2>2 DEF C!Marked
    <2> HIDE DEF new
    <2>7. CardRows'
        <3>1. CASE card' = card
            BY <3>1 DEF CardInv, CardRows
        <3>2. CASE card' = [card EXCEPT ![a.card] = new]
            BY <2>4, <2>5, <3>2, CardReplaced DEF CardInv
        <3> QED
            BY <2>6, <3>1, <3>2
    <2> QED
        BY <2>2, <2>3, <2>7 DEF CardInv, C!rwVars
<1>2. CASE C!AssignStopped
    <2>1. PICK t \in Teachers : C!AssignStops(t)
        BY <1>2 DEF C!AssignStopped
    <2>2. assign' = [assign EXCEPT ![t] = C!Idle] /\ UNCHANGED <<C!rwVars, card>>
        BY <2>1 DEF C!AssignStops
    <2> QED
        BY <2>2, IdleFits, AssignReplaced, RWUnchanged DEF CardInv, CardRows, C!rwVars
<1> QED
    BY <1>1, <1>2

LEMMA CardReassignStep ==
    ASSUME CardInv, C!CardReassigns
    PROVE  CardInv' /\ grading = "open" /\ \A p \in C!Pairs : answers'[p].decision <= decisions
<1>1. PICK t \in Teachers, from \in Students, to \in Students : C!ReassignWithCards(t, from, to)
    BY DEF C!CardReassigns
<1>2. /\ C!ReassignStudentAnswers(t, from, to) /\ UNCHANGED assign
      /\ card' = [c \in Cards |-> IF card[c] = [state |-> "assigned", student |-> from]
                                   THEN [card[c] EXCEPT !.student = to] ELSE card[c]]
    BY <1>1 DEF C!ReassignWithCards
<1>3. RWInv' /\ \A p \in C!Pairs : answers'[p].decision <= decisions
    BY <1>2, ReassignStep DEF CardInv
<1>4. \A c \in Cards : card'[c] \in CardRow
                       /\ (card'[c].state = "assigned" <=> card'[c].student # C!Nobody)
    <2> TAKE c \in Cards
    <2>1. CASE card[c] = [state |-> "assigned", student |-> from]
        <3>1. card'[c] = [state |-> "assigned", student |-> to]
            BY <1>2, <2>1
        <3> QED
            BY <3>1, NobodyIsNoStudent DEF CardRow
    <2>2. CASE card[c] # [state |-> "assigned", student |-> from]
        <3>1. card'[c] = card[c]
            BY <1>2, <2>2
        <3> QED
            BY <3>1, RowOfCard DEF CardInv
    <2> QED
        BY <2>1, <2>2
<1>5. CardRows'
    BY <1>2, <1>4 DEF CardRows, CardRow
<1>6. AssignsFit'
    BY <1>2 DEF CardInv, AssignsFit
<1> QED
    BY <1>2, <1>3, <1>5, <1>6 DEF CardInv, C!ReassignStudentAnswers

-----------------------------------------------------------------------------
(* What pages and previews remember of the rows.                           *)

\* No two rows have one id.
OneEach(rows) ==
    \A p, o \in C!Pairs : rows[p].id # C!NoId /\ rows[p].id = rows[o].id => p = o

\* What was seen of a row is what it is, or is from before it was moved.
PastOf(seen, rows, n) ==
    \A o \in C!Pairs :
        /\ seen[o].moved \in Nat
        /\ seen[o].id # C!NoId =>
              /\ seen[o].id[1] \in 1..n
              /\ \A p \in C!Pairs : seen[o].id = rows[p].id =>
                    seen[o].moved < rows[p].moved \/ (o = p /\ seen[o].moved = rows[p].moved)

Remembered ==
    /\ OneEach(answers)
    /\ \A t \in Teachers : PastOf(shown[t], answers, decisions)
    /\ \A r \in C!Requests : batch[r].state = "preview" => PastOf(batch[r].seen, answers, decisions)
    /\ \A t \in Teachers :
          assign[t].at = "previewed" => PastOf(assign[t].batch.seen, answers, decisions)

\* Every row that is there afterwards was there, or is new, or was moved.
FollowOn(rows, new, n) ==
    \A p \in C!Pairs : new[p].id # C!NoId =>
        \/ new[p].id = rows[p].id /\ new[p].moved = rows[p].moved
        \/ new[p].id[1] > n
        \/ \E o \in C!Pairs : new[p].id = rows[o].id /\ new[p].moved = rows[o].moved + 1

LEMMA PastStays ==
    ASSUME NEW rows, NEW new, NEW n \in Nat, NEW m \in Nat, n <= m, FollowOn(rows, new, n),
           \A p \in C!Pairs : rows[p].moved \in Nat,
           NEW seen, PastOf(seen, rows, n)
    PROVE  PastOf(seen, new, m)
<1> SUFFICES ASSUME NEW o \in C!Pairs, seen[o].id # C!NoId
             PROVE  /\ seen[o].id[1] \in 1..m
                    /\ \A p \in C!Pairs : seen[o].id = new[p].id =>
                          seen[o].moved < new[p].moved \/ (o = p /\ seen[o].moved = new[p].moved)
    BY DEF PastOf
<1>1. seen[o].id[1] \in 1..n /\ seen[o].moved \in Nat
    BY DEF PastOf
<1>2. ASSUME NEW p \in C!Pairs, seen[o].id = new[p].id
      PROVE  seen[o].moved < new[p].moved \/ (o = p /\ seen[o].moved = new[p].moved)
    <2>1. CASE new[p].id = rows[p].id /\ new[p].moved = rows[p].moved
        BY <1>2, <2>1 DEF PastOf
    <2>2. CASE new[p].id[1] > n
        BY <1>1, <1>2, <2>2
    <2>3. CASE \E x \in C!Pairs : new[p].id = rows[x].id /\ new[p].moved = rows[x].moved + 1
        <3>1. PICK x \in C!Pairs : new[p].id = rows[x].id /\ new[p].moved = rows[x].moved + 1
            BY <2>3
        <3>2. seen[o].moved <= rows[x].moved /\ rows[x].moved \in Nat
            BY <1>2, <3>1 DEF PastOf
        <3> QED
            BY <1>1, <3>1, <3>2
    <2> QED
        BY <1>2, <2>1, <2>2, <2>3 DEF FollowOn
<1> QED
    BY <1>1, <1>2

\* The rows of the tables have ids that were drawn and counts of moves.
LEMMA RowsCount ==
    ASSUME RWInv
    PROVE  /\ decisions \in Nat
           /\ \A p \in C!Pairs :
                 /\ answers[p].moved \in Nat
                 /\ answers[p].id # C!NoId => answers[p].id[1] \in 1..decisions
<1>1. decisions \in Nat /\ C!NoRow.id = C!NoId
    BY CardAssumptions DEF RWInv, RWRows, CardConstants, C!WorkflowAssumption, C!NoRow
<1>2. \A p \in C!Pairs : answers[p] \in C!RowType
    BY DEF RWInv, RWRows
<1>3. \A p \in C!Pairs : answers[p].moved \in Nat
    BY <1>2, RowTypeIs, CardAssumptions DEF CardConstants, C!WorkflowAssumption
<1>4. \A p \in C!Pairs : answers[p].id # C!NoId => answers[p].id[1] \in 1..decisions
    BY <1>1 DEF RWInv, StoredIsDecided
<1> QED
    BY <1>1, <1>3, <1>4

\* What a page or preview shows when it is made.
LEMMA NowIsPast ==
    ASSUME RWInv, OneEach(answers) PROVE PastOf(C!Shown, answers, decisions)
<1>1. \A p \in C!Pairs : C!Shown[p].id = answers[p].id /\ C!Shown[p].moved = answers[p].moved
    BY DEF C!Shown
<1> SUFFICES ASSUME NEW o \in C!Pairs
             PROVE  /\ answers[o].moved \in Nat
                    /\ answers[o].id # C!NoId =>
                          /\ answers[o].id[1] \in 1..decisions
                          /\ \A p \in C!Pairs : answers[o].id = answers[p].id => o = p
    BY <1>1 DEF PastOf
<1> QED
    BY RowsCount DEF OneEach

\* What a decision leaves of the rows.
LEMMA DecidedFollows ==
    ASSUME RWInv, OneEach(answers), NEW t, NEW P \in SUBSET C!Pairs, Decided(t, P)
    PROVE  FollowOn(answers, answers', decisions) /\ OneEach(answers')
<1>1. \A p \in C!Pairs :
         /\ answers'[p].moved = answers[p].moved
         /\ \/ answers'[p].id = answers[p].id
            \/ p \in P /\ answers'[p].id = <<decisions + 1, p>>
    <2> TAKE p \in C!Pairs
    <2>1. CASE p \in P
        BY <2>1 DEF Decided
    <2>2. CASE p \notin P
        BY <2>2 DEF Decided
    <2> QED
        BY <2>1, <2>2
<1>2. \A p \in C!Pairs : LET new == <<decisions + 1, p>> IN new[1] = decisions + 1 /\ new[2] = p
    OBVIOUS
<1>3. FollowOn(answers, answers', decisions)
    BY <1>1, <1>2, RowsCount DEF FollowOn
<1>4. ASSUME NEW p \in C!Pairs, NEW o \in C!Pairs, answers'[p].id # C!NoId,
             answers'[p].id = answers'[o].id
      PROVE  p = o
    <2>1. CASE answers'[p].id = answers[p].id /\ answers'[o].id = answers[o].id
        BY <1>4, <2>1 DEF OneEach
    <2>2. CASE answers'[p].id = <<decisions + 1, p>> /\ answers'[o].id = <<decisions + 1, o>>
        BY <1>2, <1>4, <2>2
    <2>3. CASE answers'[p].id = <<decisions + 1, p>> /\ answers'[o].id = answers[o].id
        <3>1. answers[o].id # C!NoId /\ answers[o].id[1] = decisions + 1
            BY <1>2, <1>4, <2>3
        <3> QED
            BY <3>1, RowsCount
    <2>4. CASE answers'[p].id = answers[p].id /\ answers'[o].id = <<decisions + 1, o>>
        <3>1. answers[p].id # C!NoId /\ answers[p].id[1] = decisions + 1
            BY <1>2, <1>4, <2>4
        <3> QED
            BY <3>1, RowsCount
    <2> QED
        BY <1>1, <2>1, <2>2, <2>3, <2>4
<1> QED
    BY <1>3, <1>4 DEF OneEach

\* What a reassignment leaves of the rows.
LEMMA MovedFollows ==
    ASSUME RWInv, OneEach(answers), NEW t \in Teachers, NEW from \in Students, NEW to \in Students,
           C!ReassignStudentAnswers(t, from, to)
    PROVE  FollowOn(answers, answers', decisions) /\ OneEach(answers')
<1>1. \A row \in C!RowType : /\ C!Moved(row).id = row.id
                             /\ row.id # C!NoId => C!Moved(row).moved = row.moved + 1
    <2> TAKE row \in C!RowType
    <2>1. CASE row = C!NoRow
        <3>1. C!NoRow.id = C!NoId
            BY DEF C!NoRow
        <3> QED
            BY <2>1, <3>1 DEF C!Moved
    <2>2. CASE row # C!NoRow
        BY <2>2, RowTypeIs DEF C!Moved
    <2> QED
        BY <2>1, <2>2
<1>2. C!NoRow.id = C!NoId
    BY DEF C!NoRow
<1>3. \A p \in C!Pairs : answers[p] \in C!RowType
    BY DEF RWInv, RWRows
<1>4. \A p \in C!Pairs : p[1] = to =>
         /\ <<from, p[2]>> \in C!Pairs
         /\ answers'[p].id = answers[<<from, p[2]>>].id
         /\ answers'[p].id # C!NoId => answers'[p].moved = answers[<<from, p[2]>>].moved + 1
    BY <1>1, <1>3, MovedRows
<1>5. \A p \in C!Pairs : p[1] = from => answers'[p].id = C!NoId
    BY <1>2, MovedRows
<1>6. \A p \in C!Pairs : p[1] \notin {from, to} => answers'[p] = answers[p]
    BY MovedRows
<1>7. FollowOn(answers, answers', decisions)
    <2> SUFFICES ASSUME NEW p \in C!Pairs, answers'[p].id # C!NoId
                 PROVE  \/ answers'[p].id = answers[p].id /\ answers'[p].moved = answers[p].moved
                        \/ \E o \in C!Pairs : /\ answers'[p].id = answers[o].id
                                              /\ answers'[p].moved = answers[o].moved + 1
        BY DEF FollowOn
    <2>1. CASE p[1] = to
        BY <1>4, <2>1
    <2>2. CASE p[1] \notin {from, to}
        BY <1>6, <2>2
    <2> QED
        BY <1>5, <2>1, <2>2
<1>8. ASSUME NEW p \in C!Pairs, NEW o \in C!Pairs, answers'[p].id # C!NoId,
             answers'[p].id = answers'[o].id
      PROVE  p = o
    <2>1. p = <<p[1], p[2]>> /\ o = <<o[1], o[2]>>
        BY DEF C!Pairs
    <2> DEFINE q == <<from, p[2]>>
    <2> DEFINE x == <<from, o[2]>>
    <2>6. q[1] = from /\ q[2] = p[2] /\ x[1] = from /\ x[2] = o[2]
        OBVIOUS
    <2>7. p[1] = to => q \in C!Pairs /\ answers'[p].id = answers[q].id
        BY <1>4
    <2>8. o[1] = to => x \in C!Pairs /\ answers'[o].id = answers[x].id
        BY <1>4
    <2> HIDE DEF q, x
    <2>2. CASE p[1] = to /\ o[1] = to
        <3>1. q = x
            BY <1>8, <2>2, <2>7, <2>8 DEF OneEach
        <3> QED
            BY <2>1, <2>2, <2>6, <3>1
    <2>3. CASE p[1] \notin {from, to} /\ o[1] \notin {from, to}
        BY <1>6, <1>8, <2>3 DEF OneEach
    <2>4. CASE p[1] = to /\ o[1] \notin {from, to}
        <3>1. q = o
            BY <1>6, <1>8, <2>4, <2>7 DEF OneEach
        <3> QED
            BY <2>4, <2>6, <3>1
    <2>5. CASE o[1] = to /\ p[1] \notin {from, to}
        <3>1. x = p
            BY <1>6, <1>8, <2>5, <2>8 DEF OneEach
        <3> QED
            BY <2>5, <2>6, <3>1
    <2> QED
        BY <1>5, <1>8, <2>2, <2>3, <2>4, <2>5
<1> QED
    BY <1>7, <1>8 DEF OneEach

\* Whatever a step does to the rows, pages and previews are of before or of now.
LEMMA RememberedStays ==
    ASSUME RWInv, Remembered, decisions' \in Nat, decisions <= decisions',
           FollowOn(answers, answers', decisions), OneEach(answers'),
           \A t \in Teachers : shown'[t] \in {shown[t], C!Shown},
           \A r \in C!Requests : batch'[r].state = "preview" =>
               \/ batch[r].state = "preview" /\ batch'[r].seen = batch[r].seen
               \/ batch'[r].seen = C!Shown,
           \A t \in Teachers : assign'[t].at = "previewed" =>
               \/ assign[t].at = "previewed" /\ assign'[t].batch.seen = assign[t].batch.seen
               \/ assign'[t].batch.seen = C!Shown
    PROVE  Remembered'
<1>1. ASSUME NEW seen, PastOf(seen, answers, decisions) PROVE PastOf(seen, answers', decisions')
    <2>1. decisions \in Nat /\ \A p \in C!Pairs : answers[p].moved \in Nat
        BY RowsCount
    <2> QED
        BY ONLY <1>1, <2>1, decisions' \in Nat, decisions <= decisions',
           FollowOn(answers, answers', decisions), PastStays
<1>2. PastOf(C!Shown, answers', decisions')
    BY <1>1, NowIsPast DEF Remembered
<1>3. \A t \in Teachers : PastOf(shown'[t], answers', decisions')
    BY <1>1, <1>2 DEF Remembered
<1>4. \A r \in C!Requests : batch'[r].state = "preview" => PastOf(batch'[r].seen, answers', decisions')
    BY <1>1, <1>2 DEF Remembered
<1>5. \A t \in Teachers :
         assign'[t].at = "previewed" => PastOf(assign'[t].batch.seen, answers', decisions')
    BY <1>1, <1>2 DEF Remembered
<1> QED
    BY <1>3, <1>4, <1>5 DEF Remembered

-----------------------------------------------------------------------------
(* Every step.                                                             *)

\* What one decision may replace.
Replaced(t, p) ==
    \/ C!SeenBefore(shown[t], p)
    \/ \E k \in RequestKeys :
          /\ batch[<<t, k>>].state = "preview" /\ batch'[<<t, k>>].state = "saved"
          /\ C!SeenBefore(batch[<<t, k>>].seen, p)
    \/ assign[t].at = "previewed" /\ C!SeenBefore(assign[t].batch.seen, p)

ReplacesAsSeen ==
    \A p \in C!Stored : answers'[p].decision > decisions => Replaced(answers'[p].by, p)

KeepsFirstAnswers ==
    grading = "published" => \A p \in C!Pairs : answers'[p].initial = answers[p].initial

\* A row that was seen by its id and decision was seen where it is, or was moved since.
LEMMA SeenIsBefore ==
    ASSUME RWInv, NEW seen, PastOf(seen, answers, decisions), NEW p \in C!Stored, SeenRow(seen, p)
    PROVE  C!SeenBefore(seen, p)
<1>1. p \in C!Pairs /\ answers[p].id # C!NoId
    BY DEF RWInv, StoredIsDecided, C!Stored
<1> QED
    BY <1>1 DEF PastOf, SeenRow, C!SeenBefore

LEMMA NothingDecided ==
    ASSUME RWInv, UNCHANGED answers PROVE ReplacesAsSeen /\ KeepsFirstAnswers
<1>1. decisions \in Nat
    BY CardAssumptions DEF RWInv, RWRows, CardConstants, C!WorkflowAssumption
<1>2. \A p \in C!Stored : ~ (answers[p].decision > decisions)
    BY <1>1 DEF RWInv, StoredIsDecided, C!Stored
<1> QED
    BY <1>2 DEF ReplacesAsSeen, KeepsFirstAnswers

\* A step that leaves the rows alone.
LEMMA SameFollows ==
    ASSUME OneEach(answers), UNCHANGED answers
    PROVE  FollowOn(answers, answers', decisions) /\ OneEach(answers')
BY DEF FollowOn, OneEach

CardsInv == CardInv /\ Remembered

\* The frame of the steps of the cards.
LEMMA CardFrames ==
    ASSUME CardInv,
           C!SaveCards \/ C!LinkCards \/ C!DeleteCards \/ C!AssignReads \/ C!AssignPreviews
              \/ C!AssignMarks \/ C!AssignStopped
    PROVE  /\ UNCHANGED <<answers, shown, batch, decisions>>
           /\ \A t \in Teachers : assign'[t].at = "previewed" =>
                  \/ assign[t].at = "previewed" /\ assign'[t].batch.seen = assign[t].batch.seen
                  \/ assign'[t].batch.seen = C!Shown
<1>1. CASE C!SaveCards \/ C!LinkCards \/ C!DeleteCards
    BY <1>1, CardEdits DEF CardInv, C!rwVars
<1>2. assign = [t \in Teachers |-> assign[t]]
    BY DEF CardInv, AssignsFit
<1>3. CASE C!AssignReads
    <2>1. PICK t \in Teachers, c \in Cards, st \in Students : C!AssignRead(t, c, st)
        BY <1>3 DEF C!AssignReads
    <2>2. /\ assign' = [assign EXCEPT ![t] = [at |-> "checked", card |-> c, student |-> st]]
          /\ UNCHANGED <<answers, shown, batch, decisions>>
        BY <2>1 DEF C!AssignRead
    <2>3. assign'[t].at = "checked" /\ \A u \in Teachers \ {t} : assign'[u] = assign[u]
        BY <1>2, <2>2
    <2> QED
        BY <2>2, <2>3
<1>4. CASE C!AssignPreviews
    <2>1. PICK t \in Teachers : C!AssignPreview(t)
        BY <1>4 DEF C!AssignPreviews
    <2> DEFINE b == C!CardBatch(t, assign[t].card, assign[t].student)
               new == [at |-> "previewed", card |-> assign[t].card, student |-> assign[t].student,
                       batch |-> b]
    <2>2. assign' = [assign EXCEPT ![t] = new] /\ UNCHANGED <<answers, shown, batch, decisions>>
        BY <2>1 DEF C!AssignPreview, C!rwVars
    <2>3. b.seen = C!Shown
        BY DEF C!CardBatch
    <2> HIDE DEF b
    <2>4. new.batch = b
        OBVIOUS
    <2> HIDE DEF new
    <2>5. assign'[t] = new /\ \A u \in Teachers \ {t} : assign'[u] = assign[u]
        BY <1>2, <2>2
    <2> QED
        BY <2>2, <2>3, <2>4, <2>5
<1>5. CASE C!AssignMarks \/ C!AssignStopped
    <2>1. PICK t \in Teachers : /\ assign' = [assign EXCEPT ![t] = C!Idle] /\ UNCHANGED C!rwVars
        BY <1>5 DEF C!AssignMarks, C!AssignMark, C!AssignStopped, C!AssignStops
    <2>2. assign'[t] = C!Idle /\ \A u \in Teachers \ {t} : assign'[u] = assign[u]
        BY <1>2, <2>1
    <2>3. C!Idle.at = "idle"
        BY DEF C!Idle
    <2> QED
        BY <2>1, <2>2, <2>3 DEF C!rwVars
<1> QED
    BY <1>1, <1>3, <1>4, <1>5

\* The frame of the steps of the exam that decide nothing.
LEMMA ExamFrames ==
    ASSUME RWInv,
           \/ C!ImportPreviews \/ C!Confirms \/ C!Publish \/ C!OpenPages
           \/ C!PreviewCorrections \/ C!ApplyCorrection \/ C!RollbackCorrections
    PROVE  /\ UNCHANGED <<answers, decisions>>
           /\ \A t \in Teachers : shown'[t] \in {shown[t], C!Shown}
           /\ \A r \in C!Requests : batch'[r].state = "preview" =>
                  \/ batch[r].state = "preview" /\ batch'[r].seen = batch[r].seen
                  \/ batch'[r].seen = C!Shown
<1>1. batch = [r \in C!Requests |-> batch[r]] /\ shown = [t \in Teachers |-> shown[t]]
    BY DEF RWInv, BatchesFit, RWRows
<1>2. CASE C!ImportPreviews
    <2>1. PICK t \in Teachers, k \in RequestKeys, P \in SUBSET C!Pairs :
             \E lines \in [P -> Given] : C!ImportPreview(t, k, lines)
        BY <1>2 DEF C!ImportPreviews
    <2>2. PICK lines \in [P -> Given] : C!ImportPreview(t, k, lines)
        BY <2>1
    <2> DEFINE new == [state |-> "preview", lines |-> lines, context |-> C!ContextHash,
                       records |-> C!Prepare(lines), seen |-> C!Shown]
    <2>3. batch' = [batch EXCEPT ![<<t, k>>] = new] /\ UNCHANGED <<answers, decisions, shown>>
        BY <2>2 DEF C!ImportPreview
    <2>4. new.seen = C!Shown
        OBVIOUS
    <2> HIDE DEF new
    <2>5. \A r \in C!Requests : batch'[r] = batch[r] \/ batch'[r] = new
        BY <1>1, <2>3
    <2> QED
        BY <2>3, <2>4, <2>5
<1>3. CASE C!Confirms
    BY <1>3 DEF C!Confirms, C!ConfirmMissing
<1>4. CASE C!Publish
    <2>1. /\ UNCHANGED <<answers, decisions, shown>>
          /\ batch' = [r \in C!Requests |-> IF batch[r].state = "saved"
                           THEN [batch[r] EXCEPT !.state = "published"] ELSE batch[r]]
        BY <1>4 DEF C!Publish
    <2>2. ASSUME NEW r \in C!Requests, batch'[r].state = "preview" PROVE batch'[r] = batch[r]
        <3>1. BatchFits(batch[r])
            BY DEF RWInv, BatchesFit
        <3>2. batch[r].state = "saved" => [batch[r] EXCEPT !.state = "published"].state = "published"
            BY <3>1 DEF BatchFits, C!NoBatch
        <3> QED
            BY <2>1, <2>2, <3>2
    <2> QED
        BY <2>1, <2>2
<1>5. CASE C!OpenPages
    <2>1. PICK t \in Teachers : C!OpenPage(t)
        BY <1>5 DEF C!OpenPages
    <2>2. shown' = [shown EXCEPT ![t] = C!Shown] /\ UNCHANGED <<answers, decisions, batch>>
        BY <2>1 DEF C!OpenPage
    <2> QED
        BY <1>1, <2>2
<1>6. CASE C!PreviewCorrections \/ C!ApplyCorrection \/ C!RollbackCorrections
    BY <1>6 DEF C!PreviewCorrections, C!PreviewCorrection, C!ApplyCorrection,
        C!RollbackCorrections, C!RollbackCorrection
<1> QED
    BY <1>2, <1>3, <1>4, <1>5, <1>6

\* What was decided follows on, and pages and previews are left alone.
LEMMA DecidedRemembered ==
    ASSUME RWInv, Remembered, NEW t, NEW P \in SUBSET C!Pairs, Decided(t, P),
           UNCHANGED shown,
           \A r \in C!Requests : batch'[r].state = "preview" => batch'[r] = batch[r],
           \A u \in Teachers : assign'[u].at = "previewed" => assign'[u] = assign[u]
    PROVE  Remembered'
<1>1. FollowOn(answers, answers', decisions) /\ OneEach(answers')
    BY DecidedFollows DEF Remembered
<1>2. decisions' \in Nat /\ decisions <= decisions'
    BY RowsCount DEF Decided
<1> QED
    BY <1>1, <1>2, RememberedStays

LEMMA DecidingStep ==
    ASSUME CardsInv, C!CardNext PROVE CardsInv' /\ ReplacesAsSeen /\ KeepsFirstAnswers
<1> USE DEF CardsInv
<1>1. CASE C!SaveCards \/ C!LinkCards \/ C!DeleteCards
    <2>1. CardRows' /\ UNCHANGED <<C!rwVars, assign>>
        BY <1>1, CardEdits DEF CardInv
    <2>2. AssignsFit' /\ RWInv' /\ UNCHANGED answers
        BY <2>1, RWUnchanged DEF CardInv, AssignsFit, C!rwVars
    <2>3. Remembered'
        BY <1>1, CardFrames, SameFollows, RememberedStays, RowsCount DEF CardInv, Remembered
    <2> QED
        BY <2>1, <2>2, <2>3, NothingDecided DEF CardInv
<1>2. CASE C!AssignReads \/ C!AssignPreviews \/ C!AssignMarks \/ C!AssignStopped
    <2>1. CardInv' /\ UNCHANGED answers
        BY <1>2, AssignReadStep, AssignPreviewStep, AssignEndStep
    <2>2. Remembered'
        BY <1>2, CardFrames, SameFollows, RememberedStays, RowsCount DEF CardInv, Remembered
    <2> QED
        BY <2>1, <2>2, NothingDecided DEF CardInv
<1>3. CASE C!AssignSaves
    <2>1. PICK t \in Teachers : C!AssignSave(t)
        BY <1>3 DEF C!AssignSaves
    <2>2. /\ CardInv' /\ assign[t].at = "previewed"
          /\ \A p \in C!Stored : SeenRow(assign[t].batch.seen, p)
          /\ \A p \in C!Pairs : answers'[p].decision > decisions => answers'[p].by = t
        BY <2>1, AssignSaveStep
    <2>3. \A p \in C!Stored : C!SeenBefore(assign[t].batch.seen, p)
        BY <2>2, SeenIsBefore DEF CardInv, Remembered
    <2>4. ReplacesAsSeen
        BY <2>2, <2>3 DEF ReplacesAsSeen, Replaced, C!Stored
    <2>5. KeepsFirstAnswers
        BY <2>1 DEF C!AssignSave, KeepsFirstAnswers
    <2>6. Remembered'
        <3>1. PICK P \in SUBSET C!Pairs : Decided(t, P)
            BY <2>1, AssignSaveStep
        <3>2. /\ UNCHANGED <<shown, batch>>
              /\ assign' = [assign EXCEPT ![t] = [at |-> "saved", card |-> assign[t].card,
                                                  student |-> assign[t].student]]
            BY <2>1 DEF C!AssignSave
        <3>3. assign = [u \in Teachers |-> assign[u]]
            BY DEF CardInv, AssignsFit
        <3>4. \A u \in Teachers : assign'[u].at = "previewed" => assign'[u] = assign[u]
            BY <3>2, <3>3
        <3> QED
            BY <3>1, <3>2, <3>4, DecidedRemembered DEF CardInv
    <2> QED
        BY <2>2, <2>4, <2>5, <2>6
<1>4. CASE C!CardReassigns
    <2>1. CardInv' /\ grading = "open" /\ \A p \in C!Pairs : answers'[p].decision <= decisions
        BY <1>4, CardReassignStep
    <2>2. decisions \in Nat /\ \A p \in C!Pairs : answers'[p].decision \in Nat
        BY <2>1, RowTypeIs, CardAssumptions
        DEF CardInv, RWInv, RWRows, CardConstants, C!WorkflowAssumption
    <2>3. ReplacesAsSeen /\ KeepsFirstAnswers
        BY <2>1, <2>2 DEF ReplacesAsSeen, KeepsFirstAnswers, C!Stored
    <2>4. PICK t \in Teachers, from \in Students, to \in Students : C!ReassignWithCards(t, from, to)
        BY <1>4 DEF C!CardReassigns
    <2>5. C!ReassignStudentAnswers(t, from, to) /\ UNCHANGED <<assign, decisions, shown, batch>>
        BY <2>4 DEF C!ReassignWithCards, C!ReassignStudentAnswers
    <2>6. FollowOn(answers, answers', decisions) /\ OneEach(answers')
        BY <2>5, MovedFollows DEF CardInv, Remembered
    <2>7. Remembered'
        BY <2>2, <2>5, <2>6, RememberedStays DEF CardInv
    <2> QED
        BY <2>1, <2>3, <2>7
<1>5. CASE (C!ImportPreviews \/ C!Confirms \/ C!Publish \/ C!OpenPages) /\ UNCHANGED C!cardVars
    <2>1. RWInv' /\ UNCHANGED answers
        BY <1>5, ImportPreviewStep, ConfirmStep, PublishStep, OpenPageStep
        DEF CardInv, C!ImportPreviews, C!ImportPreview, C!Confirms, C!ConfirmMissing, C!Publish,
            C!OpenPages, C!OpenPage
    <2>2. Remembered'
        BY <1>5, ExamFrames, SameFollows, RememberedStays, RowsCount
        DEF CardInv, Remembered, C!cardVars
    <2> QED
        BY <1>5, <2>1, <2>2, CardsUnchanged, NothingDecided DEF CardInv
<1>6. CASE C!ImportSaves /\ UNCHANGED C!cardVars
    <2>1. PICK t \in Teachers, k \in RequestKeys : C!ImportSave(t, k)
        BY <1>6 DEF C!ImportSaves
    <2>2. /\ RWInv'
          /\ batch[<<t, k>>].state = "preview" /\ batch'[<<t, k>>].state = "saved"
          /\ \A p \in C!Stored : SeenRow(batch[<<t, k>>].seen, p)
          /\ \A p \in C!Pairs : answers'[p].decision > decisions => answers'[p].by = t
        BY <2>1, ImportSaveStep DEF CardInv
    <2>3. <<t, k>> \in C!Requests
        BY DEF C!Requests
    <2>4. \A p \in C!Stored : C!SeenBefore(batch[<<t, k>>].seen, p)
        BY <2>2, <2>3, SeenIsBefore DEF CardInv, Remembered
    <2>5. ReplacesAsSeen
        BY <2>2, <2>4 DEF ReplacesAsSeen, Replaced, C!Stored
    <2>6. KeepsFirstAnswers
        BY <2>1 DEF C!ImportSave, KeepsFirstAnswers
    <2>7. Remembered'
        <3>1. PICK P \in SUBSET C!Pairs : Decided(t, P)
            BY <2>1, ImportSaveStep DEF CardInv
        <3>2. /\ UNCHANGED <<shown, assign>>
              /\ batch' = [batch EXCEPT ![<<t, k>>] = [C!NoBatch EXCEPT !.state = "saved"]]
            BY <1>6, <2>1 DEF C!ImportSave, C!cardVars
        <3>3. batch = [r \in C!Requests |-> batch[r]]
            BY DEF CardInv, RWInv, BatchesFit
        <3>4. \A r \in C!Requests : batch'[r].state = "preview" => batch'[r] = batch[r]
            BY <2>2, <3>2, <3>3
        <3> QED
            BY <3>1, <3>2, <3>4, DecidedRemembered DEF CardInv
    <2> QED
        BY <1>6, <2>2, <2>5, <2>6, <2>7, CardsUnchanged DEF CardInv
<1>7. CASE C!Reviews /\ UNCHANGED C!cardVars
    <2>1. PICK t \in Teachers, k \in RequestKeys, P \in SUBSET C!Pairs, c \in C!Choices :
             C!Review(t, k, P, c[1], c[2])
        BY <1>7 DEF C!Reviews
    <2>2. c[1] \in Spoken /\ c[2] \in Marks
        BY ChoicesFit
    <2>3. /\ RWInv' /\ Decided(t, P)
          /\ \A p \in C!Pairs : answers'[p].decision > decisions =>
                answers'[p].by = t /\ SeenRow(shown[t], p)
        BY <2>1, <2>2, ReviewStep DEF CardInv
    <2>4. ReplacesAsSeen
        BY <2>3, SeenIsBefore DEF CardInv, Remembered, ReplacesAsSeen, Replaced, C!Stored
    <2>5. KeepsFirstAnswers
        BY <2>1 DEF C!Review, KeepsFirstAnswers
    <2>6. UNCHANGED <<shown, batch, assign>>
        BY <1>7, <2>1 DEF C!Review, C!cardVars
    <2>7. Remembered'
        BY <2>3, <2>6, DecidedRemembered DEF CardInv
    <2> QED
        BY <1>7, <2>3, <2>4, <2>5, <2>7, CardsUnchanged DEF CardInv
<1>8. CASE C!Corrects /\ UNCHANGED C!cardVars
    <2>1. PICK t \in Teachers, k \in RequestKeys, p \in C!Pairs, c \in C!Choices :
             C!Correct(t, k, p, c[1], c[2])
        BY <1>8 DEF C!Corrects
    <2>2. c[1] \in Spoken /\ c[2] \in Marks
        BY ChoicesFit
    <2>3. /\ RWInv' /\ Decided(t, {p})
          /\ \A o \in C!Pairs : answers'[o].initial = answers[o].initial
          /\ \A o \in C!Pairs : answers'[o].decision > decisions =>
                answers'[o].by = t /\ SeenRow(shown[t], o)
        BY <2>1, <2>2, CorrectStep DEF CardInv
    <2>4. ReplacesAsSeen
        BY <2>3, SeenIsBefore DEF CardInv, Remembered, ReplacesAsSeen, Replaced, C!Stored
    <2>5. KeepsFirstAnswers
        BY <2>3 DEF KeepsFirstAnswers
    <2>6. UNCHANGED <<shown, batch, assign>>
        BY <1>8, <2>1 DEF C!Correct, C!cardVars
    <2>7. PICK P \in SUBSET C!Pairs : P = {p}
        OBVIOUS
    <2>8. Remembered'
        BY <2>3, <2>6, <2>7, DecidedRemembered DEF CardInv
    <2> QED
        BY <1>8, <2>3, <2>4, <2>5, <2>8, CardsUnchanged DEF CardInv
<1>9. CASE (C!PreviewCorrections \/ C!ApplyCorrection \/ C!RollbackCorrections)
           /\ UNCHANGED C!cardVars
    <2>1. RWInv' /\ UNCHANGED answers
        BY <1>9, ContentStep DEF CardInv
    <2>2. Remembered'
        BY <1>9, ExamFrames, SameFollows, RememberedStays, RowsCount
        DEF CardInv, Remembered, C!cardVars
    <2> QED
        BY <1>9, <2>1, <2>2, CardsUnchanged, NothingDecided DEF CardInv
<1> QED
    BY <1>1, <1>2, <1>3, <1>4, <1>5, <1>6, <1>7, <1>8, <1>9 DEF C!CardNext

LEMMA DecidingStutters ==
    ASSUME CardsInv, UNCHANGED C!allVars PROVE CardsInv' /\ ReplacesAsSeen /\ KeepsFirstAnswers
<1>1. UNCHANGED C!rwVars /\ UNCHANGED C!cardVars /\ UNCHANGED answers
    BY DEF C!allVars, C!rwVars
<1>2. UNCHANGED <<answers, shown, batch, assign, decisions>>
    BY <1>1 DEF C!rwVars, C!cardVars
<1>3. Remembered'
    BY <1>2 DEF CardsInv, Remembered
<1> QED
    BY <1>1, <1>3, RWUnchanged, CardsUnchanged, NothingDecided DEF CardsInv, CardInv

LEMMA InMarking ==
    ASSUME CardsInv,
           [MarkingNext]_<<part, assessmentVars, cardsVars, scanVars, candidateVars>>
    PROVE  CardsInv' /\ ReplacesAsSeen /\ KeepsFirstAnswers
<1>1. CASE Deciding
    BY <1>1, DecidingStep DEF Deciding
<1>2. CASE ~Deciding
    <2>1. UNCHANGED cardsVars
        BY <1>2 DEF MarkingNext, Assessing, Scanning, Suggesting
    <2>2. UNCHANGED C!allVars
        BY <2>1 DEF cardsVars, C!allVars, C!rwVars, C!cardVars
    <2> QED
        BY <2>2, DecidingStutters
<1> QED
    BY <1>1, <1>2

LEMMA InitRemembered == C!CardInit => Remembered
<1> SUFFICES ASSUME C!CardInit PROVE Remembered
    OBVIOUS
<1>1. /\ answers = [p \in C!Pairs |-> C!NoRow]
      /\ shown = [t \in Teachers |-> [p \in C!Pairs |-> [id |-> C!NoId, decision |-> 0, moved |-> 0]]]
      /\ batch = [r \in C!Requests |-> C!NoBatch] /\ assign = [t \in Teachers |-> C!Idle]
    BY DEF C!CardInit, C!RWInit
<1>2. C!NoRow.id = C!NoId /\ C!NoBatch.state = "none" /\ C!Idle.at = "idle"
    BY DEF C!NoRow, C!NoBatch, C!Idle
<1>3. OneEach(answers)
    BY <1>1, <1>2 DEF OneEach
<1>4. \A t \in Teachers : PastOf(shown[t], answers, decisions)
    BY <1>1 DEF PastOf
<1> QED
    BY <1>1, <1>2, <1>3, <1>4 DEF Remembered

LEMMA CardsTyped == CardInv => C!RWTypeOK /\ C!CardTypeOK /\ C!PublicationAgrees
<1> SUFFICES ASSUME CardInv PROVE C!RWTypeOK /\ C!CardTypeOK /\ C!PublicationAgrees
    OBVIOUS
<1>1. \A r \in C!Requests : batch[r].state \in {"none", "preview", "saved", "published"}
    <2>1. \A r \in C!Requests : BatchFits(batch[r])
        BY DEF CardInv, RWInv, BatchesFit
    <2>2. \A s : [C!NoBatch EXCEPT !.state = s].state = s
        BY DEF C!NoBatch
    <2> QED
        BY <2>1, <2>2 DEF BatchFits
<1>2. C!RWTypeOK
    BY <1>1 DEF CardInv, RWInv, RWRows, CorrectionFits, PublicationsAreDecided, C!RWTypeOK
<1>3. C!CardTypeOK
    BY DEF CardInv, CardRows, AssignsFit, AssignFits, C!CardTypeOK
<1> QED
    BY <1>2, <1>3 DEF CardInv, RWInv

-----------------------------------------------------------------------------
(* Suggested tags.                                                         *)

\* The natural numbers below one another.
Less == {p \in Nat \X Nat : p[1] < p[2]}

LEMMA LessIsWellFounded == IsWellFoundedOn(Less, Nat)
<1>1. Less = OpToRel(<, Nat)
    BY DEF Less, OpToRel
<1> QED
    BY <1>1, NatLessThanWellFounded, Zenon

LEMMA Smallest ==
    ASSUME NEW S \in SUBSET Nat, S # {}
    PROVE  \E m \in S : \A n \in S : m <= n
<1>1. PICK x \in S : \A y \in S : ~ (<<y, x>> \in Less)
    BY LessIsWellFounded, WFMin
<1>2. ASSUME NEW y \in S PROVE x <= y
    <2>1. x \in Nat /\ y \in Nat
        OBVIOUS
    <2>2. y < x => <<y, x>> \in Less
        BY <2>1 DEF Less
    <2> QED
        BY <1>1, <2>1, <2>2
<1> QED
    BY <1>2

LEMMA Greatest ==
    ASSUME NEW S \in SUBSET Nat, S # {}, NEW b \in Nat, \A n \in S : n <= b
    PROVE  \E m \in S : \A n \in S : n <= m
<1> DEFINE Below == {n \in Nat : \E s \in S : n = b - s}
<1>1. PICK x \in S : TRUE
    OBVIOUS
<1>2. Below \in SUBSET Nat /\ b - x \in Below
    OBVIOUS
<1>3. PICK d \in Below : \A e \in Below : d <= e
    BY <1>2, Smallest
<1>4. PICK m \in S : d = b - m
    OBVIOUS
<1>5. \A n \in S : b - n \in Below
    OBVIOUS
<1> QED
    BY <1>3, <1>4, <1>5

-----------------------------------------------------------------------------
SuggestTypes ==
    /\ text \in T!Versions /\ enabledTags \subseteq Labels
    /\ config \in [Models -> T!Setting]
    /\ counted \in [Models -> Nat] /\ spent \in [Models -> Nat]
    /\ run \in [Teachers -> T!Run]

\* A run has read the question before what it consists of, and asks a model.
InSequence(t) ==
    /\ run[t].pc # "idle" => run[t].seen.text \in T!Versions /\ run[t].seen.text <= text
    /\ run[t].pc \notin {"idle", "reading"} =>
          run[t].seen.text <= run[t].seen.doc /\ run[t].seen.doc <= text
    /\ run[t].pc \in {"asking", "calling"} => run[t].model \in Models

\* A suggestion is what its key says, and copies are numbered without a gap.
FromOneReading(c) ==
    /\ c.made \in T!Source /\ c.tags \subseteq Labels
    /\ c.key.text = c.made.text /\ c.key.doc = c.made.doc
    /\ c.made.text <= c.made.doc /\ c.made.doc <= text
    /\ c.copy \in 0..T!Copies

OnePerKey == \A c, d \in candidates : c.key = d.key /\ c.copy = d.copy => c = d

\* The threads that are calling a model.
Callers(m) == {t \in Teachers : run[t].pc = "calling" /\ run[t].model = m}

\* Calls under way count as well.
WithinLimit(m) ==
    /\ CallLimit > 0 => counted[m] + Cardinality(Callers(m)) <= CallLimit + Cardinality(Teachers) - 1
    /\ MonthlyBudget > 0 => spent[m] + Cardinality(Callers(m)) * T!MaxCost
                               <= MonthlyBudget + Cardinality(Teachers) * T!MaxCost

SuggestInv ==
    /\ SuggestTypes
    /\ \A t \in Teachers : InSequence(t)
    /\ IsFiniteSet(candidates) /\ OnePerKey
    /\ \A c \in candidates : FromOneReading(c)
    /\ \A m \in Models : WithinLimit(m)

-----------------------------------------------------------------------------
\* Finite sets and their sizes are the same seen from the instance.
LEMMA SameFinite == \A S : T!IsFiniteSet(S) <=> IsFiniteSet(S)
BY DEF T!IsFiniteSet, IsFiniteSet

LEMMA SameSize == \A S : T!Cardinality(S) = Cardinality(S)
BY Zenon DEF T!Cardinality, Cardinality

LEMMA DearestCall == T!MaxCost \in Nat /\ \A c \in Costs : c \in Nat /\ c <= T!MaxCost
<1>1. \E c \in Costs : \A d \in Costs : d <= c
    BY MarkingAssumption DEF T!CandidateAssumption
<1>2. T!MaxCost \in Costs /\ \A d \in Costs : d <= T!MaxCost
    BY <1>1 DEF T!MaxCost
<1> QED
    BY <1>2, MarkingAssumption DEF T!CandidateAssumption

LEMMA TeachersAreCounted == IsFiniteSet(Teachers) /\ Cardinality(Teachers) \in Nat
<1>1. IsFiniteSet(Teachers)
    BY MarkingAssumption, SameFinite DEF T!CandidateAssumption
<1> QED
    BY <1>1, FS_CardinalityType

LEMMA CallersAreCounted ==
    ASSUME NEW m PROVE IsFiniteSet(Callers(m)) /\ Cardinality(Callers(m)) \in Nat
                       /\ Cardinality(Callers(m)) <= Cardinality(Teachers)
BY TeachersAreCounted, FS_Subset, FS_CardinalityType DEF Callers

\* The setting that was saved last exists.
LEMMA CurrentIsKnown ==
    ASSUME SuggestTypes PROVE T!CurrentModel \in Models \cup {NoModel}
<1> DEFINE on == {m \in Models : config[m].on}
           times == {config[m].saved : m \in on}
<1>1. CASE on = {}
    BY <1>1 DEF T!CurrentModel
<1>2. CASE on # {}
    <2>1. MaxSaved \in Nat
        BY MarkingAssumption DEF T!CandidateAssumption
    <2>2. times \in SUBSET Nat /\ times # {} /\ \A n \in times : n <= MaxSaved
        <3>1. \A m \in Models : config[m].saved \in 0..MaxSaved
            BY DEF SuggestTypes, T!Setting
        <3> QED
            BY <1>2, <2>1, <3>1
    <2>3. PICK n \in times : \A k \in times : k <= n
        BY <2>1, <2>2, Greatest
    <2>4. PICK m \in on : config[m].saved = n
        OBVIOUS
    <2>5. \E x \in on : \A y \in on : config[y].saved <= config[x].saved
        BY <2>3, <2>4
    <2>6. T!CurrentModel = CHOOSE x \in on : \A y \in on : config[y].saved <= config[x].saved
        BY <1>2 DEF T!CurrentModel
    <2> QED
        BY <2>5, <2>6
<1> QED
    BY <1>1, <1>2

LEMMA NowIsTime ==
    ASSUME SuggestTypes PROVE T!Now \in 0..MaxSaved
<1> DEFINE times == {config[m].saved : m \in Models}
           IsNow(n) == /\ \A m \in Models : config[m].saved <= n
                       /\ n = 0 \/ \E m \in Models : config[m].saved = n
<1>1. MaxSaved \in Nat
    BY MarkingAssumption DEF T!CandidateAssumption
<1>2. \E n \in 0..MaxSaved : IsNow(n)
    <2>1. CASE Models = {}
        BY <1>1, <2>1
    <2>2. CASE Models # {}
        <3>1. times \in SUBSET Nat /\ times # {} /\ \A n \in times : n <= MaxSaved
            BY <2>2 DEF SuggestTypes, T!Setting
        <3>2. PICK n \in times : \A k \in times : k <= n
            BY <1>1, <3>1, Greatest
        <3>3. IsNow(n) /\ n \in 0..MaxSaved
            BY <1>1, <3>1, <3>2
        <3> QED
            BY <3>3
    <2> QED
        BY <2>1, <2>2
<1> HIDE DEF IsNow
<1>3. T!Now = CHOOSE n \in 0..MaxSaved : IsNow(n)
    BY DEF T!Now, IsNow
<1> QED
    BY <1>2, <1>3

-----------------------------------------------------------------------------
LEMMA IdleIsRun == T!Idle \in T!Run /\ T!Idle.pc = "idle"
BY MarkingAssumption DEF T!Idle, T!Run, T!CandidateAssumption

\* What a step makes of the run of one thread.
LEMMA QuestionRead ==
    ASSUME SuggestInv, NEW t \in Teachers, NEW forced \in BOOLEAN, T!ReadQuestionRow(t, forced)
    PROVE  /\ run' = [run EXCEPT ![t] = run'[t]] /\ run'[t] \in T!Run
           /\ run'[t].pc = "reading" /\ run'[t].seen.text = text
<1>1. run[t] \in T!Run /\ text \in T!Versions
    BY DEF SuggestInv, SuggestTypes
<1>2. run'[t] = [run[t] EXCEPT !.pc = "reading", !.forced = forced, !.seen.text = text]
    BY DEF T!ReadQuestionRow, SuggestInv, SuggestTypes
<1>3. run'[t] \in T!Run
    <2>1. text \in 0..MaxText
        BY <1>1, MarkingAssumption DEF T!Versions, T!CandidateAssumption
    <2>2. [run[t] EXCEPT !.pc = "reading", !.forced = forced, !.seen.text = text] \in T!Run
        BY <1>1, <2>1 DEF T!Run
    <2> QED
        BY <1>2, <2>2
<1>4. run'[t].pc = "reading" /\ run'[t].seen.text = text
    BY <1>1, <1>2 DEF T!Run
<1>5. run' = [run EXCEPT ![t] = run'[t]]
    BY DEF T!ReadQuestionRow, SuggestInv, SuggestTypes
<1> QED
    BY <1>3, <1>4, <1>5

LEMMA RestRead ==
    ASSUME SuggestInv, NEW t \in Teachers, T!ReadRest(t)
    PROVE  /\ run' = [run EXCEPT ![t] = run'[t]] /\ run'[t] \in T!Run
           /\ \/ run'[t] = T!Idle
              \/ /\ run'[t].pc \in {"storing", "asking"}
                 /\ run'[t].seen.text = run[t].seen.text /\ run'[t].seen.doc = text
                 /\ run'[t].pc = "asking" => run'[t].model \in Models
<1> DEFINE r == [run[t] EXCEPT !.seen.doc = text, !.allowed = enabledTags, !.model = T!CurrentModel]
<1>1. run[t] \in T!Run /\ text \in T!Versions /\ enabledTags \subseteq Labels /\ MaxText \in Nat
    BY MarkingAssumption DEF SuggestInv, SuggestTypes, T!CandidateAssumption
<1>2. T!CurrentModel \in Models \cup {NoModel}
    BY CurrentIsKnown DEF SuggestInv
<1>3. r \in T!Run /\ r.seen.text = run[t].seen.text /\ r.seen.doc = text
      /\ r.allowed \subseteq Labels /\ r.model = T!CurrentModel
    <2>1. text \in 0..MaxText
        BY <1>1 DEF T!Versions
    <2>2. r \in T!Run
        BY <1>1, <1>2, <2>1 DEF T!Run
    <2> QED
        BY <1>1, <2>2 DEF T!Run
<1>4. T!RuleTags(r.seen.text, r.allowed) \in SUBSET Labels
    BY <1>3 DEF T!RuleTags, T!Leading
<1>5. run' = [run EXCEPT ![t] =
                 IF r.model = NoModel
                 THEN [r EXCEPT !.pc = "storing", !.tags = T!RuleTags(r.seen.text, r.allowed)]
                 ELSE IF (T!Cached(r) # {} /\ ~r.forced) \/ ~config[r.model].key THEN T!Idle
                 ELSE [r EXCEPT !.pc = "asking"]]
    BY DEF T!ReadRest
<1> HIDE DEF r
<1>6. run' = [run EXCEPT ![t] = run'[t]]
      /\ run'[t] = IF r.model = NoModel
                 THEN [r EXCEPT !.pc = "storing", !.tags = T!RuleTags(r.seen.text, r.allowed)]
                 ELSE IF (T!Cached(r) # {} /\ ~r.forced) \/ ~config[r.model].key THEN T!Idle
                 ELSE [r EXCEPT !.pc = "asking"]
    BY <1>5 DEF SuggestInv, SuggestTypes
<1>7. CASE r.model = NoModel
    <2>1. run'[t] = [r EXCEPT !.pc = "storing", !.tags = T!RuleTags(r.seen.text, r.allowed)]
        BY <1>6, <1>7
    <2>2. run'[t] \in T!Run
        BY <1>3, <1>4, <2>1 DEF T!Run
    <2>3. run'[t].pc = "storing" /\ run'[t].seen = r.seen
        BY <1>3, <2>1 DEF T!Run
    <2> QED
        BY <1>3, <1>6, <2>2, <2>3
<1>8. CASE r.model # NoModel /\ run'[t] = [r EXCEPT !.pc = "asking"]
    <2>1. run'[t] \in T!Run
        BY <1>3, <1>8 DEF T!Run
    <2>2. run'[t].pc = "asking" /\ run'[t].seen = r.seen /\ run'[t].model = r.model
        BY <1>3, <1>8 DEF T!Run
    <2> QED
        BY <1>2, <1>3, <1>6, <1>8, <2>1, <2>2
<1>9. CASE run'[t] = T!Idle
    BY <1>6, <1>9, IdleIsRun
<1> QED
    BY <1>6, <1>7, <1>8, <1>9

LEMMA BudgetChecked ==
    ASSUME SuggestInv, NEW t \in Teachers, T!CheckBudget(t)
    PROVE  /\ run' = [run EXCEPT ![t] = run'[t]] /\ run'[t] \in T!Run
           /\ \/ run'[t] = T!Idle
              \/ /\ run'[t].pc = "calling" /\ run'[t].seen = run[t].seen
                 /\ run'[t].model = run[t].model
                 /\ T!WithinLimits(run[t].model, Estimate[run[t].seen.text])
<1>1. run[t] \in T!Run
    BY DEF SuggestInv, SuggestTypes
<1>2. run' = [run EXCEPT ![t] = run'[t]]
      /\ run'[t] = IF T!Allowed(run[t].model, run[t].seen.text)
                   THEN [run[t] EXCEPT !.pc = "calling"] ELSE T!Idle
    BY DEF T!CheckBudget, SuggestInv, SuggestTypes
<1>3. CASE T!Allowed(run[t].model, run[t].seen.text)
    <2>1. run'[t] = [run[t] EXCEPT !.pc = "calling"]
        BY <1>2, <1>3
    <2>2. run'[t] \in T!Run
        BY <1>1, <2>1 DEF T!Run
    <2>3. run'[t].pc = "calling" /\ run'[t].seen = run[t].seen /\ run'[t].model = run[t].model
        BY <1>1, <2>1 DEF T!Run
    <2> QED
        BY <1>2, <1>3, <2>2, <2>3 DEF T!Allowed
<1>4. CASE ~T!Allowed(run[t].model, run[t].seen.text)
    BY <1>2, <1>4, IdleIsRun
<1> QED
    BY <1>3, <1>4

\* A call that ends, well or not, and what it cost.
CallEnds(t) == T!Answered(t) \/ T!CallFailed(t)

LEMMA CallEnded ==
    ASSUME SuggestInv, NEW t \in Teachers, CallEnds(t)
    PROVE  /\ run' = [run EXCEPT ![t] = run'[t]] /\ run'[t] \in T!Run
           /\ \/ run'[t] = T!Idle
              \/ run'[t].pc = "storing" /\ run'[t].seen = run[t].seen
           /\ \E cost \in Costs : T!RecordUsage(run[t].model, cost)
<1>1. run[t] \in T!Run
    BY DEF SuggestInv, SuggestTypes
<1>2. CASE T!CallFailed(t)
    <2>1. run' = [run EXCEPT ![t] = T!Idle]
        BY <1>2 DEF T!CallFailed
    <2>2. run' = [run EXCEPT ![t] = run'[t]] /\ run'[t] = T!Idle
        BY <2>1 DEF SuggestInv, SuggestTypes
    <2>3. \E cost \in Costs : T!RecordUsage(run[t].model, cost)
        BY <1>2 DEF T!CallFailed
    <2> QED
        BY <2>2, <2>3, IdleIsRun
<1>3. CASE T!Answered(t)
    <2>1. PICK answer \in SUBSET Labels, cost \in Costs :
            /\ T!RecordUsage(run[t].model, cost)
            /\ run' = [run EXCEPT ![t] =
                IF T!Valid(answer, run[t].allowed)
                THEN [run[t] EXCEPT !.pc = "storing", !.tags = answer] ELSE T!Idle]
        BY <1>3 DEF T!Answered
    <2>2. run' = [run EXCEPT ![t] = run'[t]]
          /\ run'[t] = IF T!Valid(answer, run[t].allowed)
                       THEN [run[t] EXCEPT !.pc = "storing", !.tags = answer] ELSE T!Idle
        BY <2>1 DEF SuggestInv, SuggestTypes
    <2>3. CASE run'[t] = [run[t] EXCEPT !.pc = "storing", !.tags = answer]
        <3>1. run'[t] \in T!Run
            BY <1>1, <2>3 DEF T!Run
        <3>2. run'[t].pc = "storing" /\ run'[t].seen = run[t].seen
            BY <1>1, <2>3 DEF T!Run
        <3> QED
            BY <2>1, <2>2, <3>1, <3>2
    <2> QED
        BY <2>1, <2>2, <2>3, IdleIsRun
<1> QED
    BY <1>2, <1>3 DEF CallEnds

-----------------------------------------------------------------------------
\* A run that is given up keeps nothing.
LEMMA GivenUp ==
    ASSUME SuggestInv, NEW t \in Teachers, T!Die(t) \/ T!StoreCandidate(t)
    PROVE  run' = [run EXCEPT ![t] = run'[t]] /\ run'[t] = T!Idle
<1>1. run' = [run EXCEPT ![t] = T!Idle]
    BY DEF T!Die, T!StoreCandidate
<1> QED
    BY <1>1 DEF SuggestInv, SuggestTypes

\* Nobody asks while something else is edited or saved.
LEMMA NobodyRuns ==
    ASSUME T!EditQuestion \/ T!Switches \/ T!Settings \/ UNCHANGED candidateVars
    PROVE  run' = run
BY DEF T!EditQuestion, T!Switches, T!SwitchTag, T!Settings, T!SaveSetting, candidateVars

LEMMA RunTypes ==
    ASSUME SuggestInv, [T!CandidateNext]_candidateVars PROVE run' \in [Teachers -> T!Run]
<1>1. ASSUME NEW t \in Teachers, run' = [run EXCEPT ![t] = run'[t]], run'[t] \in T!Run
      PROVE  run' \in [Teachers -> T!Run]
    BY <1>1 DEF SuggestInv, SuggestTypes
<1>2. CASE T!Requests
    BY <1>1, <1>2, QuestionRead DEF T!Requests
<1>3. CASE T!Reads
    BY <1>1, <1>3, RestRead DEF T!Reads
<1>4. CASE T!Checks
    BY <1>1, <1>4, BudgetChecked DEF T!Checks
<1>5. CASE T!Returns \/ T!FailedCalls
    BY <1>1, <1>5, CallEnded DEF T!Returns, T!FailedCalls, CallEnds
<1>6. CASE T!Dies \/ T!Stores
    BY <1>1, <1>6, GivenUp, IdleIsRun DEF T!Dies, T!Stores
<1>7. CASE T!EditQuestion \/ T!Switches \/ T!Settings \/ UNCHANGED candidateVars
    BY <1>7, NobodyRuns DEF SuggestInv, SuggestTypes
<1> QED
    BY <1>2, <1>3, <1>4, <1>5, <1>6, <1>7 DEF T!CandidateNext

\* The question changes by an edit alone.
LEMMA TextStays ==
    ASSUME SuggestInv, [T!CandidateNext]_candidateVars
    PROVE  text' \in T!Versions /\ text <= text' /\ (T!EditQuestion \/ text' = text)
<1>1. text \in T!Versions /\ MaxText \in Nat
    BY MarkingAssumption DEF SuggestInv, SuggestTypes, T!CandidateAssumption
<1>2. CASE T!EditQuestion
    BY <1>1, <1>2 DEF T!EditQuestion, T!Versions
<1>3. CASE UNCHANGED text
    BY <1>1, <1>3 DEF T!Versions
<1> QED
    BY <1>2, <1>3 DEF T!CandidateNext, T!Requests, T!Reads, T!Checks, T!Returns, T!FailedCalls, T!Dies,
       T!Stores, T!Switches, T!Settings, T!ReadQuestionRow, T!ReadRest, T!CheckBudget, T!Answered,
       T!CallFailed, T!Die, T!StoreCandidate, T!SwitchTag, T!SaveSetting, candidateVars

LEMMA UsageTyped ==
    ASSUME SuggestTypes, NEW m \in Models, NEW cost \in Costs, T!RecordUsage(m, cost)
    PROVE  counted' \in [Models -> Nat] /\ spent' \in [Models -> Nat] /\ config' = config
<1>1. cost \in Nat
    BY DearestCall
<1>2. counted \in [Models -> Nat] /\ spent \in [Models -> Nat]
    BY DEF SuggestTypes
<1>3. counted[m] + 1 \in Nat /\ spent[m] + cost \in Nat
    BY <1>1, <1>2
<1> QED
    BY <1>2, <1>3 DEF T!RecordUsage

LEMMA SettingSaved ==
    ASSUME SuggestTypes, NEW m \in Models, NEW on \in BOOLEAN, NEW key \in BOOLEAN,
           T!SaveSetting(m, on, key)
    PROVE  config' \in [Models -> T!Setting]
<1>1. T!Now \in 0..MaxSaved /\ T!Now < MaxSaved /\ MaxSaved \in Nat
    BY NowIsTime, MarkingAssumption DEF T!SaveSetting, T!CandidateAssumption
<1>2. T!Now + 1 \in 0..MaxSaved
    BY <1>1
<1>3. config \in [Models -> T!Setting]
    BY DEF SuggestTypes
<1>4. (config[m].key \/ key) \in BOOLEAN
    OBVIOUS
<1>5. [on |-> on, key |-> config[m].key \/ key, saved |-> T!Now + 1] \in T!Setting
    BY <1>2, <1>4, Zenon DEF T!Setting
<1>6. config' = [config EXCEPT ![m] = [on |-> on, key |-> config[m].key \/ key, saved |-> T!Now + 1]]
    BY DEF T!SaveSetting
<1> QED
    BY <1>3, <1>5, <1>6, Zenon

LEMMA SuggestTypesStep ==
    ASSUME SuggestInv, [T!CandidateNext]_candidateVars PROVE SuggestTypes'
<1>1. run' \in [Teachers -> T!Run] /\ text' \in T!Versions
    BY RunTypes, TextStays
<1>2. SuggestTypes /\ \A t \in Teachers : InSequence(t)
    BY DEF SuggestInv
<1> DEFINE Rest == /\ enabledTags' \subseteq Labels /\ config' \in [Models -> T!Setting]
                   /\ counted' \in [Models -> Nat] /\ spent' \in [Models -> Nat]
<1>3. CASE T!Returns \/ T!FailedCalls
    <2>1. PICK t \in Teachers : CallEnds(t)
        BY <1>3 DEF T!Returns, T!FailedCalls, CallEnds
    <2>2. PICK cost \in Costs : T!RecordUsage(run[t].model, cost)
        BY <2>1, CallEnded
    <2>3. run[t].model \in Models
        BY <1>2, <2>1 DEF CallEnds, T!Answered, T!CallFailed, InSequence
    <2>4. enabledTags' = enabledTags
        BY <2>1 DEF CallEnds, T!Answered, T!CallFailed
    <2> QED
        BY <1>1, <1>2, <2>2, <2>3, <2>4, UsageTyped DEF SuggestTypes
<1>4. CASE T!Settings
    <2>1. PICK m \in Models, on \in BOOLEAN, key \in BOOLEAN : T!SaveSetting(m, on, key)
        BY <1>4 DEF T!Settings
    <2>2. config' \in [Models -> T!Setting]
        BY <1>2, <2>1, SettingSaved
    <2> QED
        BY <1>1, <1>2, <2>1, <2>2 DEF SuggestTypes, T!SaveSetting
<1>5. CASE T!Switches
    BY <1>1, <1>2, <1>5 DEF SuggestTypes, T!Switches, T!SwitchTag, T!providerVars
<1>6. CASE UNCHANGED <<enabledTags, config, counted, spent>>
    BY <1>1, <1>2, <1>6 DEF SuggestTypes
<1> QED
    BY <1>3, <1>4, <1>5, <1>6 DEF T!CandidateNext, T!Requests, T!Reads, T!Checks, T!Dies,
       T!Stores, T!ReadQuestionRow, T!ReadRest, T!CheckBudget, T!EditQuestion,
       T!Die, T!StoreCandidate, T!providerVars, candidateVars

LEMMA SequenceStep ==
    ASSUME SuggestInv, [T!CandidateNext]_candidateVars PROVE \A t \in Teachers : InSequence(t)'
<1>1. text' \in T!Versions /\ text \in T!Versions /\ text <= text' /\ MaxText \in Nat
    BY TextStays, MarkingAssumption DEF SuggestInv, SuggestTypes, T!CandidateAssumption
<1>2. ASSUME NEW u \in Teachers, run'[u] = run[u] PROVE InSequence(u)'
    <2>1. run[u].seen.text \in 0..MaxText /\ run[u].seen.doc \in 0..MaxText /\ InSequence(u)
        BY DEF SuggestInv, SuggestTypes, T!Run
    <2> QED
        BY <1>1, <1>2, <2>1 DEF InSequence, T!Versions
<1>3. ASSUME NEW t \in Teachers, run' = [run EXCEPT ![t] = run'[t]], InSequence(t)'
      PROVE  \A u \in Teachers : InSequence(u)'
    <2>1. \A u \in Teachers \ {t} : run'[u] = run[u]
        BY <1>3 DEF SuggestInv, SuggestTypes
    <2> QED
        BY <1>2, <1>3, <2>1
<1>4. ASSUME NEW t \in Teachers, run'[t] = T!Idle PROVE InSequence(t)'
    BY <1>4 DEF T!Idle, InSequence
<1>5. CASE T!Requests
    <2>1. PICK t \in Teachers, forced \in BOOLEAN : T!ReadQuestionRow(t, forced)
        BY <1>5 DEF T!Requests
    <2>2. run'[t].pc = "reading" /\ run'[t].seen.text = text /\ text' = text
        BY <2>1, QuestionRead DEF T!ReadQuestionRow
    <2>3. InSequence(t)'
        BY <1>1, <2>2 DEF InSequence, T!Versions
    <2> QED
        BY <1>3, <2>1, <2>3, QuestionRead
<1>6. CASE T!Reads
    <2>1. PICK t \in Teachers : T!ReadRest(t)
        BY <1>6 DEF T!Reads
    <2>2. run[t].seen.text \in T!Versions /\ run[t].seen.text <= text /\ text' = text
        BY <2>1 DEF T!ReadRest, SuggestInv, InSequence
    <2>3. InSequence(t)'
        <3>1. CASE run'[t] = T!Idle
            BY <1>4, <3>1
        <3>2. CASE /\ run'[t].pc \in {"storing", "asking"}
                   /\ run'[t].seen.text = run[t].seen.text /\ run'[t].seen.doc = text
                   /\ run'[t].pc = "asking" => run'[t].model \in Models
            BY <1>1, <2>2, <3>2 DEF InSequence, T!Versions
        <3> QED
            BY <2>1, <3>1, <3>2, RestRead
    <2> QED
        BY <1>3, <2>1, <2>3, RestRead
<1>7. CASE T!Checks
    <2>1. PICK t \in Teachers : T!CheckBudget(t)
        BY <1>7 DEF T!Checks
    <2>2. text' = text /\ run[t].pc = "asking"
        BY <2>1 DEF T!CheckBudget
    <2>3. InSequence(t)'
        BY <1>4, <2>1, <2>2, BudgetChecked DEF SuggestInv, InSequence
    <2> QED
        BY <1>3, <2>1, <2>3, BudgetChecked
<1>8. CASE T!Returns \/ T!FailedCalls
    <2>1. PICK t \in Teachers : CallEnds(t)
        BY <1>8 DEF T!Returns, T!FailedCalls, CallEnds
    <2>2. text' = text /\ run[t].pc = "calling"
        BY <2>1 DEF CallEnds, T!Answered, T!CallFailed
    <2>3. InSequence(t)'
        BY <1>4, <2>1, <2>2, CallEnded DEF SuggestInv, InSequence
    <2> QED
        BY <1>3, <2>1, <2>3, CallEnded
<1>9. CASE T!Dies \/ T!Stores
    BY <1>3, <1>4, <1>9, GivenUp DEF T!Dies, T!Stores
<1>10. CASE T!EditQuestion \/ T!Switches \/ T!Settings \/ UNCHANGED candidateVars
    BY <1>2, <1>10, NobodyRuns
<1> QED
    BY <1>5, <1>6, <1>7, <1>8, <1>9, <1>10 DEF T!CandidateNext

-----------------------------------------------------------------------------
Forced == {c \in candidates : c.copy > 0}

LEMMA CopiesAreForced ==
    ASSUME IsFiniteSet(candidates)
    PROVE  T!Copies = Cardinality(Forced) /\ IsFiniteSet(Forced) /\ T!Copies \in Nat
<1>1. T!Copies = Cardinality(Forced)
    BY SameSize DEF T!Copies, Forced
<1>2. IsFiniteSet(Forced) /\ Cardinality(Forced) \in Nat
    BY FS_Subset, FS_CardinalityType DEF Forced
<1> QED
    BY <1>1, <1>2

\* Another row is stored: one that was not there, and numbered as it must be.
LEMMA RowStored ==
    ASSUME SuggestInv, NEW x, candidates' = candidates \cup {x}, text' = text,
           x.made \in T!Source, x.tags \subseteq Labels, x.key.text = x.made.text,
           x.key.doc = x.made.doc, x.made.text <= x.made.doc, x.made.doc <= text,
           \/ x.copy = T!Copies + 1
           \/ x.copy = 0 /\ \A c \in candidates : c.copy = 0 => c.key # x.key
    PROVE  IsFiniteSet(candidates)' /\ OnePerKey' /\ \A c \in candidates' : FromOneReading(c)'
<1>1. IsFiniteSet(candidates') /\ IsFiniteSet(candidates)
    BY FS_AddElement DEF SuggestInv
<1>2. T!Copies = Cardinality(Forced) /\ IsFiniteSet(Forced) /\ T!Copies \in Nat
    BY <1>1, CopiesAreForced
<1>3. T!Copies' = Cardinality(Forced')
    BY SameSize DEF T!Copies, Forced
<1>4. \A c \in candidates : FromOneReading(c)
    BY DEF SuggestInv
<1>5. CASE x.copy = T!Copies + 1
    <2>1. x \notin Forced /\ x \notin candidates
        BY <1>2, <1>4, <1>5 DEF FromOneReading, Forced
    <2>2. Forced' = Forced \cup {x}
        BY <1>2, <1>5 DEF Forced
    <2>3. T!Copies' = T!Copies + 1
        BY <1>2, <1>3, <2>1, <2>2, FS_AddElement
    <2>4. \A c \in candidates : c.copy \in 0..T!Copies
        BY <1>4 DEF FromOneReading
    <2>5. OnePerKey'
        BY <1>2, <1>5, <2>4 DEF OnePerKey, SuggestInv
    <2>6. ASSUME NEW c \in candidates PROVE FromOneReading(c)'
        <3>1. c.copy \in 0..T!Copies'
            BY <1>2, <2>3, <2>4
        <3> QED
            BY <1>4, <3>1 DEF FromOneReading
    <2>7. FromOneReading(x)'
        <3>1. x.copy \in 0..T!Copies'
            BY <1>2, <1>5, <2>3
        <3> QED
            BY <3>1 DEF FromOneReading
    <2> QED
        BY <1>1, <2>5, <2>6, <2>7
<1>6. CASE x.copy = 0 /\ \A c \in candidates : c.copy = 0 => c.key # x.key
    <2>1. Forced' = Forced
        BY <1>6 DEF Forced
    <2>2. T!Copies' = T!Copies
        BY <1>2, <1>3, <2>1
    <2>3. OnePerKey'
        BY <1>6 DEF OnePerKey, SuggestInv
    <2>4. \A c \in candidates : FromOneReading(c)'
        BY <1>4, <2>2 DEF FromOneReading
    <2>5. FromOneReading(x)'
        <3>1. x.copy \in 0..T!Copies'
            BY <1>2, <1>6, <2>2
        <3> QED
            BY <3>1 DEF FromOneReading
    <2> QED
        BY <1>1, <2>3, <2>4, <2>5
<1> QED
    BY <1>5, <1>6

LEMMA RowsStep ==
    ASSUME SuggestInv, [T!CandidateNext]_candidateVars
    PROVE  IsFiniteSet(candidates)' /\ OnePerKey' /\ \A c \in candidates' : FromOneReading(c)'
<1>1. CASE UNCHANGED candidates
    <2>1. T!Copies' = T!Copies
        BY <1>1 DEF T!Copies
    <2>2. text' \in Nat /\ text \in Nat /\ text <= text'
        BY TextStays, MarkingAssumption DEF SuggestInv, SuggestTypes, T!Versions, T!CandidateAssumption
    <2>3. \A c \in candidates : FromOneReading(c)'
        <3>1. ASSUME NEW c \in candidates PROVE c.made.doc <= text'
            <4>1. c.made.doc \in Nat /\ c.made.doc <= text
                BY MarkingAssumption DEF SuggestInv, FromOneReading, T!Source, T!CandidateAssumption
            <4> QED
                BY <2>2, <4>1
        <3> QED
            BY <2>1, <3>1 DEF SuggestInv, FromOneReading
    <2> QED
        BY <1>1, <2>3 DEF SuggestInv, OnePerKey
<1>2. CASE T!Stores
    <2>1. PICK t \in Teachers : T!StoreCandidate(t)
        BY <1>2 DEF T!Stores
    <2>2. run[t] \in T!Run /\ run[t].pc = "storing" /\ InSequence(t) /\ text' = text
        BY <2>1 DEF T!StoreCandidate, SuggestInv, SuggestTypes
    <2>3. run[t].seen \in T!Source /\ run[t].tags \subseteq Labels
        BY <2>2 DEF T!Run, T!Source, InSequence
    <2>4. ASSUME NEW n, candidates' = candidates \cup {T!Row(run[t], n)},
                 \/ n = T!Copies + 1
                 \/ n = 0 /\ T!Cached(run[t]) = {}
          PROVE  IsFiniteSet(candidates)' /\ OnePerKey' /\ \A c \in candidates' : FromOneReading(c)'
        <3> DEFINE x == T!Row(run[t], n)
        <3>1. x.made = run[t].seen /\ x.tags = run[t].tags /\ x.copy = n
              /\ x.key = T!CacheKey(run[t]) /\ x.key.text = run[t].seen.text
              /\ x.key.doc = run[t].seen.doc
            BY DEF T!Row, T!CacheKey
        <3>2. x.made \in T!Source /\ x.tags \subseteq Labels /\ x.key.text = x.made.text
              /\ x.key.doc = x.made.doc /\ x.made.text <= x.made.doc /\ x.made.doc <= text
            BY <2>2, <2>3, <3>1 DEF InSequence
        <3>3. \/ x.copy = T!Copies + 1
              \/ x.copy = 0 /\ \A c \in candidates : c.copy = 0 => c.key # x.key
            BY <2>4, <3>1 DEF T!Cached
        <3>4. candidates' = candidates \cup {x}
            BY <2>4
        <3> HIDE DEF x
        <3> QED
            BY <2>2, <3>2, <3>3, <3>4, RowStored
    <2>5. CASE run[t].forced
        BY <2>1, <2>4, <2>5 DEF T!StoreCandidate
    <2>6. CASE ~run[t].forced /\ T!Cached(run[t]) = {}
        BY <2>1, <2>4, <2>6 DEF T!StoreCandidate
    <2>7. CASE ~run[t].forced /\ T!Cached(run[t]) # {}
        BY <1>1, <2>1, <2>7 DEF T!StoreCandidate
    <2> QED
        BY <2>5, <2>6, <2>7
<1> QED
    BY <1>1, <1>2 DEF T!CandidateNext, T!Requests, T!Reads, T!Checks, T!Returns, T!FailedCalls, T!Dies,
       T!Switches, T!Settings, T!ReadQuestionRow, T!ReadRest, T!CheckBudget, T!Answered,
       T!CallFailed, T!Die, T!EditQuestion, T!SwitchTag, T!SaveSetting, candidateVars

-----------------------------------------------------------------------------
\* As many calls of a model or fewer, and nothing more paid for.
LEMMA NoMoreCalls ==
    ASSUME SuggestInv, NEW m \in Models, counted'[m] = counted[m], spent'[m] = spent[m],
           Callers(m)' \subseteq Callers(m)
    PROVE  WithinLimit(m)'
<1> DEFINE n == Cardinality(Callers(m))
           k == Cardinality(Callers(m)')
           c == T!MaxCost
<1>1. n \in Nat /\ k \in Nat /\ k <= n /\ c \in Nat /\ Cardinality(Teachers) \in Nat
    BY CallersAreCounted, TeachersAreCounted, FS_Subset, FS_CardinalityType, DearestCall
<1>2. k * c <= n * c /\ k * c \in Nat /\ n * c \in Nat /\ Cardinality(Teachers) * c \in Nat
    BY <1>1
<1>3. counted[m] \in Nat /\ spent[m] \in Nat /\ CallLimit \in Nat /\ MonthlyBudget \in Nat
    BY MarkingAssumption DEF SuggestInv, SuggestTypes, T!CandidateAssumption
<1>4. T!MaxCost' = c
    BY DEF T!MaxCost
<1> QED
    BY <1>1, <1>2, <1>3, <1>4 DEF SuggestInv, WithinLimit

\* A call that ends is paid.
LEMMA CallIsPaid ==
    ASSUME SuggestInv, NEW m \in Models, NEW t \in Callers(m), NEW cost \in Costs,
           counted'[m] = counted[m] + 1, spent'[m] = spent[m] + cost,
           Callers(m)' \subseteq Callers(m) \ {t}
    PROVE  WithinLimit(m)'
<1> DEFINE n == Cardinality(Callers(m))
           k == Cardinality(Callers(m)')
           c == T!MaxCost
           all == Cardinality(Teachers) * c
<1>1. IsFiniteSet(Callers(m) \ {t}) /\ Cardinality(Callers(m) \ {t}) = n - 1
    BY CallersAreCounted, FS_RemoveElement
<1>2. n \in Nat /\ k \in Nat /\ k <= n - 1 /\ c \in Nat /\ Cardinality(Teachers) \in Nat
    BY <1>1, CallersAreCounted, TeachersAreCounted, FS_Subset, FS_CardinalityType, DearestCall
<1>3. cost \in Nat /\ cost <= c
    BY DearestCall
<1>4. k * c + c <= n * c /\ k * c \in Nat /\ n * c \in Nat /\ all \in Nat
    <2>1. (k + 1) * c <= n * c /\ (k + 1) * c = k * c + c
        BY <1>2
    <2> QED
        BY <1>2, <2>1
<1>5. counted[m] \in Nat /\ spent[m] \in Nat /\ CallLimit \in Nat /\ MonthlyBudget \in Nat
    BY MarkingAssumption DEF SuggestInv, SuggestTypes, T!CandidateAssumption
<1>6. T!MaxCost' = c
    BY DEF T!MaxCost
<1>7. CallLimit > 0 => counted'[m] + k <= CallLimit + Cardinality(Teachers) - 1
    BY <1>2, <1>5 DEF SuggestInv, WithinLimit
<1>8. MonthlyBudget > 0 => spent'[m] + k * c <= MonthlyBudget + all
    <2>1. MonthlyBudget > 0 => spent[m] + n * c <= MonthlyBudget + all
        BY DEF SuggestInv, WithinLimit
    <2> HIDE DEF n, k, c, all
    <2> QED
        BY <1>2, <1>3, <1>4, <1>5, <2>1
<1> QED
    BY <1>6, <1>7, <1>8 DEF WithinLimit

\* A call begins while the provider is below its limits.
LEMMA CallStarts ==
    ASSUME SuggestInv, NEW m \in Models, counted'[m] = counted[m], spent'[m] = spent[m],
           NEW e \in Nat, T!WithinLimits(m, e)
    PROVE  WithinLimit(m)'
<1> DEFINE k == Cardinality(Callers(m)')
           c == T!MaxCost
           all == Cardinality(Teachers) * c
<1>1. Callers(m)' \subseteq Teachers
    BY DEF Callers
<1>2. k \in Nat /\ k <= Cardinality(Teachers) /\ Cardinality(Teachers) \in Nat /\ c \in Nat
    BY <1>1, TeachersAreCounted, FS_Subset, FS_CardinalityType, DearestCall
<1>3. k * c <= all /\ k * c \in Nat /\ all \in Nat
    BY <1>2
<1>4. counted[m] \in Nat /\ spent[m] \in Nat /\ CallLimit \in Nat /\ MonthlyBudget \in Nat
    BY MarkingAssumption DEF SuggestInv, SuggestTypes, T!CandidateAssumption
<1>5. T!MaxCost' = c
    BY DEF T!MaxCost
<1>6. CallLimit > 0 => counted'[m] + k <= CallLimit + Cardinality(Teachers) - 1
    BY <1>2, <1>4 DEF T!WithinLimits
<1>7. MonthlyBudget > 0 => spent'[m] + k * c <= MonthlyBudget + all
    <2>1. MonthlyBudget > 0 => spent[m] + e <= MonthlyBudget
        BY <1>4 DEF T!WithinLimits
    <2> HIDE DEF k, c, all
    <2> QED
        BY <1>3, <1>4, <2>1
<1> QED
    BY <1>5, <1>6, <1>7 DEF WithinLimit

LEMMA LimitStep ==
    ASSUME SuggestInv, [T!CandidateNext]_candidateVars PROVE \A m \in Models : WithinLimit(m)'
<1>r. run \in [Teachers -> T!Run]
    BY DEF SuggestInv, SuggestTypes
<1>1. ASSUME NEW t \in Teachers, run' = [run EXCEPT ![t] = run'[t]], run'[t].pc # "calling"
      PROVE  \A m : Callers(m)' \subseteq Callers(m) \ {t}
    BY <1>r, <1>1 DEF Callers
<1>2. ASSUME NEW t \in Teachers, run' = [run EXCEPT ![t] = run'[t]], run'[t].pc # "calling",
             UNCHANGED <<counted, spent>>
      PROVE  \A m \in Models : WithinLimit(m)'
    BY <1>1, <1>2, NoMoreCalls
<1>3. CASE T!Requests
    <2>1. PICK t \in Teachers, forced \in BOOLEAN : T!ReadQuestionRow(t, forced)
        BY <1>3 DEF T!Requests
    <2> QED
        BY <1>2, <2>1, QuestionRead DEF T!ReadQuestionRow, T!providerVars
<1>4. CASE T!Reads
    <2>1. PICK t \in Teachers : T!ReadRest(t)
        BY <1>4 DEF T!Reads
    <2>2. run' = [run EXCEPT ![t] = run'[t]] /\ run'[t].pc # "calling"
        BY <2>1, RestRead, IdleIsRun
    <2> QED
        BY <1>2, <2>1, <2>2 DEF T!ReadRest, T!providerVars
<1>5. CASE T!Checks
    <2>1. PICK t \in Teachers : T!CheckBudget(t)
        BY <1>5 DEF T!Checks
    <2>2. UNCHANGED <<counted, spent>>
        BY <2>1 DEF T!CheckBudget, T!providerVars
    <2>3. CASE run'[t] = T!Idle
        BY <1>2, <2>1, <2>2, <2>3, BudgetChecked, IdleIsRun
    <2>4. CASE /\ run'[t].pc = "calling" /\ run'[t].model = run[t].model
               /\ T!WithinLimits(run[t].model, Estimate[run[t].seen.text])
        <3>1. run[t].seen.text \in T!Versions
            BY <2>1 DEF T!CheckBudget, SuggestInv, InSequence
        <3>2. Estimate[run[t].seen.text] \in Nat
            BY <3>1, MarkingAssumption DEF T!CandidateAssumption, T!Versions
        <3>3. ASSUME NEW m \in Models, m = run[t].model PROVE WithinLimit(m)'
            BY <2>2, <2>4, <3>2, <3>3, CallStarts
        <3>4. ASSUME NEW m \in Models, m # run[t].model PROVE WithinLimit(m)'
            <4>1. Callers(m)' \subseteq Callers(m)
                BY <1>r, <2>1, <2>4, <3>4, BudgetChecked DEF Callers
            <4> QED
                BY <2>2, <4>1, NoMoreCalls
        <3> QED
            BY <3>3, <3>4
    <2> QED
        BY <2>1, <2>3, <2>4, BudgetChecked
<1>6. CASE T!Returns \/ T!FailedCalls
    <2>1. PICK t \in Teachers : CallEnds(t)
        BY <1>6 DEF T!Returns, T!FailedCalls, CallEnds
    <2>2. PICK cost \in Costs : T!RecordUsage(run[t].model, cost)
        BY <2>1, CallEnded
    <2>3. run[t].pc = "calling" /\ run[t].model \in Models
        BY <2>1 DEF CallEnds, T!Answered, T!CallFailed, SuggestInv, InSequence
    <2>4. run' = [run EXCEPT ![t] = run'[t]] /\ run'[t].pc # "calling"
        BY <2>1, CallEnded, IdleIsRun
    <2>5. \A m : Callers(m)' \subseteq Callers(m) \ {t}
        BY <1>1, <2>4
    <2>6. counted \in [Models -> Nat] /\ spent \in [Models -> Nat]
        BY DEF SuggestInv, SuggestTypes
    <2>7. ASSUME NEW m \in Models, m = run[t].model PROVE WithinLimit(m)'
        <3>1. counted'[m] = counted[m] + 1 /\ spent'[m] = spent[m] + cost
            BY <2>2, <2>6, <2>7 DEF T!RecordUsage
        <3>2. t \in Callers(m)
            BY <2>3, <2>7 DEF Callers
        <3> QED
            BY <2>5, <3>1, <3>2, CallIsPaid
    <2>8. ASSUME NEW m \in Models, m # run[t].model PROVE WithinLimit(m)'
        <3>1. counted'[m] = counted[m] /\ spent'[m] = spent[m]
            BY <2>2, <2>6, <2>8 DEF T!RecordUsage
        <3> QED
            BY <2>5, <3>1, NoMoreCalls
    <2> QED
        BY <2>7, <2>8
<1>7. CASE T!Dies \/ T!Stores
    <2>1. PICK t \in Teachers : T!Die(t) \/ T!StoreCandidate(t)
        BY <1>7 DEF T!Dies, T!Stores
    <2>2. run' = [run EXCEPT ![t] = run'[t]] /\ run'[t].pc # "calling"
        BY <2>1, GivenUp, IdleIsRun
    <2> QED
        BY <1>2, <2>1, <2>2 DEF T!Die, T!StoreCandidate, T!providerVars
<1>8. CASE T!EditQuestion \/ T!Switches \/ T!Settings \/ UNCHANGED candidateVars
    <2>1. run' = run
        BY <1>8, NobodyRuns
    <2>2. \A m : Callers(m)' = Callers(m)
        BY <2>1 DEF Callers
    <2>3. UNCHANGED <<counted, spent>>
        BY <1>8 DEF T!EditQuestion, T!Switches, T!SwitchTag, T!Settings, T!SaveSetting,
                    T!providerVars, candidateVars
    <2> QED
        BY <2>2, <2>3, NoMoreCalls
<1> QED
    BY <1>3, <1>4, <1>5, <1>6, <1>7, <1>8 DEF T!CandidateNext

LEMMA InitSuggest == T!CandidateInit => SuggestInv
<1> SUFFICES ASSUME T!CandidateInit PROVE SuggestInv
    OBVIOUS
<1>c. MaxText \in Nat \ {0} /\ MaxSaved \in Nat /\ CallLimit \in Nat /\ MonthlyBudget \in Nat
    BY MarkingAssumption DEF T!CandidateAssumption
<1>1. SuggestTypes
    BY <1>c, IdleIsRun DEF SuggestTypes, T!CandidateInit, T!Versions, T!Unsaved, T!Setting
<1>2. \A t \in Teachers : InSequence(t)
    BY DEF T!CandidateInit, InSequence, T!Idle
<1>3. IsFiniteSet(candidates) /\ OnePerKey /\ \A c \in candidates : FromOneReading(c)
    BY FS_EmptySet DEF T!CandidateInit, OnePerKey
<1>4. ASSUME NEW m \in Models PROVE WithinLimit(m)
    <2>1. Callers(m) = {}
        BY DEF T!CandidateInit, Callers, T!Idle
    <2>2. Cardinality(Callers(m)) = 0 /\ counted[m] = 0 /\ spent[m] = 0
        BY <2>1, FS_EmptySet DEF T!CandidateInit
    <2>3. Cardinality(Teachers) * T!MaxCost \in Nat /\ 0 * T!MaxCost = 0
        BY TeachersAreCounted, DearestCall
    <2> QED
        BY <1>c, <2>2, <2>3, TeachersAreCounted DEF WithinLimit
<1> QED
    BY <1>1, <1>2, <1>3, <1>4 DEF SuggestInv

LEMMA SuggestStep == SuggestInv /\ [T!CandidateNext]_candidateVars => SuggestInv'
BY SuggestTypesStep, SequenceStep, RowsStep, LimitStep DEF SuggestInv

LEMMA SuggestTyped == SuggestInv => T!CandidateTypeOK /\ T!CandidatesFit /\ T!LimitsNearlyHold
<1> SUFFICES ASSUME SuggestInv PROVE T!CandidateTypeOK /\ T!CandidatesFit /\ T!LimitsNearlyHold
    OBVIOUS
<1>1. T!CandidateTypeOK
    BY DEF SuggestInv, SuggestTypes, FromOneReading, T!CandidateTypeOK
<1>2. T!CandidatesFit
    <2>1. ASSUME NEW c \in candidates, c.key.text = text PROVE c.made.doc = text
        <3>1. FromOneReading(c) /\ text \in Nat
            BY MarkingAssumption DEF SuggestInv, SuggestTypes, T!Versions, T!CandidateAssumption
        <3>2. c.made.doc \in Nat
            BY <3>1, MarkingAssumption DEF FromOneReading, T!Source, T!CandidateAssumption
        <3> QED
            BY <2>1, <3>1, <3>2 DEF FromOneReading
    <2> QED
        BY <2>1 DEF SuggestInv, FromOneReading, OnePerKey, T!CandidatesFit
<1>3. T!LimitsNearlyHold
    <2> SUFFICES ASSUME NEW m \in Models
                 PROVE  /\ CallLimit > 0 => counted[m] <= CallLimit + Cardinality(Teachers) - 1
                        /\ MonthlyBudget > 0 =>
                              spent[m] <= MonthlyBudget + Cardinality(Teachers) * T!MaxCost
        BY SameSize DEF T!LimitsNearlyHold
    <2> DEFINE k == Cardinality(Callers(m))
               all == Cardinality(Teachers) * T!MaxCost
    <2>1. k \in Nat /\ k * T!MaxCost \in Nat /\ all \in Nat /\ Cardinality(Teachers) \in Nat
        BY CallersAreCounted, TeachersAreCounted, DearestCall
    <2>2. counted[m] \in Nat /\ spent[m] \in Nat /\ CallLimit \in Nat /\ MonthlyBudget \in Nat
        BY MarkingAssumption DEF SuggestInv, SuggestTypes, T!CandidateAssumption
    <2>3. WithinLimit(m)
        BY DEF SuggestInv
    <2> QED
        BY <2>1, <2>2, <2>3 DEF WithinLimit
<1> QED
    BY <1>1, <1>2, <1>3

-----------------------------------------------------------------------------
(* Assessments, attempts and mastery.                                      *)

\* Finite sets and their sizes are the same seen from this instance.
LEMMA SameFiniteThere == \A S : A!IsFiniteSet(S) <=> IsFiniteSet(S)
BY DEF A!IsFiniteSet, IsFiniteSet

LEMMA SameSizeThere == \A S : A!Cardinality(S) = Cardinality(S)
BY Zenon DEF A!Cardinality, Cardinality

LEMMA AssessConstants ==
    /\ IsFiniteSet(Takers) /\ IsFiniteSet(Questions)
    /\ Keys \subseteq SUBSET Options /\ Answers \subseteq SUBSET Options
    /\ Points \in Nat \ {0} /\ PartialPoints \in 0..Points
    /\ MaxImports \in Nat /\ MaxRevisions \in Nat /\ MaxEdits \in Nat
BY MarkingAssumption, SameFiniteThere DEF A!AssessmentAssumption

AttemptRow == [of : A!Pairs, score : 0..A!NoScore, max : 1..Points,
               status : {"submitted", "reviewed", "done"}]

\* Answers are those of present students, and an exam that is not there has none.
RowsOfPresent ==
    \A p \in A!Pairs : response[p] # A!NoRow => p[1] \in present /\ paper # "none"

AssessInv ==
    /\ A!TypeOK
    /\ \A q \in Questions : bank[q].version <= 1 + used.edits
    /\ RowsOfPresent
    /\ A!MasteryAgrees /\ A!WrongListAgrees /\ A!PublishedIsComplete

-----------------------------------------------------------------------------
(* What mastery is computed from.                                          *)

Scored(st, stat, rows, t) ==
    {q \in Questions : stat = "published" /\ Tag(q) = t /\ rows[<<st, q>>].score # A!NoScore}
Right(st, stat, rows, t) ==
    {q \in Scored(st, stat, rows, t) :
        rows[<<st, q>>].max > 0 /\ rows[<<st, q>>].score >= rows[<<st, q>>].max}
Tried(st, stat, redos, t) ==
    {i \in DOMAIN redos : /\ stat = "published" /\ redos[i].of[1] = st /\ Tag(redos[i].of[2]) = t
                          /\ redos[i].status \in {"reviewed", "done"}}
Redone(st, stat, redos, t) ==
    {i \in Tried(st, stat, redos, t) : redos[i].max > 0 /\ redos[i].score >= redos[i].max}

Summary(scored, right, tried, done) ==
    IF scored + tried = 0 THEN A!NoMetric
    ELSE [attempts |-> scored, correct |-> right, redos |-> tried, redone |-> done,
          state |-> A!ClassifyMastery(scored + tried, right + done)]

LEMMA MetricsAre ==
    ASSUME NEW st, NEW stat, NEW rows, NEW redos, NEW t \in A!Tags
    PROVE  A!MetricsOf(st, stat, rows, redos)[t] =
              Summary(Cardinality(Scored(st, stat, rows, t)), Cardinality(Right(st, stat, rows, t)),
                      Cardinality(Tried(st, stat, redos, t)), Cardinality(Redone(st, stat, redos, t)))
BY SameSizeThere DEF A!MetricsOf, Summary, Scored, Right, Tried, Redone

\* They are counted from the scores and the reviewed attempts alone.
LEMMA MetricsDepend ==
    ASSUME NEW st, NEW stat, NEW rows, NEW rows2, NEW redos, NEW redos2, NEW t \in A!Tags,
           \A q \in Questions : /\ rows[<<st, q>>].score = rows2[<<st, q>>].score
                                /\ rows[<<st, q>>].max = rows2[<<st, q>>].max,
           Tried(st, stat, redos, t) = Tried(st, stat, redos2, t),
           \A i \in Tried(st, stat, redos, t) :
              redos[i].score = redos2[i].score /\ redos[i].max = redos2[i].max
    PROVE  A!MetricsOf(st, stat, rows, redos)[t] = A!MetricsOf(st, stat, rows2, redos2)[t]
<1>1. Scored(st, stat, rows, t) = Scored(st, stat, rows2, t)
    BY DEF Scored
<1>2. Right(st, stat, rows, t) = Right(st, stat, rows2, t)
    BY <1>1 DEF Right, Scored
<1>3. Redone(st, stat, redos, t) = Redone(st, stat, redos2, t)
    BY DEF Redone
<1> QED
    BY <1>1, <1>2, <1>3, MetricsAre

LEMMA UnpublishedHasNoMetrics ==
    ASSUME NEW st, NEW stat, stat # "published", NEW rows, NEW redos, NEW t \in A!Tags
    PROVE  A!MetricsOf(st, stat, rows, redos)[t] = A!NoMetric
<1>1. /\ Scored(st, stat, rows, t) = {} /\ Right(st, stat, rows, t) = {}
      /\ Tried(st, stat, redos, t) = {} /\ Redone(st, stat, redos, t) = {}
    BY DEF Scored, Right, Tried, Redone
<1>2. A!MetricsOf(st, stat, rows, redos)[t] =
         Summary(Cardinality({}), Cardinality({}), Cardinality({}), Cardinality({}))
    BY <1>1, MetricsAre
<1>3. Summary(0, 0, 0, 0) = A!NoMetric
    BY DEF Summary
<1> QED
    BY <1>2, <1>3, FS_EmptySet

LEMMA MetricsTyped ==
    ASSUME NEW st, NEW stat, NEW rows, NEW redos \in Seq(AttemptRow), NEW t \in A!Tags
    PROVE  A!MetricsOf(st, stat, rows, redos)[t] \in A!MetricType
<1> DEFINE a == Cardinality(Scored(st, stat, rows, t))
           b == Cardinality(Right(st, stat, rows, t))
           c == Cardinality(Tried(st, stat, redos, t))
           d == Cardinality(Redone(st, stat, redos, t))
<1>1. a \in Nat /\ b \in Nat
    <2>1. Scored(st, stat, rows, t) \subseteq Questions /\ Right(st, stat, rows, t) \subseteq Questions
        BY DEF Scored, Right
    <2> QED
        BY <2>1, AssessConstants, FS_Subset, FS_CardinalityType
<1>2. c \in Nat /\ d \in Nat
    <2>1. IsFiniteSet(1..Len(redos)) /\ DOMAIN redos = 1..Len(redos)
        BY FS_Interval
    <2>2. Tried(st, stat, redos, t) \subseteq 1..Len(redos) /\ Redone(st, stat, redos, t) \subseteq 1..Len(redos)
        BY <2>1 DEF Tried, Redone
    <2> QED
        BY <2>1, <2>2, FS_Subset, FS_CardinalityType
<1>3. A!ClassifyMastery(a + c, b + d) \in
        {"none", "unpractised", "not mastered", "difficult", "rough", "mastered"}
    BY DEF A!ClassifyMastery
<1>4. A!NoMetric \in A!MetricType
    BY DEF A!NoMetric, A!MetricType
<1>5. A!MetricsOf(st, stat, rows, redos)[t] = Summary(a, b, c, d)
    BY MetricsAre
<1> HIDE DEF a, b, c, d
<1>6. CASE a + c = 0
    BY <1>4, <1>5, <1>6 DEF Summary
<1>7. CASE a + c # 0
    <2>1. [attempts |-> a, correct |-> b, redos |-> c, redone |-> d,
           state |-> A!ClassifyMastery(a + c, b + d)] \in A!MetricType
        BY <1>1, <1>2, <1>3 DEF A!MetricType
    <2> QED
        BY <1>5, <1>7, <2>1 DEF Summary
<1> QED
    BY <1>6, <1>7

-----------------------------------------------------------------------------
(* Rows.                                                                   *)

LEMMA NoRowIsRow == A!NoRow \in A!RowType
BY AssessConstants DEF A!NoRow, A!RowType, A!NoScore

\* The rows of an import, a review, a grading and a revision are rows.
LEMMA RecognisedIsRow ==
    ASSUME NEW row \in A!RowType, NEW answer \in Answers, NEW doubtful
    PROVE  /\ A!Recognised(row, answer, doubtful) \in A!RowType
           /\ A!Recognised(row, answer, doubtful).status = "wrong" <=> row.status = "wrong"
           /\ A!Recognised(row, answer, doubtful).score = row.score
           /\ A!Recognised(row, answer, doubtful).max = row.max
<1>1. answer \in SUBSET Options
    BY AssessConstants
<1> DEFINE review == IF doubtful THEN "required" ELSE "not required"
           outcome == IF row = A!NoRow THEN "pending" ELSE row.status
           new == [row EXCEPT !.answer = answer, !.review = review, !.status = outcome]
<1>2. A!Recognised(row, answer, doubtful) = new
    BY DEF A!Recognised
<1>3. review \in {"none", "not required", "required", "resolved", "confirmed"}
      /\ outcome \in {"none", "pending", "correct", "wrong"}
    BY DEF A!RowType
<1>4. outcome = "wrong" <=> row.status = "wrong"
    BY DEF A!NoRow
<1> HIDE DEF review, outcome
<1>5. new \in A!RowType
    BY <1>1, <1>3 DEF A!RowType
<1>6. new.status = outcome /\ new.score = row.score /\ new.max = row.max
    BY DEF A!RowType
<1> QED
    BY <1>2, <1>4, <1>5, <1>6

LEMMA GradedIsRow ==
    ASSUME NEW row \in A!RowType, NEW key
    PROVE  LET new == A!GradedRow(row, key)
           IN  /\ new \in A!RowType /\ new # A!NoRow
               /\ new.score # A!NoScore
<1> DEFINE score == A!ScoreOf(row, key)
           outcome == IF score = Points THEN "correct" ELSE "wrong"
           new == [row EXCEPT !.score = score, !.max = Points, !.status = outcome]
<1>1. A!GradedRow(row, key) = new
    BY DEF A!GradedRow
<1>2. score \in 0..Points
    <2>1. A!GradeAnswer(key, row.answer) \in {Points, PartialPoints, 0}
        BY DEF A!GradeAnswer
    <2>2. {Points, PartialPoints, 0} \subseteq 0..Points
        BY AssessConstants
    <2>3. row.confirmed \in 0..(Points + 1) /\ Points \in Nat
        BY AssessConstants DEF A!RowType, A!NoScore
    <2>4. row.confirmed # A!NoScore => row.confirmed \in 0..Points
        BY <2>3 DEF A!NoScore
    <2> QED
        BY <2>1, <2>2, <2>4 DEF A!ScoreOf
<1>3. outcome \in {"correct", "wrong"}
    OBVIOUS
<1> HIDE DEF score, outcome
<1>4. score \in 0..A!NoScore /\ score # A!NoScore /\ Points \in 1..Points
    BY <1>2, AssessConstants DEF A!NoScore
<1>5. new \in A!RowType
    BY <1>3, <1>4 DEF A!RowType
<1>6. new.score = score /\ new.status = outcome
    BY DEF A!RowType
<1>7. A!NoRow.status = "none"
    BY DEF A!NoRow
<1> QED
    BY <1>1, <1>3, <1>4, <1>5, <1>6, <1>7

LEMMA BundledIsRow ==
    ASSUME NEW answer \in Answers, NEW confirmed \in {0, A!NoScore}
    PROVE  [A!NoRow EXCEPT !.answer = answer, !.review = "confirmed", !.confirmed = confirmed]
              \in A!RowType
<1>1. answer \in SUBSET Options /\ confirmed \in 0..A!NoScore
    BY AssessConstants DEF A!NoScore
<1> QED
    BY <1>1, NoRowIsRow DEF A!RowType

-----------------------------------------------------------------------------
(* Mastery.                                                                *)

\* Rows that are not written again agree when what they count is the same.
LEMMA MetricsKept ==
    ASSUME A!MasteryAgrees, metrics' = metrics,
           \A st \in Takers, t \in A!Tags :
              A!MetricsOf(st, paper', response', attempts')[t] = A!MetricsOf(st, paper, response, attempts)[t]
    PROVE  A!MasteryAgrees'
<1>1. A!MasteryAgrees' <=> \A st \in Takers, t \in A!Tags :
         metrics'[<<st, t>>] = A!MetricsOf(st, paper', response', attempts')[t]
    BY DEF A!MasteryAgrees, A!MetricsOf, A!Tags
<1> QED
    BY <1>1 DEF A!MasteryAgrees

LEMMA MetricsUnpublished ==
    ASSUME A!MasteryAgrees, metrics' = metrics, paper # "published", paper' # "published"
    PROVE  A!MasteryAgrees'
BY MetricsKept, UnpublishedHasNoMetrics

\* Rows that are written again agree.
LEMMA MetricsRefreshed ==
    ASSUME A!TypeOK, A!RefreshAssessment(paper', response', attempts'), attempts' \in Seq(AttemptRow)
    PROVE  A!MasteryAgrees' /\ metrics' \in [Takers \X A!Tags -> A!MetricType]
<1> DEFINE now(m) == A!MetricsOf(m[1], paper', response', attempts')[m[2]]
<1>1. metrics' = [m \in Takers \X A!Tags |-> now(m)]
    BY DEF A!RefreshAssessment, A!TypeOK
<1>2. \A m \in Takers \X A!Tags : now(m) \in A!MetricType
    BY MetricsTyped
<1>3. A!MasteryAgrees' <=> \A st \in Takers, t \in A!Tags :
         metrics'[<<st, t>>] = A!MetricsOf(st, paper', response', attempts')[t]
    BY DEF A!MasteryAgrees, A!MetricsOf, A!Tags
<1>4. \A st \in Takers, t \in A!Tags :
         metrics'[<<st, t>>] = A!MetricsOf(st, paper', response', attempts')[t]
    BY <1>1
<1> HIDE DEF now
<1> QED
    BY <1>1, <1>2, <1>3, <1>4

\* The rows of one student are written again, where no other student's scores or
\* attempts change.
LEMMA MetricsRecalculated ==
    ASSUME A!TypeOK, A!MasteryAgrees, NEW s \in Takers, attempts' \in Seq(AttemptRow),
           A!RecalculateStudent(s, paper', response', attempts'),
           \A st \in Takers \ {s}, t \in A!Tags :
              A!MetricsOf(st, paper', response', attempts')[t] = A!MetricsOf(st, paper, response, attempts)[t]
    PROVE  A!MasteryAgrees' /\ metrics' \in [Takers \X A!Tags -> A!MetricType]
<1> DEFINE now(m) == IF m[1] = s THEN A!MetricsOf(s, paper', response', attempts')[m[2]] ELSE metrics[m]
<1>1. metrics' = [m \in Takers \X A!Tags |-> now(m)]
    BY DEF A!RecalculateStudent, A!TypeOK
<1>2. \A m \in Takers \X A!Tags : now(m) \in A!MetricType
    BY MetricsTyped DEF A!TypeOK
<1>3. A!MasteryAgrees' <=> \A st \in Takers, t \in A!Tags :
         metrics'[<<st, t>>] = A!MetricsOf(st, paper', response', attempts')[t]
    BY DEF A!MasteryAgrees, A!MetricsOf, A!Tags
<1>4. \A st \in Takers, t \in A!Tags :
         metrics'[<<st, t>>] = A!MetricsOf(st, paper', response', attempts')[t]
    BY <1>1 DEF A!MasteryAgrees
<1> HIDE DEF now
<1> QED
    BY <1>1, <1>2, <1>3, <1>4

-----------------------------------------------------------------------------
(* Handlers.                                                               *)

\* What the list of wrong questions and publication need of the rows.
LEMMA RowsKept ==
    ASSUME AssessInv, response' = response, UNCHANGED <<paper, present>>
    PROVE  RowsOfPresent' /\ A!PublishedIsComplete'
BY DEF AssessInv, RowsOfPresent, A!PublishedIsComplete, A!Answered, A!Pairs

LEMMA WrongKept ==
    ASSUME AssessInv, UNCHANGED <<wrong, tagged, marked, attempts>>,
           \A p \in A!Pairs : response'[p].status = "wrong" <=> response[p].status = "wrong"
    PROVE  A!WrongListAgrees'
BY DEF AssessInv, A!WrongListAgrees, A!Referenced, A!Pairs

LEMMA UpdateStep ==
    ASSUME AssessInv, NEW q \in Questions, NEW k \in Keys, A!UpdateQuestion(q, k) PROVE AssessInv'
<1>1. used.edits \in 0..MaxEdits /\ used.edits < MaxEdits /\ MaxEdits \in Nat
      /\ bank[q].version \in 1..(1 + MaxEdits) /\ bank[q].version <= 1 + used.edits
    BY AssessConstants DEF AssessInv, A!TypeOK, A!UpdateQuestion
<1>2. bank' \in [Questions -> [key : Keys, version : 1..(1 + MaxEdits)]]
    <2>1. bank[q].version + 1 \in 1..(1 + MaxEdits)
        BY <1>1
    <2> QED
        BY <2>1 DEF AssessInv, A!TypeOK, A!UpdateQuestion
<1>3. used' \in [imports : 0..MaxImports, revisions : 0..MaxRevisions, edits : 0..MaxEdits]
      /\ used'.edits = used.edits + 1
    <2>1. used.edits + 1 \in 0..MaxEdits
        BY <1>1
    <2> QED
        BY <2>1 DEF AssessInv, A!TypeOK, A!UpdateQuestion
<1>4. A!TypeOK'
    BY <1>2, <1>3 DEF AssessInv, A!TypeOK, A!UpdateQuestion, A!Pairs, A!Tags, A!RowType, A!MetricType, A!NoScore
<1>5. \A x \in Questions : bank'[x].version <= 1 + used'.edits
    <2>1. bank'[q].version = bank[q].version + 1
        BY DEF AssessInv, A!TypeOK, A!UpdateQuestion
    <2>2. \A x \in Questions \ {q} : bank'[x] = bank[x]
        BY DEF AssessInv, A!TypeOK, A!UpdateQuestion
    <2>3. \A x \in Questions : bank[x].version \in Nat /\ bank[x].version <= 1 + used.edits
        BY DEF AssessInv, A!TypeOK
    <2> QED
        BY <1>1, <1>3, <2>1, <2>2, <2>3
<1>6. UNCHANGED <<response, paper, present, wrong, tagged, marked, attempts, metrics>>
    BY DEF A!UpdateQuestion
<1>7. RowsOfPresent' /\ A!PublishedIsComplete' /\ A!WrongListAgrees' /\ A!MasteryAgrees'
    BY <1>6, RowsKept, WrongKept, MetricsKept DEF AssessInv
<1> QED
    BY <1>4, <1>5, <1>7 DEF AssessInv

LEMMA FrozenIsSnapshot ==
    ASSUME AssessInv, NEW q \in Questions
    PROVE  A!FrozenQuestion(q) \in [key : Keys \cup {{}}, version : 0..(1 + MaxEdits)]
<1>1. bank[q] \in [key : Keys, version : 1..(1 + MaxEdits)]
    BY DEF AssessInv, A!TypeOK
<1>2. bank[q].key \in Keys \cup {{}} /\ bank[q].version \in 0..(1 + MaxEdits)
    BY <1>1, AssessConstants
<1> QED
    BY <1>2 DEF A!FrozenQuestion

LEMMA CreateStep ==
    ASSUME AssessInv, A!CreateAssessment PROVE AssessInv'
<1>1. \A p \in A!Pairs : response[p] = A!NoRow
    BY DEF AssessInv, RowsOfPresent, A!CreateAssessment
<1>2. snapshot' \in [Questions -> [key : Keys \cup {{}}, version : 0..(1 + MaxEdits)]]
    BY FrozenIsSnapshot DEF A!CreateAssessment
<1>3. A!TypeOK'
    BY <1>2 DEF AssessInv, A!TypeOK, A!CreateAssessment, A!Pairs, A!Tags, A!RowType, A!MetricType, A!NoScore
<1>4. \A x \in Questions : bank'[x].version <= 1 + used'.edits
    BY DEF AssessInv, A!CreateAssessment
<1>5. RowsOfPresent' /\ A!PublishedIsComplete'
    BY <1>1 DEF A!CreateAssessment, RowsOfPresent, A!PublishedIsComplete, A!Pairs, A!NoRow, A!NoScore
<1>6. A!WrongListAgrees'
    BY WrongKept DEF A!CreateAssessment
<1>7. A!MasteryAgrees'
    BY MetricsUnpublished DEF AssessInv, A!CreateAssessment
<1> QED
    BY <1>3, <1>4, <1>5, <1>6, <1>7 DEF AssessInv

LEMMA ImportStep ==
    ASSUME AssessInv, A!Import PROVE AssessInv'
<1>p. PICK P \in SUBSET (present \X Questions) : \E given \in [P -> Answers] :
         \E doubtful \in SUBSET P : A!ImportOcrResponses(given, doubtful)
    BY DEF A!Import
<1>g. PICK given \in [P -> Answers] : \E doubtful \in SUBSET P : A!ImportOcrResponses(given, doubtful)
    BY <1>p
<1>1. PICK doubtful \in SUBSET P : A!ImportOcrResponses(given, doubtful)
    BY <1>g
<1>2. /\ paper \notin {"none", "published"} /\ used.imports < MaxImports
      /\ UNCHANGED <<bank, roster, paper, present, snapshot, wrong, tagged, marked, attempts, metrics>>
      /\ used' = [used EXCEPT !.imports = @ + 1]
      /\ response' = [p \in A!Pairs |-> IF p \in P THEN A!Recognised(response[p], given[p], p \in doubtful)
                                        ELSE response[p]]
    BY <1>1 DEF A!ImportOcrResponses
<1>3. response \in [A!Pairs -> A!RowType] /\ present \subseteq Takers
    BY DEF AssessInv, A!TypeOK
<1>4. \A p \in P : p \in A!Pairs /\ p[1] \in present /\ given[p] \in Answers
    BY <1>1, <1>3 DEF A!Pairs
<1>5. ASSUME NEW p \in A!Pairs
      PROVE  /\ response'[p] \in A!RowType
             /\ response'[p].status = "wrong" <=> response[p].status = "wrong"
             /\ response'[p] # A!NoRow => p[1] \in present
    <2>1. CASE p \in P
        <3>1. response'[p] = A!Recognised(response[p], given[p], p \in doubtful)
            BY <1>2, <2>1
        <3> QED
            BY <1>3, <1>4, <2>1, <3>1, RecognisedIsRow
    <2>2. CASE p \notin P
        <3>1. response'[p] = response[p]
            BY <1>2, <2>2
        <3> QED
            BY <1>3, <3>1 DEF AssessInv, RowsOfPresent
    <2> QED
        BY <2>1, <2>2
<1>6. response' \in [A!Pairs -> A!RowType]
    BY <1>2, <1>5
<1>7. used' \in [imports : 0..MaxImports, revisions : 0..MaxRevisions, edits : 0..MaxEdits]
      /\ used'.edits = used.edits
    <2>1. used.imports + 1 \in 0..MaxImports
        BY <1>2, AssessConstants DEF AssessInv, A!TypeOK
    <2> QED
        BY <1>2, <2>1 DEF AssessInv, A!TypeOK
<1>8. A!TypeOK'
    BY <1>2, <1>6, <1>7 DEF AssessInv, A!TypeOK, A!Pairs, A!Tags, A!RowType, A!MetricType, A!NoScore
<1>9. \A x \in Questions : bank'[x].version <= 1 + used'.edits
    BY <1>2, <1>7 DEF AssessInv
<1>10. RowsOfPresent' /\ A!PublishedIsComplete'
    BY <1>2, <1>5 DEF RowsOfPresent, A!PublishedIsComplete, A!Pairs
<1>11. A!WrongListAgrees' /\ A!MasteryAgrees'
    BY <1>2, <1>5, WrongKept, MetricsUnpublished DEF AssessInv
<1> QED
    BY <1>8, <1>9, <1>10, <1>11 DEF AssessInv

LEMMA ResolveStep ==
    ASSUME AssessInv, NEW p \in A!Pairs, NEW a \in Answers, A!ResolveReviewItem(p, a) PROVE AssessInv'
<1>1. /\ UNCHANGED <<bank, roster, paper, present, snapshot, wrong, tagged, marked, attempts, metrics, used>>
      /\ response[p] # A!NoRow
      /\ response' = [response EXCEPT ![p].answer = a, ![p].review = "resolved"]
    BY DEF A!ResolveReviewItem, A!Answered
<1>2. response \in [A!Pairs -> A!RowType]
    BY DEF AssessInv, A!TypeOK
<1>3. response'[p] = [response[p] EXCEPT !.answer = a, !.review = "resolved"]
      /\ \A o \in A!Pairs \ {p} : response'[o] = response[o]
    BY <1>1, <1>2
<1>4. /\ response'[p] \in A!RowType /\ response'[p] # A!NoRow /\ response'[p].status = response[p].status
      /\ response'[p].score = response[p].score /\ response'[p].max = response[p].max
    <2>1. response[p] \in A!RowType
        BY <1>2
    <2>2. a \in SUBSET Options
        BY AssessConstants
    <2>3. response'[p] \in A!RowType
        BY <1>3, <2>1, <2>2 DEF A!RowType
    <2>4. /\ response'[p].review = "resolved" /\ response'[p].status = response[p].status
          /\ response'[p].score = response[p].score /\ response'[p].max = response[p].max
        BY <1>3, <2>1 DEF A!RowType
    <2>5. A!NoRow.review = "none"
        BY DEF A!NoRow
    <2> QED
        BY <2>3, <2>4, <2>5
<1>5. response' \in [A!Pairs -> A!RowType]
    BY <1>1, <1>2, <1>3, <1>4
<1>6. A!TypeOK'
    BY <1>1, <1>5 DEF AssessInv, A!TypeOK, A!Pairs, A!Tags, A!RowType, A!MetricType, A!NoScore
<1>7. \A x \in Questions : bank'[x].version <= 1 + used'.edits
    BY <1>1 DEF AssessInv
<1>8. RowsOfPresent'
    BY <1>1, <1>3 DEF AssessInv, RowsOfPresent, A!Pairs, A!NoRow, A!NoScore
<1>9. A!PublishedIsComplete'
    <2>1. ASSUME paper = "published", NEW o \in present \X Questions
          PROVE  o \in A!Pairs /\ response'[o] # A!NoRow /\ response'[o].score # A!NoScore
        <3>1. o \in A!Pairs /\ response[o] # A!NoRow /\ response[o].score # A!NoScore
            BY <2>1 DEF AssessInv, A!PublishedIsComplete, A!Answered
        <3> QED
            BY <1>3, <1>4, <3>1
    <2> QED
        BY <1>1, <2>1 DEF A!PublishedIsComplete, A!Answered, A!Pairs, A!NoRow, A!NoScore
<1>10. A!WrongListAgrees'
    BY <1>1, <1>3, <1>4, WrongKept
<1>11. A!MasteryAgrees'
    <2>1. ASSUME NEW st \in Takers, NEW q \in Questions
          PROVE  /\ response'[<<st, q>>].score = response[<<st, q>>].score
                 /\ response'[<<st, q>>].max = response[<<st, q>>].max
        <3>1. <<st, q>> \in A!Pairs
            BY DEF A!Pairs
        <3> QED
            BY <1>3, <1>4, <3>1
    <2>2. \A st \in Takers, t \in A!Tags :
            A!MetricsOf(st, paper, response', attempts)[t] = A!MetricsOf(st, paper, response, attempts)[t]
        BY <2>1, MetricsDepend
    <2> QED
        BY <1>1, <2>2, MetricsKept DEF AssessInv
<1> QED
    BY <1>6, <1>7, <1>8, <1>9, <1>10, <1>11 DEF AssessInv

LEMMA BlockedStep ==
    ASSUME AssessInv, A!GradeBlocked PROVE AssessInv'
<1>1. A!TypeOK'
    BY DEF AssessInv, A!TypeOK, A!GradeBlocked, A!Pairs, A!Tags, A!RowType, A!MetricType, A!NoScore
<1>2. \A x \in Questions : bank'[x].version <= 1 + used'.edits
    BY DEF AssessInv, A!GradeBlocked
<1>3. RowsOfPresent' /\ A!PublishedIsComplete'
    BY DEF AssessInv, A!GradeBlocked, RowsOfPresent, A!PublishedIsComplete, A!Pairs
<1>4. A!WrongListAgrees'
    BY WrongKept DEF A!GradeBlocked
<1>5. A!MasteryAgrees'
    BY MetricsUnpublished DEF AssessInv, A!GradeBlocked
<1> QED
    BY <1>1, <1>2, <1>3, <1>4, <1>5 DEF AssessInv

\* An exam is published with an answer of every student present to every question.
LEMMA AllAreAnswered ==
    ASSUME AssessInv, A!Cardinality(A!Answered) = A!Cardinality(present \X Questions)
    PROVE  A!Answered = present \X Questions
<1>1. present \subseteq Takers
    BY DEF AssessInv, A!TypeOK
<1>2. IsFiniteSet(present \X Questions)
    BY <1>1, AssessConstants, FS_Subset, FS_Product
<1>3. A!Answered \subseteq present \X Questions
    BY DEF AssessInv, RowsOfPresent, A!Answered, A!Pairs
<1>4. Cardinality(A!Answered) = Cardinality(present \X Questions)
    BY SameSizeThere
<1> QED
    BY <1>2, <1>3, <1>4, FS_Subset

\* A list of wrong questions that is rebuilt, where nothing hangs from the old one.
LEMMA WrongRebuilt ==
    ASSUME AssessInv, ~ \E p \in A!Pairs : wrong[p] # "none" /\ A!Referenced(p),
           UNCHANGED <<tagged, attempts>>, marked' = {},
           wrong' = [p \in A!Pairs |-> IF response'[p].status = "wrong" THEN "pending" ELSE "none"]
    PROVE  /\ wrong' \in [A!Pairs -> {"none", "pending", "submitted", "reviewed", "done"}]
           /\ A!WrongListAgrees'
<1>1. \A p \in A!Pairs : ~A!Referenced(p)
    BY DEF AssessInv, A!WrongListAgrees
<1>2. \A p \in A!Pairs : ~A!Referenced(p)'
    BY <1>1 DEF A!Referenced
<1>3. \A p \in A!Pairs : wrong'[p] # "none" <=> response'[p].status = "wrong"
    OBVIOUS
<1> QED
    BY <1>2, <1>3 DEF A!WrongListAgrees, A!Pairs

LEMMA GradeStep ==
    ASSUME AssessInv, NEW publish \in BOOLEAN, A!GradeAssessment(publish) PROVE AssessInv'
<1> DEFINE new(p) == IF p \in A!Answered THEN A!GradedRow(response[p], snapshot[p[2]].key) ELSE A!NoRow
<1>1. /\ paper \notin {"none", "published"}
      /\ A!Cardinality(A!Answered) = A!Cardinality(present \X Questions)
      /\ ~ \E p \in A!Pairs : wrong[p] # "none" /\ A!Referenced(p)
      /\ response' = [p \in A!Pairs |-> new(p)]
      /\ wrong' = [p \in A!Pairs |-> IF new(p).status = "wrong" THEN "pending" ELSE "none"]
      /\ marked' = {}
      /\ paper' = IF publish THEN "published" ELSE "graded"
      /\ UNCHANGED <<bank, roster, present, snapshot, tagged, attempts, used>>
    BY DEF A!GradeAssessment
<1>2. IF publish THEN A!RefreshAssessment("published", response', attempts) ELSE UNCHANGED metrics
    BY DEF A!GradeAssessment
<1>3. response \in [A!Pairs -> A!RowType] /\ A!TypeOK
    BY DEF AssessInv, A!TypeOK
<1>4. ASSUME NEW p \in A!Pairs
      PROVE  /\ response'[p] = new(p) /\ response'[p] \in A!RowType
             /\ response'[p] # A!NoRow <=> p \in A!Answered
             /\ p \in A!Answered => response'[p].score # A!NoScore
    <2>1. response'[p] = new(p)
        BY <1>1
    <2>2. CASE p \in A!Answered
        BY <1>3, <2>1, <2>2, GradedIsRow
    <2>3. CASE p \notin A!Answered
        BY <2>1, <2>3, NoRowIsRow
    <2> QED
        BY <2>1, <2>2, <2>3
<1> HIDE DEF new
<1>5. response' \in [A!Pairs -> A!RowType]
    BY <1>1, <1>4
<1>6. wrong' = [p \in A!Pairs |-> IF response'[p].status = "wrong" THEN "pending" ELSE "none"]
    BY <1>1, <1>4
<1>7. /\ wrong' \in [A!Pairs -> {"none", "pending", "submitted", "reviewed", "done"}]
      /\ A!WrongListAgrees'
    BY <1>1, <1>6, WrongRebuilt
<1>8. RowsOfPresent'
    BY <1>1, <1>4 DEF AssessInv, RowsOfPresent, A!Answered, A!Pairs, A!NoRow, A!NoScore
<1>9. A!PublishedIsComplete'
    <2>1. ASSUME NEW p \in present \X Questions
          PROVE  p \in A!Pairs /\ response'[p] # A!NoRow /\ response'[p].score # A!NoScore
        <3>1. p \in A!Answered
            BY <1>1, AllAreAnswered
        <3> QED
            BY <1>4, <3>1 DEF A!Answered
    <2> QED
        BY <1>1, <2>1 DEF A!PublishedIsComplete, A!Answered, A!Pairs, A!NoRow, A!NoScore
<1>10. A!MasteryAgrees' /\ metrics' \in [Takers \X A!Tags -> A!MetricType]
    <2>1. CASE publish
        <3>1. A!RefreshAssessment(paper', response', attempts')
            BY <1>1, <1>2, <2>1
        <3>2. attempts' \in Seq(AttemptRow)
            BY <1>1 DEF AssessInv, A!TypeOK, AttemptRow
        <3> QED
            BY <1>3, <3>1, <3>2, MetricsRefreshed
    <2>2. CASE ~publish
        BY <1>1, <1>2, <2>2, MetricsUnpublished DEF AssessInv, A!TypeOK
    <2> QED
        BY <2>1, <2>2
<1>11. A!TypeOK'
    BY <1>1, <1>5, <1>7, <1>10 DEF AssessInv, A!TypeOK, A!Pairs, A!Tags, A!RowType, A!MetricType, A!NoScore
<1>12. \A x \in Questions : bank'[x].version <= 1 + used'.edits
    BY <1>1 DEF AssessInv
<1> QED
    BY <1>7, <1>8, <1>9, <1>10, <1>11, <1>12 DEF AssessInv

LEMMA BundleStep ==
    ASSUME AssessInv, A!Bundle PROVE AssessInv'
<1>i. PICK included \in SUBSET roster : \E confirmed \in {0, A!NoScore} :
         \E given \in [included \X Questions -> Answers] : A!ImportBundle(included, given, confirmed)
    BY DEF A!Bundle
<1>c. PICK confirmed \in {0, A!NoScore} :
         \E given \in [included \X Questions -> Answers] : A!ImportBundle(included, given, confirmed)
    BY <1>i
<1>g. PICK given \in [included \X Questions -> Answers] : A!ImportBundle(included, given, confirmed)
    BY <1>c
<1> DEFINE first(p) == [A!NoRow EXCEPT !.answer = given[p], !.review = "confirmed", !.confirmed = confirmed]
           new(p) == IF p \notin DOMAIN given THEN A!NoRow ELSE A!GradedRow(first(p), bank[p[2]].key)
<1>1. /\ paper = "none"
      /\ response' = [p \in A!Pairs |-> new(p)]
      /\ wrong' = [p \in A!Pairs |-> IF new(p).status = "wrong" THEN "pending" ELSE "none"]
      /\ paper' = "published" /\ present' = included
      /\ snapshot' = [q \in Questions |-> A!FrozenQuestion(q)]
      /\ UNCHANGED <<bank, roster, tagged, marked, attempts, used>>
    BY <1>g DEF A!ImportBundle
<1>2. A!RefreshAssessment("published", response', attempts)
    BY <1>g DEF A!ImportBundle
<1>3. A!TypeOK /\ roster \subseteq Takers
    BY DEF AssessInv, A!TypeOK
<1>4. ASSUME NEW p \in A!Pairs
      PROVE  /\ response'[p] = new(p) /\ response'[p] \in A!RowType
             /\ response'[p] # A!NoRow <=> p \in included \X Questions
             /\ p \in included \X Questions => response'[p].score # A!NoScore
    <2>1. response'[p] = new(p)
        BY <1>1
    <2>2. CASE p \in included \X Questions
        <3>1. given[p] \in Answers
            BY <2>2
        <3>2. first(p) \in A!RowType
            BY <3>1, BundledIsRow
        <3> QED
            BY <2>1, <2>2, <3>2, GradedIsRow
    <2>3. CASE p \notin included \X Questions
        BY <2>1, <2>3, NoRowIsRow
    <2> QED
        BY <2>1, <2>2, <2>3
<1> HIDE DEF new
<1>5. response' \in [A!Pairs -> A!RowType]
    BY <1>1, <1>4
<1>6. wrong' = [p \in A!Pairs |-> IF response'[p].status = "wrong" THEN "pending" ELSE "none"]
    BY <1>1, <1>4
<1>7. \A p \in A!Pairs : wrong[p] = "none"
    BY <1>1 DEF AssessInv, RowsOfPresent, A!WrongListAgrees, A!NoRow
<1>8. marked' = {}
    BY <1>1, <1>3, <1>7 DEF AssessInv, A!WrongListAgrees, A!TypeOK
<1>9. /\ wrong' \in [A!Pairs -> {"none", "pending", "submitted", "reviewed", "done"}]
      /\ A!WrongListAgrees'
    BY <1>1, <1>6, <1>7, <1>8, WrongRebuilt
<1>10. RowsOfPresent'
    BY <1>1, <1>4 DEF RowsOfPresent, A!Pairs, A!NoRow, A!NoScore
<1>11. A!PublishedIsComplete'
    <2>1. \A p \in included \X Questions : p \in A!Pairs
        BY <1>3 DEF A!Pairs
    <2> QED
        BY <1>1, <1>4, <2>1 DEF A!PublishedIsComplete, A!Answered, A!Pairs, A!NoRow, A!NoScore
<1>12. A!MasteryAgrees' /\ metrics' \in [Takers \X A!Tags -> A!MetricType]
    <2>1. A!RefreshAssessment(paper', response', attempts')
        BY <1>1, <1>2
    <2>2. attempts' \in Seq(AttemptRow)
        BY <1>1 DEF AssessInv, A!TypeOK, AttemptRow
    <2> QED
        BY <1>3, <2>1, <2>2, MetricsRefreshed
<1>13. A!TypeOK'
    <2>1. snapshot' \in [Questions -> [key : Keys \cup {{}}, version : 0..(1 + MaxEdits)]]
        BY <1>1, FrozenIsSnapshot
    <2> QED
        BY <1>1, <1>3, <1>5, <1>9, <1>12, <2>1
        DEF A!TypeOK, A!Pairs, A!Tags, A!RowType, A!MetricType, A!NoScore
<1>14. \A x \in Questions : bank'[x].version <= 1 + used'.edits
    BY <1>1 DEF AssessInv
<1> QED
    BY <1>9, <1>10, <1>11, <1>12, <1>13, <1>14 DEF AssessInv

LEMMA ReviseStep ==
    ASSUME AssessInv, NEW p \in A!Pairs, NEW a \in Answers, NEW score \in 0..Points,
           NEW max \in 1..Points, A!ApplyGradingRevision(p, a, score, max)
    PROVE  AssessInv'
<1> DEFINE outcome == IF score >= max THEN "correct" ELSE "wrong"
           new == [response[p] EXCEPT !.answer = a, !.score = score, !.max = max, !.status = outcome]
<1>1. /\ used.revisions < MaxRevisions /\ paper # "none" /\ p \in A!Answered
      /\ score >= max => ~ (wrong[p] # "none" /\ A!Referenced(p))
      /\ response' = [response EXCEPT ![p] = new]
      /\ A!RefreshAssessment(paper, response', attempts)
      /\ wrong' = A!RevisedWrong(p, score, max)
      /\ marked' = IF score >= max THEN marked \ {p} ELSE marked
      /\ used' = [used EXCEPT !.revisions = @ + 1]
      /\ UNCHANGED <<bank, roster, paper, present, snapshot, tagged, attempts>>
    BY DEF A!ApplyGradingRevision
<1>2. A!TypeOK /\ response \in [A!Pairs -> A!RowType] /\ response[p] \in A!RowType
      /\ wrong \in [A!Pairs -> {"none", "pending", "submitted", "reviewed", "done"}]
    BY DEF AssessInv, A!TypeOK
<1>3. new \in A!RowType /\ new # A!NoRow /\ new.score # A!NoScore /\ new.status = outcome
    <2>1. a \in SUBSET Options /\ score \in 0..A!NoScore /\ score # A!NoScore
        BY AssessConstants DEF A!NoScore
    <2>2. outcome \in {"correct", "wrong"}
        OBVIOUS
    <2> HIDE DEF outcome
    <2>3. new \in A!RowType
        BY <1>2, <2>1, <2>2 DEF A!RowType
    <2>4. new.score = score /\ new.status = outcome
        BY <1>2 DEF A!RowType
    <2>5. A!NoRow.status = "none"
        BY DEF A!NoRow
    <2> QED
        BY <2>1, <2>2, <2>3, <2>4, <2>5
<1> HIDE DEF new
<1>4. response'[p] = new /\ \A o \in A!Pairs \ {p} : response'[o] = response[o]
    BY <1>1, <1>2
<1>5. response' \in [A!Pairs -> A!RowType]
    BY <1>1, <1>2, <1>3
<1>6. RowsOfPresent'
    BY <1>1, <1>4 DEF AssessInv, RowsOfPresent, A!Answered, A!Pairs, A!NoRow, A!NoScore
<1>7. A!PublishedIsComplete'
    <2>1. ASSUME paper = "published", NEW o \in present \X Questions
          PROVE  o \in A!Pairs /\ response'[o] # A!NoRow /\ response'[o].score # A!NoScore
        <3>1. o \in A!Pairs /\ response[o] # A!NoRow /\ response[o].score # A!NoScore
            BY <2>1 DEF AssessInv, A!PublishedIsComplete, A!Answered
        <3> QED
            BY <1>3, <1>4, <3>1
    <2> QED
        BY <1>1, <2>1 DEF A!PublishedIsComplete, A!Answered, A!Pairs, A!NoRow, A!NoScore
<1>8. /\ wrong'[p] = IF score < max THEN (IF wrong[p] = "none" THEN "pending" ELSE wrong[p]) ELSE "none"
      /\ \A o \in A!Pairs \ {p} : wrong'[o] = wrong[o]
      /\ wrong' \in [A!Pairs -> {"none", "pending", "submitted", "reviewed", "done"}]
    BY <1>1, <1>2 DEF A!RevisedWrong
<1>9. A!WrongListAgrees'
    <2>1. score \in Nat /\ max \in Nat
        BY AssessConstants
    <2>2. wrong'[p] # "none" <=> response'[p].status = "wrong"
        BY <1>3, <1>4, <1>8, <2>1
    <2>3. \A o \in A!Pairs : wrong'[o] # "none" <=> response'[o].status = "wrong"
        BY <1>4, <1>8, <2>2 DEF AssessInv, A!WrongListAgrees
    <2>4. \A o \in A!Pairs : A!Referenced(o)' <=> A!Referenced(o)
        BY <1>1 DEF A!Referenced
    <2>5. ASSUME NEW o \in A!Pairs, A!Referenced(o) \/ o \in marked' PROVE wrong'[o] # "none"
        <3>1. A!Referenced(o) \/ o \in marked
            BY <1>1, <2>5
        <3>2. wrong[o] # "none"
            BY <3>1 DEF AssessInv, A!WrongListAgrees
        <3>3. CASE o # p
            BY <1>8, <3>2, <3>3
        <3>4. CASE o = p /\ score < max
            BY <1>8, <3>2, <3>4
        <3>5. CASE o = p /\ score >= max
            BY <1>1, <2>5, <3>2, <3>5
        <3> QED
            BY <2>1, <3>3, <3>4, <3>5
    <2> QED
        BY <2>3, <2>4, <2>5 DEF A!WrongListAgrees, A!Pairs
<1>10. A!MasteryAgrees' /\ metrics' \in [Takers \X A!Tags -> A!MetricType]
    <2>1. A!RefreshAssessment(paper', response', attempts')
        BY <1>1
    <2>2. attempts' \in Seq(AttemptRow)
        BY <1>1 DEF AssessInv, A!TypeOK, AttemptRow
    <2> QED
        BY <1>2, <2>1, <2>2, MetricsRefreshed
<1>11. used' \in [imports : 0..MaxImports, revisions : 0..MaxRevisions, edits : 0..MaxEdits]
       /\ used'.edits = used.edits
    <2>1. used.revisions + 1 \in 0..MaxRevisions
        BY <1>1, AssessConstants DEF AssessInv, A!TypeOK
    <2> QED
        BY <1>1, <2>1 DEF AssessInv, A!TypeOK
<1>12. A!TypeOK'
    <2>1. marked' \subseteq A!Pairs
        BY <1>1, <1>2 DEF A!TypeOK
    <2> QED
        BY <1>1, <1>2, <1>5, <1>8, <1>10, <1>11, <2>1
        DEF A!TypeOK, A!Pairs, A!Tags, A!RowType, A!MetricType, A!NoScore
<1>13. \A x \in Questions : bank'[x].version <= 1 + used'.edits
    BY <1>1, <1>11 DEF AssessInv
<1> QED
    BY <1>6, <1>7, <1>9, <1>10, <1>12, <1>13 DEF AssessInv

LEMMA NoteStep ==
    ASSUME AssessInv, NEW p \in A!Pairs, NEW some \in BOOLEAN,
           A!TagWrongQuestionError(p, some) \/ A!SetMasteryMark(p, some)
    PROVE  AssessInv'
<1>1. /\ wrong[p] # "none"
      /\ tagged' \subseteq tagged \cup {p} /\ marked' \subseteq marked \cup {p}
      /\ UNCHANGED <<bank, roster, paper, present, snapshot, response, wrong, attempts, metrics, used>>
    BY DEF A!TagWrongQuestionError, A!SetMasteryMark
<1>2. A!TypeOK'
    BY <1>1 DEF AssessInv, A!TypeOK, A!Pairs, A!Tags, A!RowType, A!MetricType, A!NoScore
<1>3. A!WrongListAgrees'
    BY <1>1 DEF AssessInv, A!WrongListAgrees, A!Referenced, A!Pairs
<1>4. RowsOfPresent' /\ A!PublishedIsComplete' /\ A!MasteryAgrees'
    BY <1>1, RowsKept, MetricsKept DEF AssessInv
<1> QED
    BY <1>1, <1>2, <1>3, <1>4 DEF AssessInv

LEMMA SubmitStep ==
    ASSUME AssessInv, NEW p \in A!Pairs, A!SubmitRedoAttempt(p) PROVE AssessInv'
<1> DEFINE row == [of |-> p, score |-> A!NoScore, max |-> response[p].max, status |-> "submitted"]
           n == Len(attempts) + 1
<1>1. /\ wrong[p] # "none" /\ attempts' = Append(attempts, row)
      /\ wrong' = [wrong EXCEPT ![p] = "submitted"]
      /\ UNCHANGED <<bank, roster, paper, present, snapshot, response, tagged, marked, metrics, used>>
    BY DEF A!SubmitRedoAttempt
<1>2. A!TypeOK /\ attempts \in Seq(AttemptRow) /\ response[p] \in A!RowType
      /\ wrong \in [A!Pairs -> {"none", "pending", "submitted", "reviewed", "done"}]
    BY DEF AssessInv, A!TypeOK, AttemptRow
<1>3. row \in AttemptRow
    <2>1. response[p].max \in 1..Points
        BY <1>2 DEF A!RowType
    <2>2. A!NoScore \in 0..A!NoScore
        BY AssessConstants DEF A!NoScore
    <2> QED
        BY <2>1, <2>2 DEF AttemptRow
<1>4. row.of = p /\ row.status = "submitted"
    OBVIOUS
<1> HIDE DEF row
<1>5. /\ attempts' \in Seq(AttemptRow) /\ DOMAIN attempts' = DOMAIN attempts \cup {n}
      /\ attempts'[n] = row /\ n \notin DOMAIN attempts
      /\ \A i \in DOMAIN attempts : attempts'[i] = attempts[i]
    <2>1. Len(attempts) \in Nat /\ DOMAIN attempts = 1..Len(attempts)
        BY <1>2
    <2>2. attempts' \in Seq(AttemptRow) /\ Len(attempts') = n
        BY <1>1, <1>2, <1>3
    <2>3. DOMAIN attempts' = 1..n
        BY <2>2
    <2>4. attempts'[n] = row
        BY <1>1, <1>2
    <2>5. \A i \in 1..Len(attempts) : attempts'[i] = attempts[i]
        BY <1>1, <1>2
    <2> QED
        BY <2>1, <2>2, <2>3, <2>4, <2>5
<1> HIDE DEF n
<1>6. A!TypeOK'
    <2>1. wrong' \in [A!Pairs -> {"none", "pending", "submitted", "reviewed", "done"}]
        BY <1>1, <1>2
    <2> QED
        BY <1>1, <1>2, <1>5, <2>1
        DEF A!TypeOK, AttemptRow, A!Pairs, A!Tags, A!RowType, A!MetricType, A!NoScore
<1>7. A!WrongListAgrees'
    <2>1. wrong'[p] = "submitted" /\ \A o \in A!Pairs \ {p} : wrong'[o] = wrong[o]
        BY <1>1, <1>2
    <2>2. \A o \in A!Pairs : A!Referenced(o)' => A!Referenced(o) \/ o = p
        BY <1>1, <1>4, <1>5 DEF A!Referenced
    <2> QED
        BY <1>1, <2>1, <2>2 DEF AssessInv, A!WrongListAgrees, A!Pairs
<1>8. RowsOfPresent' /\ A!PublishedIsComplete'
    BY <1>1, RowsKept
<1>9. A!MasteryAgrees'
    <2>1. ASSUME NEW st \in Takers, NEW t \in A!Tags
          PROVE  /\ Tried(st, paper, attempts', t) = Tried(st, paper, attempts, t)
                 /\ \A i \in Tried(st, paper, attempts', t) : attempts'[i] = attempts[i]
        <3>1. n \notin Tried(st, paper, attempts', t)
            BY <1>4, <1>5 DEF Tried
        <3> QED
            BY <1>5, <3>1 DEF Tried
    <2>2. \A st \in Takers, t \in A!Tags :
            A!MetricsOf(st, paper, response, attempts')[t] = A!MetricsOf(st, paper, response, attempts)[t]
        BY <2>1, MetricsDepend
    <2> QED
        BY <1>1, <2>2, MetricsKept DEF AssessInv
<1> QED
    BY <1>1, <1>6, <1>7, <1>8, <1>9 DEF AssessInv

LEMMA RedoStep ==
    ASSUME AssessInv, NEW i \in DOMAIN attempts, NEW score \in 0..Points, A!ReviewRedoAttempt(i, score)
    PROVE  AssessInv'
<1> DEFINE p == attempts[i].of
           max == response[p].max
           outcome == IF score >= max THEN "done" ELSE "reviewed"
           row == [attempts[i] EXCEPT !.score = score, !.max = max, !.status = outcome]
<1>1. /\ attempts' = [attempts EXCEPT ![i] = row]
      /\ \E s \in {"done", "reviewed"} : wrong' = [wrong EXCEPT ![p] = s]
      /\ A!RecalculateStudent(p[1], paper, response, attempts')
      /\ UNCHANGED <<bank, roster, paper, present, snapshot, response, tagged, marked, used>>
    BY DEF A!ReviewRedoAttempt
<1>2. A!TypeOK /\ attempts \in Seq(AttemptRow)
      /\ wrong \in [A!Pairs -> {"none", "pending", "submitted", "reviewed", "done"}]
    BY DEF AssessInv, A!TypeOK, AttemptRow
<1>3. attempts[i] \in AttemptRow /\ p \in A!Pairs /\ p[1] \in Takers
    <2>1. attempts[i] \in AttemptRow
        BY <1>2
    <2>2. p \in A!Pairs
        BY <2>1 DEF AttemptRow
    <2> QED
        BY <2>1, <2>2 DEF A!Pairs
<1>4. max \in 1..Points
    BY <1>2, <1>3 DEF A!TypeOK, A!RowType
<1>5. row \in AttemptRow /\ row.of = p
    <2>1. score \in 0..A!NoScore /\ outcome \in {"submitted", "reviewed", "done"}
        BY AssessConstants DEF A!NoScore
    <2> HIDE DEF outcome, max
    <2> QED
        BY <1>3, <1>4, <2>1 DEF AttemptRow
<1> HIDE DEF row
<1>6. /\ attempts' \in Seq(AttemptRow) /\ DOMAIN attempts' = DOMAIN attempts
      /\ attempts'[i] = row /\ \A j \in DOMAIN attempts \ {i} : attempts'[j] = attempts[j]
    <2>1. attempts \in [1..Len(attempts) -> AttemptRow] /\ DOMAIN attempts = 1..Len(attempts)
          /\ Len(attempts) \in Nat
        BY <1>2
    <2>2. attempts' \in [1..Len(attempts) -> AttemptRow]
        BY <1>1, <1>5, <2>1
    <2>3. attempts' \in Seq(AttemptRow)
        BY <2>1, <2>2
    <2> QED
        BY <1>1, <2>1, <2>2, <2>3
<1>7. PICK s \in {"done", "reviewed"} : wrong' = [wrong EXCEPT ![p] = s]
    BY <1>1
<1>8. wrong[p] # "none"
    <2>1. A!Referenced(p)
        BY DEF A!Referenced
    <2> QED
        BY <1>3, <2>1 DEF AssessInv, A!WrongListAgrees
<1>9. A!WrongListAgrees'
    <2>1. wrong'[p] # "none" /\ \A o \in A!Pairs \ {p} : wrong'[o] = wrong[o]
        BY <1>2, <1>3, <1>7
    <2>2. \A j \in DOMAIN attempts : attempts'[j].of = attempts[j].of
        BY <1>5, <1>6
    <2>3. \A o \in A!Pairs : A!Referenced(o)' => A!Referenced(o)
        BY <1>1, <1>6, <2>2 DEF A!Referenced
    <2>4. \A o \in A!Pairs : wrong'[o] # "none" <=> wrong[o] # "none"
        BY <1>8, <2>1
    <2> QED
        BY <1>1, <2>3, <2>4 DEF AssessInv, A!WrongListAgrees, A!Pairs
<1>10. RowsOfPresent' /\ A!PublishedIsComplete'
    BY <1>1, RowsKept
<1>11. A!MasteryAgrees' /\ metrics' \in [Takers \X A!Tags -> A!MetricType]
    <2>1. ASSUME NEW st \in Takers \ {p[1]}, NEW t \in A!Tags
          PROVE  /\ Tried(st, paper, attempts', t) = Tried(st, paper, attempts, t)
                 /\ \A j \in Tried(st, paper, attempts', t) : attempts'[j] = attempts[j]
        <3>1. i \notin Tried(st, paper, attempts', t) /\ i \notin Tried(st, paper, attempts, t)
            BY <1>5, <1>6 DEF Tried
        <3> QED
            BY <1>6, <3>1 DEF Tried
    <2>2. ASSUME NEW st \in Takers \ {p[1]}, NEW t \in A!Tags
          PROVE  A!MetricsOf(st, paper, response, attempts')[t] = A!MetricsOf(st, paper, response, attempts)[t]
        <3>1. /\ Tried(st, paper, attempts', t) = Tried(st, paper, attempts, t)
              /\ \A j \in Tried(st, paper, attempts', t) : attempts'[j] = attempts[j]
            BY <2>1
        <3> QED
            BY <3>1, MetricsDepend
    <2>3. A!RecalculateStudent(p[1], paper', response', attempts')
        BY <1>1
    <2>4. \A st \in Takers \ {p[1]}, t \in A!Tags :
            A!MetricsOf(st, paper', response', attempts')[t] = A!MetricsOf(st, paper, response, attempts)[t]
        BY <1>1, <2>2
    <2> QED
        BY <1>2, <1>3, <1>6, <2>3, <2>4, MetricsRecalculated DEF AssessInv
<1>12. A!TypeOK'
    <2>1. wrong' \in [A!Pairs -> {"none", "pending", "submitted", "reviewed", "done"}]
        BY <1>2, <1>7
    <2> QED
        BY <1>1, <1>2, <1>6, <1>11, <2>1
        DEF A!TypeOK, AttemptRow, A!Pairs, A!Tags, A!RowType, A!MetricType, A!NoScore
<1> QED
    BY <1>1, <1>9, <1>10, <1>11, <1>12 DEF AssessInv

-----------------------------------------------------------------------------
LEMMA InitAssess == A!Init => AssessInv
<1> SUFFICES ASSUME A!Init PROVE AssessInv
    OBVIOUS
<1>1. A!NoRow \in A!RowType /\ A!NoMetric \in A!MetricType
    BY NoRowIsRow DEF A!NoMetric, A!MetricType
<1>2. A!NoSnapshot \in [key : Keys \cup {{}}, version : 0..(1 + MaxEdits)]
    BY AssessConstants DEF A!NoSnapshot
<1>3. bank \in [Questions -> [key : Keys, version : 1..(1 + MaxEdits)]]
      /\ \A q \in Questions : bank[q].version = 1
    <2>1. {[key |-> k, version |-> 1] : k \in Keys} \subseteq [key : Keys, version : 1..(1 + MaxEdits)]
        BY AssessConstants
    <2> QED
        BY <2>1 DEF A!Init
<1>4. used \in [imports : 0..MaxImports, revisions : 0..MaxRevisions, edits : 0..MaxEdits]
      /\ used.edits = 0
    BY AssessConstants DEF A!Init
<1>5. A!TypeOK
    BY <1>1, <1>2, <1>3, <1>4 DEF A!Init, A!TypeOK
<1>6. RowsOfPresent /\ A!PublishedIsComplete
    BY DEF A!Init, RowsOfPresent, A!PublishedIsComplete
<1>7. A!WrongListAgrees
    BY DEF A!Init, A!WrongListAgrees, A!Referenced, A!NoRow
<1>8. A!MasteryAgrees
    BY UnpublishedHasNoMetrics DEF A!Init, A!MasteryAgrees
<1> QED
    BY <1>3, <1>4, <1>5, <1>6, <1>7, <1>8 DEF AssessInv

LEMMA AssessStep == AssessInv /\ [A!Next]_(A!vars) => AssessInv'
<1> SUFFICES ASSUME AssessInv, [A!Next]_(A!vars) PROVE AssessInv'
    OBVIOUS
<1>1. CASE UNCHANGED A!vars
    <2>1. A!TypeOK'
        BY <1>1 DEF AssessInv, A!TypeOK, A!vars, A!Pairs, A!Tags, A!RowType, A!MetricType, A!NoScore
    <2>2. RowsOfPresent' /\ A!PublishedIsComplete' /\ A!WrongListAgrees' /\ A!MasteryAgrees'
        BY <1>1, RowsKept, WrongKept, MetricsKept DEF AssessInv, A!vars
    <2> QED
        BY <1>1, <2>1, <2>2 DEF AssessInv, A!vars
<1>2. CASE A!Next
    BY <1>2, UpdateStep, CreateStep, ImportStep, BundleStep, ResolveStep, BlockedStep, GradeStep,
       ReviseStep, NoteStep, SubmitStep, RedoStep DEF A!Next, A!Resolve, A!Revise, A!Review
<1> QED
    BY <1>1, <1>2

-----------------------------------------------------------------------------
(***************************************************************************)
(* Everything together.                                                    *)
(***************************************************************************)
MarkingInv == part \in AllParts /\ AssessInv /\ CardsInv /\ ScanInv /\ PagesKept /\ SuggestInv

LEMMA InitMarking == MarkingInit => MarkingInv
<1>1. ScanInit => PagesKept
    BY ScanAssumption DEF ScanInit, PagesKept
<1> QED
    BY <1>1, InitAssess, InitCards, InitRemembered, InitInv, InitSuggest
    DEF MarkingInit, MarkingInv, CardsInv

LEMMA MarkingStep ==
    MarkingInv /\ [MarkingNext]_<<part, assessmentVars, cardsVars, scanVars, candidateVars>> => MarkingInv'
<1> SUFFICES ASSUME MarkingInv,
                    [MarkingNext]_<<part, assessmentVars, cardsVars, scanVars, candidateVars>>
             PROVE  MarkingInv'
    OBVIOUS
<1>1. part' = part
    BY DEF MarkingNext, Assessing, Deciding, Scanning, Suggesting
<1>2. [A!Next]_(A!vars)
    BY DEF MarkingNext, Assessing, Deciding, Scanning, Suggesting, assessmentVars, A!vars
<1>3. CardsInv'
    BY InMarking DEF MarkingInv
<1>4. [ScanNext]_scanVars
    BY DEF MarkingNext, Assessing, Deciding, Scanning, Suggesting
<1>5. [T!CandidateNext]_candidateVars
    BY DEF MarkingNext, Assessing, Deciding, Scanning, Suggesting
<1> QED
    BY <1>1, <1>2, <1>3, <1>4, <1>5, AssessStep, ScanStep, PagesStep, SuggestStep DEF MarkingInv

LEMMA MarkingStays == MarkingSpec => []MarkingInv
BY InitMarking, MarkingStep, PTL DEF MarkingSpec

\* The tables of the exam, the cards, the scans and the suggestions hold what their
\* columns allow, and a run of a handler is where its code can be.
THEOREM TablesStayTyped == MarkingSpec => []MarkingTypeOK
<1>1. MarkingInv => MarkingTypeOK
    <2> SUFFICES ASSUME MarkingInv PROVE MarkingTypeOK
        OBVIOUS
    <2>1. A!TypeOK /\ C!RWTypeOK /\ C!CardTypeOK
        BY CardsTyped DEF MarkingInv, CardsInv, AssessInv
    <2>2. ScanTypeOK /\ T!CandidateTypeOK
        BY ScansTyped, SuggestTyped DEF MarkingInv
    <2> QED
        BY <2>1, <2>2 DEF MarkingInv, MarkingTypeOK
<1> QED
    BY <1>1, MarkingStays, PTL

\* After every handler the mastery rows are what the published scores and reviewed
\* attempts give, the list of wrong questions names the answers graded wrong, what is
\* published is complete, and a suggestion is what its key says, within the budget.
THEOREM ResultsStayAgreed == MarkingSpec => []ResultsAgree
<1>1. MarkingInv => ResultsAgree
    BY CardsTyped, SuggestTyped DEF MarkingInv, CardsInv, AssessInv, ResultsAgree
<1> QED
    BY <1>1, MarkingStays, PTL

\* A page costs a transcription and a grading at most, and the daily limit is passed
\* by fewer calls than there are workers, for any number of jobs, pages and workers.
THEOREM CallsStayBounded == MarkingSpec => []CallsAreBounded
<1>1. MarkingInv => CallsAreBounded
    BY InvBoundsCalls DEF MarkingInv
<1> QED
    BY <1>1, MarkingStays, PTL

\* A decision replaces only what its author's page, import or card preview showed of
\* the row, where it is or under the student it was taken from since, whoever decided
\* meanwhile; and the first answers of a published exam stay.
THEOREM DecisionsAsSeen == MarkingSpec => DecidedAsSeen
<1>1. MarkingInv /\ [MarkingNext]_<<part, assessmentVars, cardsVars, scanVars, candidateVars>>
         => [\A p \in C!Stored : answers'[p].decision > decisions =>
               LET t == answers'[p].by
               IN  \/ C!SeenOnPage(t, p)
                   \/ C!SeenInBatch(t, p)
                   \/ assign[t].at = "previewed" /\ C!SeenBefore(assign[t].batch.seen, p)]_(C!allVars)
    BY InMarking DEF MarkingInv, ReplacesAsSeen, Replaced, C!SeenOnPage, C!SeenInBatch
<1>2. MarkingInv /\ [MarkingNext]_<<part, assessmentVars, cardsVars, scanVars, candidateVars>>
         => [grading = "published" =>
               \A p \in C!Pairs : answers'[p].initial = answers[p].initial]_(C!rwVars)
    BY InMarking DEF MarkingInv, KeepsFirstAnswers
<1> QED
    BY <1>1, <1>2, MarkingStays, PTL DEF MarkingSpec, DecidedAsSeen, C!DecidedAsSeen, C!FirstAnswersStay
=============================================================================
