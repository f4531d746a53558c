----------------------------- MODULE PracticeLoop -----------------------------
(***************************************************************************)
(* What one student practises again (learning.py, student_learning.py):    *)
(* the parts of one question, wrong in a published exam or in a trial of   *)
(* the question bank, redone at growing intervals until three verified     *)
(* right answers.                                                          *)
(*                                                                         *)
(* Progress is never stored: it is folded from the errors and attempts in  *)
(* the order of their submission, so a review given later changes it.      *)
(***************************************************************************)
EXTENDS Naturals, Sequences, FiniteSets, SequencesExt

CONSTANTS Parts,      \* parts of the question, in the order of the document
          Personal,   \* parts that come from trials; the others from the exam
          Choice,     \* parts the program checks; the student reports the others
          Tabs,       \* pages of the student
          Jumps,      \* bound: days between two visits
          MaxDay,     \* bound: days of a run
          MaxEvents   \* bound: errors, attempts and corrections of the exam

PracticeAssumption ==
    /\ IsFiniteSet(Parts) /\ Personal \subseteq Parts /\ Choice \subseteq Parts
    /\ "none" \notin Tabs
    /\ Jumps \subseteq Nat \ {0} /\ MaxDay \in Nat \ {0} /\ MaxEvents \in Nat

VARIABLES today,     \* the day, in the school's time zone
          log,       \* errors and attempts, by time
          book,      \* parts in the wrong-question book
          mastered,  \* parts the student has marked as mastered
          viewed,    \* parts whose solution was looked at
          assisted,  \* part -> the day its diagnosis is marked as helping on
          told,      \* history: parts a diagnosis gave away something of today
          tab,       \* tab -> the page it shows
          flips      \* corrections so far

plVars == <<today, log, book, mastered, viewed, assisted, told, tab, flips>>

\* A blank answer counts as a wrong one everywhere here.
Outcomes == {"correct", "wrong", "pending"}
Wrong(o) == o = "wrong"

\* Keys are fresh for every page; the next one of a tab is named by its number.
NoKey    == <<"none", 0>>
NextKey(t) == <<t, 1 + Cardinality({log[i].key[2] : i \in {j \in DOMAIN log : log[j].key[1] = t}})>>
NoDay    == 0
Closed   == [key |-> NoKey, members |-> {}]

\* Originals have no key; a purpose of "learn" never counts.
Original(p) == [part |-> p, day |-> today, outcome |-> "wrong", purpose |-> "verify", key |-> NoKey]

Room(n) == flips + Len(log) + n <= MaxEvents

Revoked(p) == p \notin Personal /\ ~\E i \in DOMAIN log : log[i].part = p /\ log[i].key = NoKey

----------------------------------------------------------------------------
(* Progress.                                                               *)

\* Mutated form: the second right answer does not wait longer than the first.
StepInThrees(a, e) ==
    IF e.outcome = "pending" THEN a
    ELSE IF Wrong(e.outcome) THEN [count |-> 0, due |-> e.day + 1]
    ELSE IF a.count < 3 /\ e.day >= a.due THEN [count |-> a.count + 1, due |-> e.day + 3]
    ELSE a

\* One event of a part: a wrong one starts over tomorrow, a right one that is
\* due counts and puts the next one off, 3 days and then 7.
Step(a, e) ==
    IF e.outcome = "pending" THEN a
    ELSE IF Wrong(e.outcome) THEN [count |-> 0, due |-> e.day + 1]
    ELSE IF a.count < 3 /\ e.day >= a.due
    THEN [count |-> a.count + 1, due |-> e.day + (IF a.count = 0 THEN 3 ELSE 7)]
    ELSE a

Evidence(p) == {i \in DOMAIN log : log[i].part = p /\ log[i].purpose = "verify"}

\* What has become of a part after the first events of the log.
Folded(p) ==
    LET after[n \in 0..Len(log)] ==
           IF n = 0 THEN [count |-> 0, due |-> today]
           ELSE IF n \in Evidence(p) THEN Step(after[n - 1], log[n]) ELSE after[n - 1]
    IN  after

Progress(p) == Folded(p)[Len(log)]

\* A personal attempt that is pending and only helps to learn is passed over.
Pending(p) == \E i \in DOMAIN log :
                 /\ log[i].part = p /\ log[i].outcome = "pending"
                 /\ p \in book
                 /\ p \in Personal => log[i].purpose = "verify"

\* The parts of the question a page of the book shows, and those it asks for.
Shown   == {p \in book : p \notin mastered}
ToRedo  == {p \in Shown : Progress(p).count < 3 /\ ~Pending(p)}

----------------------------------------------------------------------------
(* Where wrong questions come from.                                        *)

\* A correction of the published exam makes a part wrong or right: the error
\* counts from now, or no longer.
CorrectExam(p) ==
    /\ p \in Parts \ Personal
    /\ flips' = flips + 1
    /\ IF p \in book
       THEN /\ Room(0)
            /\ book' = book \ {p}
            /\ \E i \in DOMAIN log :
                  log[i].part = p /\ log[i].key = NoKey /\ log' = RemoveAt(log, i)
       ELSE /\ Room(2)
            /\ book' = book \cup {p}
            /\ log' = Append(log, Original(p))
    /\ UNCHANGED <<today, mastered, viewed, assisted, told, tab>>

\* A trial is answered wrong and taken into the book, once for a question.
\* The error is dated by the trial.
AddTrial(p) ==
    /\ p \in Personal \ book
    /\ Room(1)
    /\ book' = book \cup {p}
    /\ log' = Append(log, Original(p))
    /\ UNCHANGED <<today, mastered, viewed, assisted, told, tab, flips>>

----------------------------------------------------------------------------
(* Practising.                                                             *)

\* The page of the question lists what is to be redone and has a key.
OpenPage(t) ==
    /\ ToRedo # {}
    /\ tab[t] = Closed
    /\ tab' = [tab EXCEPT ![t] = [key |-> NextKey(t), members |-> ToRedo]]
    /\ UNCHANGED <<today, log, book, mastered, viewed, assisted, told, flips>>

\* The solutions of all parts to be redone are shown.
ViewSolutions ==
    /\ ToRedo # {}
    /\ viewed' = viewed \cup ToRedo
    /\ UNCHANGED <<today, log, book, mastered, assisted, told, tab, flips>>

\* The diagnosis of a part gives something away: its session is marked with the day.
Helped(p, day) ==
    /\ p \in Shown
    /\ assisted' = [assisted EXCEPT ![p] = day]
    /\ told' = told \cup {p}
    /\ UNCHANGED <<today, log, book, mastered, viewed, tab, flips>>

\* Mutated form: what is served leaves no mark.
Unmarked(p) == Helped(p, assisted[p])

\* A cue or the explanations of the result are served: the first day stays.
Assist(p) == Helped(p, IF assisted[p] = NoDay THEN today ELSE assisted[p])

\* After a check, an exercise, the second check and an end on request are marked
\* with the day they happen on; so is every hint of an older card, and whatever
\* helps first in another session of the question.
Exercise(p) == Helped(p, today)

\* What an attempt of today is evidence of.
Purpose(p) == IF assisted[p] = today THEN "learn" ELSE "verify"

Attempt(p, outcome, key) ==
    [part |-> p, day |-> today, outcome |-> outcome, purpose |-> Purpose(p), key |-> key]

\* What the program or the student may find of an answer.  A choice of the exam
\* whose key is not verified waits for a teacher; a report needs the solution
\* to have been looked at.
Findings(p) == IF p \notin Choice THEN {"correct", "wrong"}
               ELSE IF p \in Personal THEN {"correct", "wrong"} ELSE {"correct", "wrong", "pending"}

\* Mutated form: a key is not looked up before the attempts are stored.
NotRemembered(k) == TRUE

FirstTime(k) == ~\E i \in DOMAIN log : log[i].key = k

\* Every part is checked before one is stored; parts that changed since the page
\* was opened refuse the whole.  A key that is known stores nothing: the page
\* whose answer was lost may send as often as it likes.
SubmitGroup(t) ==
    /\ tab[t] # Closed
    /\ FirstTime(tab[t].key)
    /\ tab[t].members = ToRedo
    /\ Room(Cardinality(ToRedo))
    /\ ToRedo \ Choice \subseteq viewed
    /\ \E result \in [ToRedo -> Outcomes] :
          /\ \A p \in ToRedo : result[p] \in Findings(p)
          /\ log' = log \o [i \in 1..Cardinality(ToRedo) |->
                       LET p == SetToSeq(ToRedo)[i] IN Attempt(p, result[p], tab[t].key)]
    /\ UNCHANGED <<today, book, mastered, viewed, assisted, told, tab, flips>>

Leave(t) ==
    /\ tab[t] # Closed
    /\ tab' = [tab EXCEPT ![t] = Closed]
    /\ UNCHANGED <<today, log, book, mastered, viewed, assisted, told, flips>>

\* A part may have several errors in the book: all are dismissed together.
MarkMastered ==
    /\ Shown # {}
    /\ mastered' = mastered \cup Shown
    /\ UNCHANGED <<today, log, book, viewed, assisted, told, tab, flips>>

\* A teacher decides a pending attempt, or decides again.
ReviewAttempt(i) ==
    /\ log[i].part \notin Personal /\ log[i].key # NoKey
    /\ \E o \in {"correct", "wrong"} :
          /\ o # log[i].outcome
          /\ log' = [log EXCEPT ![i].outcome = o]
    /\ UNCHANGED <<today, book, mastered, viewed, assisted, told, tab, flips>>

\* Bound: a day on which nothing was practised is not left; the jumps are.
NextDay ==
    \E n \in Jumps :
       /\ \E i \in DOMAIN log : log[i].day = today
       /\ today + n <= MaxDay
       /\ today' = today + n
       /\ told' = {}
       /\ UNCHANGED <<log, book, mastered, viewed, assisted, tab, flips>>

----------------------------------------------------------------------------
PracticeInit ==
    /\ today = 1
    /\ book = Parts \ Personal
    /\ log = [i \in 1..Cardinality(Parts \ Personal) |-> Original(SetToSeq(Parts \ Personal)[i])]
    /\ mastered = {}
    /\ viewed = {}
    /\ assisted = [p \in Parts |-> NoDay]
    /\ told = {}
    /\ tab = [t \in Tabs |-> Closed]
    /\ flips = 0

Corrections == \E p \in Parts : CorrectExam(p)
Trials      == \E p \in Parts : AddTrial(p)
PageOpens   == \E t \in Tabs : OpenPage(t)
Assists     == \E p \in Parts : Assist(p)
Exercises   == \E p \in Parts : Exercise(p)
Submits     == \E t \in Tabs : SubmitGroup(t)
Leaves      == \E t \in Tabs : Leave(t)
AttemptReviews == \E i \in DOMAIN log : ReviewAttempt(i)

PracticeNext == \/ Corrections \/ Trials \/ PageOpens \/ ViewSolutions \/ Assists
                \/ Exercises \/ Submits  \/ Leaves \/ MarkMastered \/ AttemptReviews \/ NextDay

PracticeSpec == PracticeInit /\ [][PracticeNext]_plVars

----------------------------------------------------------------------------
\* Every event names a part, a day and an outcome.
PracticeTypeOK ==
    /\ today \in 1..MaxDay
    /\ \A i \in DOMAIN log :
          log[i] \in [part : Parts, day : 1..today, outcome : Outcomes,
                      purpose : {"learn", "verify"},
                      key : (Tabs \cup {"none"}) \X (0..MaxEvents)]
    /\ {book, mastered, viewed, told} \subseteq SUBSET Parts
    /\ assisted \in [Parts -> 0..today]

\* The rule of the practice, said without a count: after the last error or
\* wrong attempt come three right ones on days not marked as helping, the first at
\* least a day later, the second three days after it and the third seven.
Spaced(p) ==
    LET right(i) == log[i].part = p /\ log[i].outcome = "correct" /\ log[i].purpose = "verify"
        wrongAt(i) == log[i].part = p /\ Wrong(log[i].outcome) /\ log[i].purpose = "verify"
        after(i) == \A e \in DOMAIN log : wrongAt(e) => e < i /\ log[e].day < log[i].day
    IN  \E i, j, k \in DOMAIN log :
          /\ i < j /\ j < k
          /\ right(i) /\ right(j) /\ right(k)
          /\ after(i)
          /\ log[j].day >= log[i].day + 3 /\ log[k].day >= log[j].day + 7

\* A part is consolidated exactly when it was answered right three times, spaced
\* and on days its diagnosis is not marked with, since it was last wrong, however
\* late a teacher decided an attempt and whatever a correction of the exam did
\* (progress, personal_progress).
ConsolidatedMeansSpaced ==
    \A p \in book : ~Revoked(p) => (Progress(p).count = 3 <=> Spaced(p))

\* A cue served today makes the redo of today a lesson.  TLC refutes this: a session
\* helped on an earlier day keeps that day (coalesce), and the redo counts.
HelpedRedoesAreLearning ==
    [][\A i \in DOMAIN log' : i > Len(log) /\ log'[i].key # NoKey /\ log'[i].part \in told
           => log'[i].purpose = "learn"]_plVars

\* What holds of it: a redo counts on a day on which the part was given away only if
\* its diagnosis had helped on an earlier day already (diagnosis.assisted_today).
FirstHelpCounts ==
    [][\A i \in DOMAIN log' :
           i > Len(log) /\ log'[i].key # NoKey /\ log'[i].purpose = "verify"
             /\ log'[i].part \in told => assisted[log'[i].part] \in 1..(today - 1)]_plVars

\* A submission is stored once and whole, however often the page sends it: the
\* attempts of a key are one for every part of its page (group-submit).
StoredWhole ==
    \A i, j \in DOMAIN log :
       i # j /\ log[i].key = log[j].key /\ log[i].key # NoKey =>
          log[i].part # log[j].part /\ log[i].day = log[j].day
=============================================================================
