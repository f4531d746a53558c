------------------------------ MODULE Diagnosis ------------------------------
(***************************************************************************)
(* The adaptive diagnosis of one wrong answer (diagnosis_adaptive.py): a   *)
(* student is led from check to check, may be helped on the way, practises *)
(* and is checked again a day later.  What comes next is computed from the *)
(* stored events, never stored itself; several pages may be open.          *)
(***************************************************************************)
EXTENDS Naturals, Sequences, FiniteSets

CONSTANTS Acts,        \* the frozen card: a sequence of [kind, pre]
          Reports,     \* what the student may say about the first attempt
          Pages,       \* open pages of the student
          MaxClock,    \* bound: half days
          MaxEvents    \* bound: events of the session

Kinds == {"knowledge", "condition", "model", "plan", "formula", "calculation", "check"}

\* What a card that passed validate() looks like.
DiagnosisAssumption ==
    /\ Acts \in Seq([kind : Kinds, pre : SUBSET Nat])
    /\ \A i \in DOMAIN Acts : Acts[i].pre \subseteq 1..(i - 1)
    /\ Len(Acts) >= 1 /\ IsFiniteSet(Pages)
    /\ MaxClock \in Nat \ {0} /\ MaxEvents \in Nat
    /\ Reports \subseteq {"knowledge_gap", "knowledge_retrieval", "condition", "model",
                          "plan", "execution", "time", "unsure"}

VARIABLES session,   \* the row of the session
          events,    \* its events, in the order of their numbers
          clock,     \* half days
          page       \* page -> what it shows and the key it will send

dgVars == <<session, events, clock, page>>

\* Nodes of a diagnosis.
Act(i)     == <<"a", i>>
Foundation == <<"foundation", 0>>
Cue        == <<"cue", 0>>
Recall     == <<"recall", 0>>
Nothing    == <<"none", 0>>

NoTime == 0
Shut   == [cursor |-> 0, node |-> Nothing, key |-> 0]

----------------------------------------------------------------------------
(* What the events say.                                                    *)

Least(S)    == CHOOSE i \in S : \A j \in S : i <= j
Greatest(S) == CHOOSE i \in S : \A j \in S : j <= i

Of(action, evs) == {i \in DOMAIN evs : evs[i].action = action}
Probes(evs)   == Of("probe", evs)
Asked(evs, n) == \E i \in DOMAIN evs : evs[i].action = "probe" /\ evs[i].node = n
Passed(evs, n) == \E i \in DOMAIN evs :
                     evs[i].action = "probe" /\ evs[i].node = n /\ evs[i].passed = "yes"
Recalls(evs)  == Of("locate", evs)

\* The first action that was not passed; 0 if there is none.
Blocked(evs) ==
    LET failed == {i \in Probes(evs) : evs[i].node[1] = "a" /\ evs[i].passed # "yes"}
    IN  IF failed = {} THEN 0 ELSE evs[Least(failed)].node[2]

ReportKind(r) == CASE r = "knowledge_gap" -> "knowledge" [] r = "knowledge_retrieval" -> "model"
                   [] r = "model" -> "model" [] r = "plan" -> "plan"
                   [] r = "execution" -> "formula" [] OTHER -> "condition"

\* The actions a session checks in turn: two from the reported kind on, or all.
Targets(s) ==
    LET fitting == {i \in DOMAIN Acts : Acts[i].kind = ReportKind(s.report)}
        first   == IF fitting = {} THEN 1 ELSE Least(fitting)
    IN  IF s.mode = "quick" THEN {first, first + 1} \cap DOMAIN Acts ELSE DOMAIN Acts

\* The next node of a session whose first difficulty is action b: what the
\* student remembers of it; in depth, the actions it needs up to one that fails,
\* the basic knowledge behind it, and a new application after a cue.
AfterBlock(s, evs, b) ==
    LET open == {i \in Acts[b].pre : ~Passed(evs, Act(i))}
    IN  CASE Recalls(evs) = {} -> Recall
          [] Recalls(evs) # {} /\ s.mode = "quick" -> Nothing
          [] Recalls(evs) # {} /\ s.mode = "deep" /\ open # {} ->
                IF Asked(evs, Act(Least(open))) THEN Nothing ELSE Act(Least(open))
          [] OTHER ->
                IF ~Asked(evs, Foundation) THEN Foundation
                ELSE IF Passed(evs, Foundation) /\ ~Asked(evs, Cue) THEN Cue ELSE Nothing

Route(s, evs) ==
    LET left == {i \in Targets(s) : ~Asked(evs, Act(i))}
    IN  IF s.report = "time" THEN IF Recalls(evs) = {} THEN Recall ELSE Nothing
        ELSE IF Blocked(evs) # 0 THEN AfterBlock(s, evs, Blocked(evs))
        ELSE IF left # {} THEN Act(Least(left))
        ELSE IF s.report # "unsure" /\ Recalls(evs) = {} THEN Recall
        ELSE Nothing

\* The answers a recall offers, as far as the conclusion tells them apart.
Reasons(kind) ==
    CASE kind = "knowledge" -> {"forgot", "never_understood", "not_recalled", "other"}
      [] kind \in {"model", "plan", "formula"} -> {"forgot", "not_recalled", "other"}
      [] OTHER -> {"other"}

OfferedReasons(s, evs) ==
    IF s.report = "time" THEN {"other"}
    ELSE Reasons(IF Blocked(evs) = 0 THEN ReportKind(s.report) ELSE Acts[Blocked(evs)].kind)

----------------------------------------------------------------------------
(* The conclusion.                                                         *)

KindCategory(k) ==
    CASE k = "knowledge" -> "knowledge_unclear" [] k = "condition" -> "condition_decoding"
      [] k = "model" -> "model_identification"  [] k = "plan" -> "knowledge_organization"
      [] k = "formula" -> "formula_application" [] k = "calculation" -> "calculation"
      [] k = "check" -> "result_check"

First(evs, n) == evs[Least({i \in Probes(evs) : evs[i].node = n})]

\* What the first difficulty b is put down to.  It is an early action if one that
\* b needs failed, and open while the basic knowledge was not checked; knowledge
\* counts as not called on only if a cue helped and no other help was given.
BlockCategory(evs, b) ==
    LET kind   == Acts[b].kind
        reason == IF Recalls(evs) = {} THEN "none" ELSE evs[Greatest(Recalls(evs))].reason
        failed == \E i \in Acts[b].pre : Asked(evs, Act(i)) /\ ~Passed(evs, Act(i))
        cued   == Passed(evs, Cue) /\ ~First(evs, Foundation).assisted
                    /\ ~First(evs, Act(b)).assisted
    IN  CASE failed \/ ~Asked(evs, Foundation) -> "insufficient"
          [] ~failed /\ Asked(evs, Foundation) /\ First(evs, Foundation).passed = "no" ->
                CASE reason = "forgot" -> "knowledge_forgotten"
                  [] reason = "never_understood" -> "knowledge_unclear"
                  [] OTHER -> "knowledge_gap"
          [] ~failed /\ Passed(evs, Foundation) /\ \A i \in Acts[b].pre : Passed(evs, Act(i)) ->
                IF kind = "knowledge" THEN "insufficient"
                ELSE IF cued /\ kind \in {"model", "formula"} /\ reason = "not_recalled"
                THEN "knowledge_retrieval" ELSE KindCategory(kind)
          [] OTHER -> "insufficient"

\* The student's last word on the conclusion.
Disagrees(evs) == LET last == Greatest(Of("finish", evs))
                  IN  Of("finish", evs) # {} /\ evs[last].reason = "different"

\* Mutated form: a check made after an explanation counts like any other.
HelpIgnored(s, evs) ==
    IF Disagrees(evs) THEN "insufficient"
    ELSE IF s.report = "time" THEN "answer_context"
    ELSE IF Blocked(evs) = 0 THEN "insufficient"
    ELSE BlockCategory(evs, Blocked(evs))

\* A student who disagrees, or help before the basic check, leaves it open.
Summarize(s, evs) ==
    LET helped == Asked(evs, Foundation) /\ First(evs, Foundation).assisted
    IN  IF Disagrees(evs) THEN "insufficient"
        ELSE IF s.report = "time" THEN "answer_context"
        ELSE IF Blocked(evs) = 0 \/ helped THEN "insufficient"
        ELSE BlockCategory(evs, Blocked(evs))

----------------------------------------------------------------------------
(* One event.                                                              *)

\* Explanations are shown with the result, a cue with its question.
Helps(s, evs) == \/ s.status = "active" /\ Route(s, evs) = Cue
                 \/ s.status # "active" /\ Probes(evs) # {}
                 \/ Of("practice", evs) # {}

\* Mutated form: only exercises and an end on request are marked.
MarkedAtTheEnd(s, evs, action) ==
    IF action \in {"practice", "verify", "finish"} /\ Probes(evs) # {} THEN clock
    ELSE s.assisted

\* When the student was helped: the first time, or now if this event ends or
\* practises.
Assisted(s, evs, action) ==
    LET next == Route(s, evs)
        told == \/ next = Cue
                \/ Probes(evs) # {} /\ (next = Nothing \/ s.status # "active")
                \/ action = "practice"
    IN  IF action \in {"practice", "verify", "finish"} /\ Probes(evs) # {} THEN clock
        ELSE IF told /\ s.assisted = NoTime THEN clock
        ELSE s.assisted

\* Mutated form: the event is not held against the page it was sent from.
UpToDateOrLate(p) == session.status # "none" /\ page[p].key # 0

\* A key that was used stores nothing again; a page that shows an earlier state
\* is refused.
UpToDate(p) ==
    /\ session.status # "none"
    /\ page[p].key # 0
    /\ page[p].cursor = session.cursor

Unused(p) == \A i \in DOMAIN events : events[i].key # page[p].key

\* The event e of page p on the session s, which its handler may have changed:
\* it is stored, a session without a next node is completed, help is marked and
\* the conclusion is kept with the event.
Store(p, s, e) ==
    LET evs  == Append(events, e)
        done == s.status = "active" /\ Route(s, evs) = Nothing
        new  == [s EXCEPT !.cursor = @ + 1,
                          !.status = IF done THEN "completed" ELSE @,
                          !.assisted = Assisted(s, evs, e.action)]
        kept == [e EXCEPT !.helped = Helps(new, evs),
                          !.category = IF new.status = "active" THEN "none"
                                       ELSE Summarize(new, evs)]
    IN  /\ Len(evs) <= MaxEvents
        /\ session' = new
        /\ events' = Append(events, kept)
        /\ UNCHANGED <<clock, page>>

Event(p, action, node, passed, reason, assisted) ==
    [action |-> action, node |-> node, passed |-> passed, reason |-> reason,
     assisted |-> assisted, at |-> clock, key |-> page[p].key, shown |-> page[p].node,
     helped |-> FALSE, category |-> "none"]

Answers == {"yes", "no", "unsure"}

\* The student answers the check that is due.
Probe(p) ==
    /\ UpToDate(p) /\ Unused(p)
    /\ session.protocol = 3 /\ session.status = "active"
    /\ Route(session, events) \notin {Recall, Nothing}
    /\ \E a \in Answers :
          LET n == Route(session, events)
          IN  Store(p, session, Event(p, "probe", n, a, "none", session.assisted # NoTime \/ n = Cue))

\* The student says what it was like the first time.
Locate(p) ==
    /\ UpToDate(p) /\ Unused(p)
    /\ session.protocol = 3 /\ session.status = "active"
    /\ Route(session, events) = Recall
    /\ \E r \in OfferedReasons(session, events) :
          Store(p, session, Event(p, "locate", Recall, "none", r, FALSE))

\* An active session ends early; an ended or completed one gets a confirmation.
Finish(p) ==
    /\ UpToDate(p) /\ Unused(p)
    /\ session.protocol = 3
    /\ \E r \in {"agree", "different"} :
          Store(p, [session EXCEPT !.status = IF @ = "active" THEN "ended" ELSE @],
                Event(p, "finish", Nothing, "none", r, FALSE))

\* Going deeper, or choosing again, opens a session that was over; what was
\* reported stays once anything is stored.  A session of an earlier protocol
\* without any evidence is taken over.
SelectMode(p) ==
    /\ UpToDate(p) /\ Unused(p)
    /\ session.protocol # 3 =>
          /\ session.status = "active" /\ session.cursor = 0
          /\ session.assisted = NoTime /\ events = <<>>
    /\ \E m \in {"quick", "deep"}, r \in Reports :
          /\ events # <<>> => r = session.report
          /\ Store(p, [session EXCEPT !.mode = m, !.report = r, !.status = "active",
                                      !.protocol = 3],
                   Event(p, "select-mode", Nothing, "none", m, FALSE))

\* The student corrects the conclusion; it is kept beside it.
Revise(p) ==
    /\ UpToDate(p) /\ Unused(p)
    /\ session.protocol = 3 /\ session.status # "active"
    /\ Store(p, session, Event(p, "revise", Nothing, "none", "other", FALSE))

\* The application exercise, once; a cue's question counts as one.
Practised(evs) == Of("practice", evs) \cup {i \in Probes(evs) : evs[i].node = Cue}

Practice(p) ==
    /\ UpToDate(p) /\ Unused(p)
    /\ session.protocol = 3 /\ session.status # "active" /\ session.report # "time"
    /\ Practised(events) = {}
    /\ \E a \in {"yes", "no"} : Store(p, session, Event(p, "practice", Nothing, a, "none", TRUE))

\* The independent check, once, a day after the exercise.
Verify(p) ==
    /\ UpToDate(p) /\ Unused(p)
    /\ session.protocol = 3 /\ session.status # "active" /\ session.report # "time"
    /\ Practised(events) # {}
    /\ clock >= events[Least(Practised(events))].at + 2
    /\ Of("verify", events) = {}
    /\ \E a \in {"yes", "no"} : Store(p, session, Event(p, "verify", Nothing, a, "none", FALSE))

----------------------------------------------------------------------------
\* A first visit, by this release or by one before it.
Start ==
    /\ session.status = "none"
    /\ \E m \in {"quick", "deep"}, r \in Reports, v \in {2, 3} :
          session' = [protocol |-> v, mode |-> m, report |-> r, cursor |-> 0,
                      status |-> "active", assisted |-> NoTime]
    /\ UNCHANGED <<events, clock, page>>

\* A page is opened or refreshed: it shows the next node and draws a key.
OpenPage(p) ==
    /\ session.status # "none"
    /\ page[p].key = 0 \/ page[p].cursor # session.cursor
    /\ page' = [page EXCEPT ![p] =
          [cursor |-> session.cursor,
           node   |-> IF session.status = "active" THEN Route(session, events) ELSE Nothing,
           key    |-> 1 + Cardinality({q \in Pages : page[q].key # 0})
                        + Len(events) * (Cardinality(Pages) + 1)]]
    /\ UNCHANGED <<session, events, clock>>

\* Bound: half a day passes only while an exercise waits for its check in a session
\* that is over.
Tick ==
    /\ Practised(events) # {} /\ Of("verify", events) = {} /\ session.status # "active"
    /\ clock < MaxClock
    /\ clock' = clock + 1
    /\ UNCHANGED <<session, events, page>>

DiagInit ==
    /\ session = [protocol |-> 0, mode |-> "none", report |-> "none", cursor |-> 0,
                  status |-> "none", assisted |-> NoTime]
    /\ events = <<>>
    /\ clock = 1
    /\ page = [p \in Pages |-> Shut]

Opens      == \E p \in Pages : OpenPage(p)
ProbesSent == \E p \in Pages : Probe(p)
Locates    == \E p \in Pages : Locate(p)
Finishes   == \E p \in Pages : Finish(p)
Selects    == \E p \in Pages : SelectMode(p)
Revises    == \E p \in Pages : Revise(p)
Practices  == \E p \in Pages : Practice(p)
Verifies   == \E p \in Pages : Verify(p)

DiagNext == \/ Start \/ Opens \/ ProbesSent \/ Locates \/ Finishes \/ Selects
            \/ Revises \/ Practices \/ Verifies \/ Tick

DiagSpec == DiagInit /\ [][DiagNext]_dgVars

----------------------------------------------------------------------------
Statuses == {"none", "active", "completed", "ended"}

\* The session, its events and its pages are what the tables can hold.
DiagTypeOK ==
    /\ session.status \in Statuses /\ session.protocol \in {0, 2, 3}
    /\ session.cursor = Len(events) /\ session.assisted \in 0..MaxClock
    /\ Len(events) <= MaxEvents /\ clock \in 1..MaxClock
    /\ session.status = "active" /\ session.protocol = 3 => Route(session, events) # Nothing
    /\ \A p \in Pages : page[p].cursor <= session.cursor

\* Every check and every recollection is stored for the question its page showed,
\* and no check twice, however many pages were open (diagnosis_adaptive.api:
\* the cursor and the request key).
AnsweredAsShown ==
    \A i \in DOMAIN events :
       events[i].action \in {"probe", "locate"} =>
          /\ events[i].node = events[i].shown
          /\ \A j \in DOMAIN events :
                events[j].node = events[i].node /\ events[j].action = "probe"
                  /\ events[i].action = "probe" => i = j

\* Once a cue, an explanation or an exercise was shown, no later check counts as
\* done without help, also when the session is opened again (assisted_at).
HelpIsRemembered ==
    \A i, j \in DOMAIN events :
       i < j /\ events[i].helped /\ events[j].action = "probe" => events[j].assisted

\* A cause is named only on checks the student made without help (summarize).
ConclusionIsIndependent ==
    \A i \in DOMAIN events :
       events[i].category \notin {"none", "insufficient", "answer_context"} =>
          \A j \in 1..i : events[j].action = "probe" /\ events[j].node # Cue =>
                             ~events[j].assisted
=============================================================================
