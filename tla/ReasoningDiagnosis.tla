-------------------------- MODULE ReasoningDiagnosis --------------------------
(***************************************************************************)
(* The diagnosis sessions of the two earlier protocols, which students     *)
(* still finish: protocol 1 (diagnosis.api) walks through the steps of a   *)
(* frozen card and offers hints; protocol 2 (diagnosis_reasoning.api) asks *)
(* once, after the first check, what the first attempt was like, and lets  *)
(* a step be tried again after a hint.  The cursor of a session counts     *)
(* steps, so several events may be sent from one cursor; several pages may *)
(* be open.  A repeated request key is answered from its event and stores  *)
(* nothing, so a page that has sent is taken to send no more.              *)
(***************************************************************************)
EXTENDS Naturals, Sequences, FiniteSets, SequencesExt

CONSTANTS Stages,      \* the frozen card: the stage of each of its steps
          Hints,       \* how many hints a step has
          Reports,     \* what the student may say about the first attempt
          Pages,       \* open pages of the student
          MaxEvents    \* bound: events of the session

ReasoningAssumption ==
    /\ Stages \in Seq({"condition", "model", "plan", "execution"}) /\ Len(Stages) >= 1
    /\ MaxEvents \in Nat

VARIABLES session,     \* the row of the session
          events,      \* its events in their order
          page         \* page -> the cursor and the step it shows

rdVars == <<session, events, page>>

StageOrder == <<"condition", "model", "plan", "execution">>
Rank(stage) == CHOOSE n \in DOMAIN StageOrder : StageOrder[n] = stage
Steps  == DOMAIN Stages
NoStep == 0
Shut   == [cursor |-> 0, step |-> NoStep, ready |-> FALSE]

----------------------------------------------------------------------------
(* What the events say of a step.                                          *)

First(S) == CHOOSE n \in S : \A m \in S : n <= m
Final(S) == CHOOSE n \in S : \A m \in S : m <= n

Of(action, i, evs) == {n \in DOMAIN evs : evs[n].action = action /\ evs[n].step = i}
Some(action, evs)  == \E n \in DOMAIN evs : evs[n].action = action
Answered(i, evs)   == Of("answer", i, evs) # {}
LastTry(i, evs)    == evs[Final(Of("answer", i, evs))]

\* The steps of a set, in the order of their places.
Listed(S, place) ==
    [n \in 1..Cardinality(S) |->
        CHOOSE i \in S : Cardinality({j \in S : place[j] < place[i]}) = n - 1]

\* The steps answered, in the order of their first answers.
Used(evs) == LET seen == {i \in Steps : Answered(i, evs)}
             IN  Listed(seen, [i \in seen |-> First(Of("answer", i, evs))])

\* The step a session is at; its last one when it is through.
Current(s) == s.steps[IF s.cursor < Len(s.steps) THEN s.cursor + 1 ELSE Len(s.steps)]
Open(s)    == s.status = "active" /\ s.cursor < Len(s.steps)

----------------------------------------------------------------------------
(* What protocol 2 offers at a step (state of diagnosis_reasoning.py).      *)

\* A question unanswered on time is asked about first, and nothing else offered.
AskedWhyLate(s, evs) == Open(s) /\ s.report = "time" /\ ~Some("locate", evs)

\* The one question about the first attempt, before any hint or explanation.
NeedsRecall(s, evs) ==
    LET i == Current(s)
    IN  /\ Open(s) /\ ~AskedWhyLate(s, evs) /\ Answered(i, evs)
        /\ ~Some("locate", evs)
        /\ LastTry(i, evs).passed # "yes" \/ s.report # "unsure"

Offers(s, evs) == Open(s) /\ ~AskedWhyLate(s, evs)

HintsSoFar(evs) == Cardinality({n \in DOMAIN evs : evs[n].action = "hint"})
HintsAt(i, evs) == Cardinality(Of("hint", i, evs))

\* Mutated form: a hint may come before the question about the first attempt.
HintAtOnce(s, evs) ==
    LET i == Current(s)
    IN  /\ Offers(s, evs) /\ Answered(i, evs) /\ LastTry(i, evs).passed # "yes"
        /\ HintsSoFar(evs) < 2 /\ HintsAt(i, evs) < Hints

CanHint(s, evs) ==
    LET i == Current(s)
    IN  /\ Offers(s, evs) /\ Answered(i, evs) /\ LastTry(i, evs).passed # "yes"
        /\ ~NeedsRecall(s, evs)
        /\ HintsSoFar(evs) < 2 /\ HintsAt(i, evs) < Hints

\* Mutated form: a step may be tried again as long as it is not passed.
TryAgain(s, evs) ==
    LET i == Current(s)
    IN  Offers(s, evs) /\ (Answered(i, evs) => LastTry(i, evs).passed # "yes")

\* A first answer, or another one after a hint that the last one did not have.
CanAnswer(s, evs) ==
    LET i == Current(s)
    IN  /\ Offers(s, evs)
        /\ Answered(i, evs) => /\ LastTry(i, evs).passed # "yes"
                               /\ LastTry(i, evs).hints < HintsAt(i, evs)

CanNext(s, evs) == Offers(s, evs) /\ Answered(Current(s), evs) /\ ~NeedsRecall(s, evs)

\* The answers a recollection offers, as far as the conclusion tells them apart.
Reasons(s, evs) == IF AskedWhyLate(s, evs) THEN {"late", "unsure"} ELSE {"cause", "unsure"}

----------------------------------------------------------------------------
(* The conclusion of protocol 2 (summarize).                                *)

Checked(s, evs) == {i \in Range(s.steps) : Answered(i, evs)}
Blocked(s, evs) == {i \in Checked(s, evs) : evs[First(Of("answer", i, evs))].passed # "yes"}

\* The earliest stage that was not passed at once.
Earliest(s, evs) ==
    LET blocked == Blocked(s, evs)
    IN  IF blocked = {} THEN "none"
        ELSE Stages[CHOOSE i \in blocked : \A j \in blocked : Rank(Stages[i]) <= Rank(Stages[j])]

LastAt(S, evs) == LET at == {n \in DOMAIN evs : evs[n].action \in S}
                  IN  IF at = {} THEN 0 ELSE Final(at)

\* Which way the conclusion is held: what the student recalls alone, recall and
\* check that agree, recall to be checked again, or not at all.
Strength(s, evs) ==
    LET said == LastAt({"locate", "revise"}, evs)
        ends == LastAt({"finish"}, evs)
        rejected == /\ ends # 0 /\ evs[ends].reason = "different"
                    /\ ~(said # 0 /\ evs[said].action = "revise" /\ said > ends)
        seen == said # 0 /\ evs[said].step \in Checked(s, evs)
    IN  IF rejected THEN "rejected"
        ELSE IF said = 0 \/ evs[said].reason = "unsure" THEN "open"
        ELSE IF seen /\ evs[said].step \in Blocked(s, evs) /\ evs[said].action = "locate"
        THEN "supported"
        ELSE "recalled"

----------------------------------------------------------------------------
(* One event.                                                               *)

\* An earlier cursor is refused.
UpToDate(p) == page[p].ready /\ page[p].cursor = session.cursor

Event(p, action, step, passed, reason) ==
    [action |-> action, step |-> step, passed |-> passed, reason |-> reason,
     hints |-> HintsAt(step, events), shown |-> page[p].step,
     strength |-> "none"]

\* The event e of page p, and the session s its handler leaves.  Protocol 2 marks
\* a session that is over and has an answer as helped, and keeps its conclusion.
Store(p, s, e) ==
    LET evs   == Append(events, e)
        over  == s.protocol = 2 /\ s.status # "active"
        new   == [s EXCEPT !.assisted = @ \/ (over /\ Some("answer", evs))]
    IN  /\ Len(evs) <= MaxEvents
        /\ session' = new
        /\ events' = Append(events, [e EXCEPT !.strength =
                                       IF over THEN Strength(new, evs) ELSE "none"])
        /\ page' = [page EXCEPT ![p].ready = FALSE]

\* Where the trouble reported is looked for first.
StageOf(report) == CASE report \in {"knowledge_gap", "model"} -> "model"
                     [] report = "plan" -> "plan" [] report = "execution" -> "execution"
                     [] OTHER -> "condition"

\* The first step of the reported stage, the first of all when there is none.
StartStep(v, report) ==
    LET fitting == {i \in Steps : Stages[i] = IF v = 1 THEN report ELSE StageOf(report)}
    IN  IF fitting = {} THEN 1 ELSE First(fitting)

InOrder == [i \in Steps |-> i]

\* The steps from there on, for a quick diagnosis the first two.
Chosen(mode, report, left) ==
    LET start  == StartStep(2, report)
        turned == Listed(left, [i \in left |-> IF i >= start THEN i ELSE i + Len(Stages)])
    IN  IF mode = "deep" THEN Listed(left, InOrder)
        ELSE SubSeq(turned, 1, IF Len(turned) < 2 THEN Len(turned) ELSE 2)

Left(evs) == {i \in Steps : ~Answered(i, evs)}

\* Mutated form: only the steps still to be checked are listed.
OnlyLeft(s, mode, report, evs) ==
    LET more == Chosen(mode, report, Left(evs))
    IN  [s EXCEPT !.mode = mode, !.report = report,
                  !.steps = IF more = <<>> THEN Used(evs) ELSE more, !.cursor = 0,
                  !.status = IF more = <<>> THEN "completed" ELSE "active"]

\* Checks made are kept; those of the mode still missing follow.
Replanned(s, mode, report, evs) ==
    LET more == Chosen(mode, report, Left(evs))
    IN  [s EXCEPT !.mode = mode, !.report = report, !.steps = Used(evs) \o more,
                  !.cursor = Len(Used(evs)),
                  !.status = IF more = <<>> THEN "completed" ELSE "active"]

\* Going deeper from a quick diagnosis, of either protocol.
Deepen(p) ==
    /\ UpToDate(p) /\ session.mode = "quick"
    /\ Store(p, Replanned(session, "deep", session.report, events),
             Event(p, "deepen", Current(session), "none", "none"))

\* Choosing again; what was reported stays once a check was made.
SelectMode(p) ==
    /\ UpToDate(p) /\ session.protocol = 2 /\ ~NeedsRecall(session, events)
    /\ \E mode \in {"quick", "deep"}, report \in Reports :
          /\ Used(events) # <<>> => report = session.report
          /\ Store(p, Replanned(session, mode, report, events),
                   Event(p, "select-mode", Current(session), "none", "none"))

Finish(p) ==
    /\ UpToDate(p)
    /\ LET through == IF session.protocol = 1
                      THEN session.cursor >= Len(session.steps) - 1
                             /\ Answered(Current(session), events)
                      ELSE session.status = "completed"
                             \/ (CanNext(session, events)
                                   /\ session.cursor = Len(session.steps) - 1)
       IN  \E r \in {"agree", "different"} :
             Store(p, [session EXCEPT !.status = IF through THEN "completed" ELSE "ended",
                                      !.assisted = @ \/ (session.protocol = 2
                                                           /\ Some("answer", events))],
                   Event(p, "finish", Current(session), "none", r))

\* The student corrects the conclusion.
Revise(p) ==
    /\ UpToDate(p) /\ session.protocol = 2 /\ session.status # "active"
    /\ \E r \in {"cause", "unsure"} :
          Store(p, session, Event(p, "revise", Current(session), "none", r))

\* The student says what it was like the first time; a passed step is explained
\* with it, and a question not reached in time is done.
Locate(p) ==
    /\ UpToDate(p) /\ session.protocol = 2
    /\ AskedWhyLate(session, events) \/ NeedsRecall(session, events)
    /\ \E r \in Reasons(session, events) :
         LET late   == session.report = "time"
             i      == Current(session)
             passed == /\ ~AskedWhyLate(session, events)
                       /\ Answered(i, events) /\ LastTry(i, events).passed = "yes"
         IN  Store(p, [session EXCEPT !.assisted = @ \/ passed,
                                      !.status = IF late THEN "completed" ELSE @],
                   Event(p, "locate", IF late THEN NoStep ELSE i, "none", r))

\* Protocol 1 takes one answer to a step, and with it shows what is right.
AnswerOnce(p) ==
    /\ UpToDate(p) /\ session.protocol = 1 /\ session.status = "active"
    /\ ~Answered(Current(session), events)
    /\ \E a \in {"yes", "no"} :
          Store(p, [session EXCEPT !.assisted = TRUE],
                Event(p, "answer", Current(session), a, "none"))

Answer(p) ==
    /\ UpToDate(p) /\ session.protocol = 2 /\ session.status = "active"
    /\ CanAnswer(session, events) /\ ~NeedsRecall(session, events)
    /\ \E a \in {"yes", "no", "unsure"} :
          Store(p, [session EXCEPT !.assisted =
                      @ \/ (a = "yes" /\ (session.report = "unsure" \/ Some("locate", events)))],
                Event(p, "answer", Current(session), a, "none"))

Hint(p) ==
    /\ UpToDate(p) /\ session.status = "active"
    /\ IF session.protocol = 2 THEN CanHint(session, events)
       ELSE /\ ~Answered(Current(session), events)
            /\ HintsAt(Current(session), events) < Hints
    /\ Store(p, [session EXCEPT !.assisted = TRUE],
             Event(p, "hint", Current(session), "none", "none"))

NextStep(p) ==
    /\ UpToDate(p) /\ session.status = "active"
    /\ IF session.protocol = 2 THEN CanNext(session, events)
       ELSE Answered(Current(session), events)
    /\ LET on == session.cursor + 1
       IN  Store(p, [session EXCEPT !.cursor = on,
                                    !.status = IF on >= Len(session.steps) THEN "completed"
                                               ELSE "active",
                                    !.assisted = @ \/ session.protocol = 2],
                 Event(p, "next", Current(session), "none", "none"))

----------------------------------------------------------------------------
\* A session is started on the card as it is then.
Start ==
    /\ session.status = "none"
    /\ \E v \in {1, 2}, mode \in {"quick", "deep"}, report \in Reports :
       /\ v = 1 => report \in Range(StageOrder) \cup {"unsure"}
       /\ session' = [protocol |-> v, mode |-> mode, report |-> report, cursor |-> 0,
                      status |-> "active", assisted |-> FALSE,
                      steps |-> LET start == StartStep(v, report)
                                IN  IF mode = "deep" THEN InOrder
                                    ELSE Listed({start, start + 1} \cap Steps, InOrder)]
    /\ UNCHANGED <<events, page>>

\* A page is opened, or shows the state that came back.
OpenPage(p) ==
    /\ session.status # "none"
    /\ LET shows == [cursor |-> session.cursor, ready |-> TRUE,
                     step |-> IF Open(session) THEN Current(session) ELSE NoStep]
       IN  page[p] # shows /\ page' = [page EXCEPT ![p] = shows]
    /\ UNCHANGED <<session, events>>

ReasoningInit ==
    /\ session = [protocol |-> 0, mode |-> "none", report |-> "none", cursor |-> 0,
                  status |-> "none", assisted |-> FALSE, steps |-> <<>>]
    /\ events = <<>>
    /\ page = [p \in Pages |-> Shut]

Opens     == \E p \in Pages : OpenPage(p)
Deepens   == \E p \in Pages : Deepen(p)
Chooses   == \E p \in Pages : SelectMode(p)
Finishes  == \E p \in Pages : Finish(p)
Revises   == \E p \in Pages : Revise(p)
Locates   == \E p \in Pages : Locate(p)
Answers   == \E p \in Pages : AnswerOnce(p) \/ Answer(p)
HintsSent == \E p \in Pages : Hint(p)
NextSteps == \E p \in Pages : NextStep(p)

ReasoningNext == \/ Start \/ Opens \/ Deepens \/ Chooses \/ Finishes \/ Revises
                 \/ Locates \/ Answers \/ HintsSent \/ NextSteps

ReasoningSpec == ReasoningInit /\ [][ReasoningNext]_rdVars

----------------------------------------------------------------------------
\* The session, its events and its pages are what the tables can hold.
ReasoningTypeOK ==
    /\ session.status \in {"none", "active", "completed", "ended"}
    /\ session.status # "none" => session.cursor \in 0..Len(session.steps)
    /\ Len(events) <= MaxEvents
    /\ \A p \in Pages : page[p].step \in Steps \cup {NoStep}

\* A conclusion that recollection and check are said to agree on rests on a
\* recollection from before any hint, from whatever page either was sent
\* (diagnosis_reasoning.state).  The explanations of answers given before it are
\* not spoken of.
RecallUninfluenced ==
    \A n \in DOMAIN events : events[n].strength = "supported" =>
       \E m \in 1..n : /\ events[m].action = "locate"
                       /\ ~\E k \in 1..(m - 1) : events[k].action = "hint"

\* A step is answered again only after a hint given since, in protocol 1 never:
\* two pages at one step do not make two first answers.
RetriesFollowHints ==
    \A m, n \in DOMAIN events :
       m < n /\ events[m].action = "answer" /\ events[n].action = "answer"
         /\ events[m].step = events[n].step =>
            /\ session.protocol = 2
            /\ \E k \in m..n : events[k].action = "hint" /\ events[k].step = events[m].step

\* However often the student goes deeper or chooses again, the checks made stay
\* listed and none is asked twice.
ChecksAreKept ==
    /\ IsInjective(session.steps)
    /\ \A n \in DOMAIN events : events[n].action = "answer" =>
                                  events[n].step \in Range(session.steps)

\* An answer is stored for the step its page showed: a page behind the session
\* is refused, "the check has moved on, please refresh" (diagnosis.api).  It is not
\* when the other page chose again: the steps to come change and the cursor stays.
StepAsShown ==
    \A n \in DOMAIN events : events[n].action = "answer" => events[n].step = events[n].shown
=============================================================================
