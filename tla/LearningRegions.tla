--------------------------- MODULE LearningRegions ---------------------------
(***************************************************************************)
(* The learning map (learning_regions.py): what the events of diagnosis    *)
(* sessions and the published results of assessments say of a goal and of  *)
(* a region.  Nothing is stored: the map is computed when it is read, from *)
(* sessions that keep the bindings of their start, from assessments that   *)
(* may be published and withdrawn, and from bindings that teachers review. *)
(* One region is modelled; names, links and the window of days are not.    *)
(***************************************************************************)
EXTENDS Naturals, Sequences, FiniteSets, SequencesExt

CONSTANTS Students, Goals, Papers,
          Tasks,        \* questions a student may be stuck at
          SetBy,        \* task -> the paper it was set by, or none when practised alone
          Family,       \* task -> the item it is a version or part of
          Stages,       \* the stage of each action of a card
          Results,      \* student, task -> result of the first answer
          FirstBindings,\* action -> its goal, and the goal its later check is about
          MaxSessions, MaxEvents, MaxReviews   \* bounds

RegionAssumption ==
    /\ IsFiniteSet(Tasks) /\ Stages \in Seq(STRING)
    /\ FirstBindings \in [DOMAIN Stages -> [goal : Goals, verifies : Goals \cup {"none"},
                                            approved : BOOLEAN]]
    /\ MaxSessions \in Nat /\ MaxEvents \in Nat /\ MaxReviews \in Nat

VARIABLES bindings,   \* action -> its goal and its review, in the latest release
          sessions,   \* diagnosis sessions in the order of their start
          published,  \* papers whose results are published
          present,    \* student, paper: the student took part
          reviews     \* how many reviews were made

lrVars == <<bindings, sessions, published, present, reviews>>

NoPaper == "none"
Actions == DOMAIN Stages

----------------------------------------------------------------------------
(* The evidence of a session (observations).                               *)

\* The first action that was not passed; what is practised is about that one.
Stuck(s) ==
    LET failed == {n \in DOMAIN s.events : s.events[n].act = "probe" /\ s.events[n].passed # "yes"}
    IN  IF failed = {} THEN 0 ELSE s.events[CHOOSE n \in failed : \A m \in failed : n <= m].action

Done(s, act) == \E n \in DOMAIN s.events : s.events[n].act = act

\* Mutated form: evidence is read with the bindings of today.
Latest(s, i) == bindings[i]

Binding(s, i) == s.binds[i]

\* Event n of session s; a check of another day counts as a task of its own, and
\* only for a goal it is bound to.
Observation(s, n) ==
    LET e    == s.events[n]
        i    == IF e.act = "probe" THEN e.action ELSE Stuck(s)
        bind == Binding(s, i)
    IN  [goal |-> IF e.act = "verify" THEN bind.verifies ELSE bind.goal, stage |-> Stages[i],
         task |-> IF e.act = "verify" THEN <<"verify", s.task>> ELSE <<"task", Family[s.task]>>,
         source |-> e.act, passed |-> e.passed, at |-> e.at, student |-> s.student,
         assisted |-> e.assisted \/ e.act = "practice", approved |-> bind.approved]

Counts(s, n) ==
    \/ s.events[n].act = "probe"
    \/ s.events[n].act = "practice" /\ Stuck(s) # 0
    \/ s.events[n].act = "verify" /\ Stuck(s) # 0 /\ Binding(s, Stuck(s)).verifies # "none"

\* Mutated form: whatever was recorded counts, the results withdrawn or not.
Recorded(s, schoolOnly) == s.paper = NoPaper => ~schoolOnly

\* A paper counts when it is published and the student was there; practice alone
\* is for the student's own map only.
Visible(s, schoolOnly) ==
    IF s.paper = NoPaper THEN ~schoolOnly
    ELSE s.paper \in published /\ <<s.student, s.paper>> \in present

Observations(student, schoolOnly) ==
    UNION {{Observation(s, n) : n \in {m \in DOMAIN s.events : Counts(s, m)}} :
             s \in {t \in Range(sessions) : t.student = student /\ Visible(t, schoolOnly)}}

----------------------------------------------------------------------------
(* What the evidence says of a goal (goal_state).                          *)

First(S)  == CHOOSE e \in S : \A f \in S : e.at <= f.at
Final(S)  == CHOOSE e \in S : \A f \in S : f.at <= e.at

Usable(evidence) == {e \in evidence : e.approved}
Unhelped(evidence) == {e \in Usable(evidence) : ~e.assisted /\ e.passed # "unknown"}

\* The first independent check of every task.
Direct(evidence) ==
    {First({f \in Unhelped(evidence) : f.task = e.task}) : e \in Unhelped(evidence)}

Practised(evidence) == {e \in Usable(evidence) : e.assisted /\ e.passed = "yes"}

GoalState(evidence) ==
    LET direct   == Direct(evidence)
        failures == {e \in direct : e.passed = "no"}
        passes   == {e \in direct : e.passed = "yes"}
    IN  IF Practised(evidence) # {}
             /\ (direct = {} \/ Final(Practised(evidence)).at > Final(direct).at)
        THEN "practice"
        ELSE IF direct # {} /\ Final(direct).source = "verify" /\ Final(direct).passed = "yes"
        THEN "passed"
        ELSE IF failures # {} /\ passes # {} THEN "mixed"
        ELSE IF Cardinality(failures) >= 2 THEN "repeated"
        ELSE IF failures # {} THEN "check"
        ELSE IF passes # {} THEN "passed"
        ELSE "unobserved"

\* The evidence of a goal at one stage, so that a goal seen at another stage does
\* not count for this one.
AtStage(student, goal, stage) ==
    {e \in Observations(student, TRUE) : e.goal = goal /\ e.stage = stage}

----------------------------------------------------------------------------
(* A region for a class and for a student (analyze).                       *)

\* Families of tasks answered with one of the results, in papers that count.
Answered(student, results) ==
    {Family[t] : t \in {u \in Tasks : /\ SetBy[u] \in published
                                      /\ <<student, SetBy[u]>> \in present
                                      /\ Results[<<student, u>>] \in results}}

Troubled == {s \in Students : Cardinality(Answered(s, {"wrong"})) >= 2}
Observed == {s \in Students : Cardinality(Answered(s, {"correct", "wrong"})) >= 2}

Cell(stage) ==
    LET State(s, g)  == GoalState(AtStage(s, g, stage))
        Direct2(s, g) == Cardinality(Direct(AtStage(s, g, stage)))
    IN  [repeated   |-> {s \in Students : \E g \in Goals :
                           State(s, g) = "repeated" /\ Direct2(s, g) >= 2},
         sufficient |-> {s \in Students : \E g \in Goals : Direct2(s, g) >= 2},
         observed   |-> {s \in Students : \E g \in Goals : Direct2(s, g) >= 1}]

StudentRegion(student) ==
    LET Of(g)  == {e \in Observations(student, FALSE) : e.goal = g}
        states == {GoalState(Of(g)) : g \in {h \in Goals : Of(h) # {}}}
    IN  IF "repeated" \in states THEN "repeated"
        ELSE IF "practice" \in states THEN "practice"
        ELSE IF "mixed" \in states THEN "mixed"
        ELSE IF "check" \in states \/ Answered(student, {"wrong", "blank"}) # {} THEN "check"
        ELSE IF "passed" \in states THEN "passed"
        ELSE "unobserved"

----------------------------------------------------------------------------
(* What changes the map.                                                   *)

EventCount == Cardinality(UNION {{n} \X DOMAIN sessions[n].events : n \in DOMAIN sessions})

\* A diagnosis begins with the bindings of the latest release.
StartSession(student, task) ==
    /\ Len(sessions) < MaxSessions
    /\ ~\E n \in DOMAIN sessions : sessions[n].student = student /\ sessions[n].task = task
    /\ sessions' = Append(sessions, [student |-> student, task |-> task, paper |-> SetBy[task],
                                     binds |-> bindings, events |-> <<>>])
    /\ UNCHANGED <<bindings, published, present, reviews>>

Event(act, action, passed, assisted) ==
    [act |-> act, action |-> action, passed |-> passed, assisted |-> assisted, at |-> EventCount + 1]

AddEvent(n, event) ==
    /\ EventCount < MaxEvents
    /\ sessions' = [sessions EXCEPT ![n].events = Append(@, event)]
    /\ UNCHANGED <<bindings, published, present, reviews>>

Probe(n, i) ==
    /\ ~\E m \in DOMAIN sessions[n].events :
          sessions[n].events[m].act = "probe" /\ sessions[n].events[m].action = i
    /\ \E passed \in {"yes", "no", "unknown"}, assisted \in BOOLEAN :
          AddEvent(n, Event("probe", i, passed, assisted))

\* An exercise about the action the student was stuck at, and on a later day a
\* check of it.
Practice(n) ==
    /\ Stuck(sessions[n]) # 0 /\ ~Done(sessions[n], "practice")
    /\ \E passed \in {"yes", "no"} : AddEvent(n, Event("practice", 0, passed, TRUE))

Verify(n) ==
    /\ Done(sessions[n], "practice") /\ ~Done(sessions[n], "verify")
    /\ \E passed \in {"yes", "no"} : AddEvent(n, Event("verify", 0, passed, FALSE))

\* A teacher binds an action to a goal, and says whether its check is about it too.
Review(i) ==
    /\ reviews < MaxReviews /\ reviews' = reviews + 1
    /\ \E g \in Goals, checked \in BOOLEAN, approved \in BOOLEAN :
          bindings' = [bindings EXCEPT ![i] =
                         [goal |-> g, verifies |-> IF checked THEN g ELSE "none",
                          approved |-> approved]]
    /\ UNCHANGED <<sessions, published, present>>

\* Results are published or withdrawn, or a student is found to have been away.
Publish(p) ==
    /\ published' = IF p \in published THEN published \ {p} ELSE published \cup {p}
    /\ UNCHANGED <<bindings, sessions, present, reviews>>

MarkAbsent(student, p) ==
    /\ <<student, p>> \in present /\ present' = present \ {<<student, p>>}
    /\ UNCHANGED <<bindings, sessions, published, reviews>>

RegionInit ==
    /\ bindings = FirstBindings
    /\ sessions = <<>> /\ published = {} /\ reviews = 0
    /\ present = Students \X Papers

Sessions   == \E s \in Students, t \in Tasks : StartSession(s, t)
Probes     == \E n \in DOMAIN sessions, i \in Actions : Probe(n, i)
Practices  == \E n \in DOMAIN sessions : Practice(n)
Verifies   == \E n \in DOMAIN sessions : Verify(n)
Reviews    == \E i \in Actions : Review(i)
Publishes  == \E p \in Papers : Publish(p)
Absences   == \E s \in Students, p \in Papers : MarkAbsent(s, p)

RegionNext == \/ Sessions \/ Probes \/ Practices \/ Verifies
              \/ Reviews \/ Publishes \/ Absences

RegionSpec == RegionInit /\ [][RegionNext]_lrVars

----------------------------------------------------------------------------
\* Sessions and their events stay within the bounds, the students of a cell who are
\* stuck are among the well observed, and a region has one of the states shown.
RegionTypeOK ==
    /\ Len(sessions) <= MaxSessions /\ EventCount <= MaxEvents
    /\ \A stage \in Range(Stages) :
         Cell(stage).repeated \subseteq Cell(stage).sufficient
           /\ Cell(stage).sufficient \subseteq Cell(stage).observed
    /\ Troubled \subseteq Observed
    /\ \A s \in Students : StudentRegion(s) \in
          {"unobserved", "check", "repeated", "practice", "passed", "mixed"}

\* The checks a student answered alone with a result, each as the item it is of.
Alone(student, passed) ==
    LET Items(s) == {IF s.events[n].act = "verify" THEN <<"verify", s.task>>
                     ELSE <<"task", Family[s.task]>> :
                       n \in {m \in DOMAIN s.events : /\ s.events[m].act # "practice"
                                                      /\ ~s.events[m].assisted
                                                      /\ s.events[m].passed = passed}}
    IN  UNION {Items(s) : s \in {t \in Range(sessions) : t.student = student}}

\* Help proves nothing: a goal is passed, or a student stuck at it time and again,
\* only by checks the student answered alone, of as many different items; a retry
\* of the same item adds none ("unknown, helped, retried and duplicate tasks do
\* not inflate", test_learning_regions).
ProvenAlone ==
    \A s \in Students, g \in Goals :
       LET state == GoalState({e \in Observations(s, FALSE) : e.goal = g})
       IN  /\ state = "passed" => Alone(s, "yes") # {}
           /\ state = "mixed" => Alone(s, "yes") # {} /\ Alone(s, "no") # {}
           /\ state = "repeated" => Cardinality(Alone(s, "no")) >= 2

\* A review counts for sessions started after it: what earlier sessions say of a
\* student is what it was ("later review never invents a historical binding",
\* observations).
ReviewsLookForward ==
    [][Reviews => \A s \in Students, own \in BOOLEAN :
                     Observations(s, own)' = Observations(s, own)]_lrVars

\* The class sees school work only, of published papers the student sat.
ClassSeesSchoolWork ==
    \A s \in Students : \A e \in Observations(s, TRUE) :
       \E n \in DOMAIN sessions :
          /\ sessions[n].student = s /\ sessions[n].paper \in published
          /\ <<s, sessions[n].paper>> \in present
          /\ \E m \in DOMAIN sessions[n].events : sessions[n].events[m].at = e.at
=============================================================================
