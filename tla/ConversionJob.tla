--------------------------- MODULE ConversionJob ---------------------------
(***************************************************************************)
(* What the conversion queue promises to a teacher, whatever the workers,  *)
(* the lease clock and the other handlers do: a submitted document yields  *)
(* at most one conversion; a task is retried only while it has none; once  *)
(* delivered a conversion is never replaced, and once some of it has been  *)
(* published the task can never be removed.                                *)
(***************************************************************************)
CONSTANTS Tasks, Results

VARIABLES
    phase,   \* [Tasks -> Phases]
    result   \* [Tasks -> SUBSET Results]: the conversions of the task

jobVars == <<phase, result>>

Phases == {"none", "open", "closed", "delivered", "published", "gone"}

JobInit ==
    /\ phase = [t \in Tasks |-> "none"]
    /\ result = [t \in Tasks |-> {}]

Move(t, from, to) ==
    /\ phase[t] \in from
    /\ phase' = [phase EXCEPT ![t] = to]

Submit(t) == Move(t, {"none"}, "open") /\ UNCHANGED result

Reopen(t) == Move(t, {"closed"}, "open") /\ UNCHANGED result

Deliver(t) ==
    /\ Move(t, {"open"}, "delivered")
    /\ \E r \in result'[t] : r \in Results /\ result' = [result EXCEPT ![t] = {r}]

Publish(t) == Move(t, {"delivered"}, "published") /\ UNCHANGED result

Remove(t) ==
    /\ Move(t, {"closed", "delivered"}, "gone")
    /\ result' = [result EXCEPT ![t] = {}]

\* A recovery pass closes every open task that has used up its attempts.
Close ==
    /\ \E S \in SUBSET {t \in Tasks : phase[t] = "open"} :
          phase' = [t \in Tasks |-> IF t \in S THEN "closed" ELSE phase[t]]
    /\ UNCHANGED result

JobNext ==
    \/ Close
    \/ \E t \in Tasks : Submit(t) \/ Reopen(t) \/ Deliver(t) \/ Publish(t) \/ Remove(t)

JobSpec == JobInit /\ [][JobNext]_jobVars
=============================================================================
