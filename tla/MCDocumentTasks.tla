-------------------------- MODULE MCDocumentTasks --------------------------
(***************************************************************************)
(* Instances of DocumentTasks for TLC.  MaxAttempts and the retry keys     *)
(* bound every counter: a generation or a lease token is drawn once per    *)
(* attempt, and attempts restart only with a fresh retry key.  A behaviour *)
(* of LoadSpec carries one load, chosen at its start: which documents      *)
(* arrive and which retries are sent.                                      *)
(***************************************************************************)
EXTENDS DocumentTasks, TLC

VARIABLE load

\* One document with retries, or all documents without.
Loads == {[tasks |-> {1}, keys |-> RetryKeys], [tasks |-> Tasks, keys |-> {}]}

InLoad ==
    /\ \A t \in Tasks \ load.tasks : task[t].status = "absent"
    /\ \A k \in RetryKeys \ load.keys : retryOf[k] = NoTask

LoadInit == Init /\ load \in Loads
LoadNext == UNCHANGED load /\ Next /\ InLoad'
LoadSpec == LoadInit /\ [][LoadNext]_<<vars, load>>

\* Worker processes and request keys are interchangeable.
Symmetry == Permutations(Workers) \cup Permutations(RetryKeys)
=============================================================================
