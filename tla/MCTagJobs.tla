----------------------------- MODULE MCTagJobs -----------------------------
(***************************************************************************)
(* Instances of TagJobs for TLC.  MaxAttempts, MaxVersion and MaxRevision  *)
(* bound every counter.  A behaviour of LoadSpec carries one load, chosen  *)
(* at its start: how many workers are under way together, which people     *)
(* work on the question and how often its tags change.                     *)
(***************************************************************************)
EXTENDS TagJobs, FiniteSets, TLC

VARIABLE load

\* Two workers and a teacher, or one worker, an HTTP run and an agent.
Loads ==
    {[workers |-> 2, people |-> Editors \ Agents, revision |-> 1],
     [workers |-> 1, people |-> Agents \cup Threads, revision |-> MaxRevision + 1]}

InLoad ==
    /\ Cardinality({w \in Workers : run[w].pc # "idle"}) <= load.workers
    /\ \A h \in Threads \ load.people : run[h] = Idle
    /\ \A q \in Questions :
          /\ question[q].revision <= load.revision
          /\ \A e \in Editors \ load.people : page[e][q] = Unread
          /\ question[q].by \in Persons => \E e \in Editors \cap load.people : SourceOf(e) = question[q].by

LoadInit == Init /\ load \in Loads
LoadNext == UNCHANGED load /\ Next /\ InLoad'
LoadSpec == LoadInit /\ [][LoadNext]_<<vars, load>>

\* Worker processes are interchangeable.
Symmetry == Permutations(Workers)
=============================================================================
