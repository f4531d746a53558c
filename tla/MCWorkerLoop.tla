---------------------------- MODULE MCWorkerLoop ----------------------------
(***************************************************************************)
(* Instances of WorkerLoop for TLC.  A behaviour carries one load, chosen  *)
(* at its start: how many tag jobs and packages are queued, and whether    *)
(* the question is edited.                                                 *)
(***************************************************************************)
EXTENDS WorkerLoop, FiniteSets

VARIABLE load

\* A publication's job and one of the bank page; a tag job and an edit; a package beside a tag job.
Loads ==
    {[jobs |-> 2, version |-> 1, packages |-> 0],
     [jobs |-> 1, version |-> MaxVersion, packages |-> 0],
     [jobs |-> 1, version |-> 1, packages |-> 1]}

InLoad ==
    /\ Cardinality({j \in Jobs : job[j].status # "absent"}) <= load.jobs
    /\ load.jobs = 2 =>
          \A j \in Jobs : job[j].status # "absent" => job[j].kind = IF j = 1 THEN "import" ELSE "bank"
    /\ \A q \in Questions : question[q].version <= load.version
    /\ Cardinality({p \in Packages : package[p].created}) <= load.packages

LoadInit == Init /\ load \in Loads
LoadNext == UNCHANGED load /\ Next /\ InLoad'
LoadSpec == LoadInit /\ [][LoadNext]_<<vars, load>> /\ Fairness
=============================================================================
