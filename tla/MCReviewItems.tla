--------------------------- MODULE MCReviewItems ---------------------------
(***************************************************************************)
(* Instances of ReviewItems for TLC.  A behaviour carries one load, chosen *)
(* at its start: which packages are created, which questions can be        *)
(* generated or edited, which pages are open and whether they edit or      *)
(* arrange.                                                                *)
(***************************************************************************)
EXTENDS ReviewItems, FiniteSets, TLC

VARIABLE load

\* Two pages edit an item two workers meet on; one page edits an item and its copy for
\* a class; two pages arrange two items.
Loads ==
    {[packages |-> 1, edited |-> {1}, pages |-> 2, workers |-> 2, revision |-> <<4, 0>>],
     [packages |-> 2, edited |-> {1}, pages |-> 1, workers |-> 1, revision |-> <<3, 2>>],
     [packages |-> 1, edited |-> {}, pages |-> 2, workers |-> 1, revision |-> <<2, 0>>]}

InLoad ==
    /\ Cardinality(CreatedPackages) <= load.packages
    /\ Cardinality({g \in Pages : page[g].open}) <= load.pages
    /\ Cardinality({w \in Workers : worker[w].calling}) <= load.workers
    /\ \A p \in CreatedPackages :
          /\ load.edited # {} => package[p].revision = 1
          /\ \A s \in Snapshots :
                /\ item[p][s].revision <= load.revision[p]
                /\ p \notin load.edited => item[p][s].editor = NoPage
                /\ load.edited # {} /\ s # 1 => item[p][s].source \notin Verified /\ item[p][s].revision = 1
                /\ load.edited = {} => item[p][s].generated = Blank

LoadInit == Init /\ load \in Loads
LoadNext == UNCHANGED load /\ Next /\ InLoad'
LoadSpec == LoadInit /\ [][LoadNext]_<<vars, load>>

\* Worker processes, lease tokens and pages are interchangeable.
Symmetry == Permutations(Workers) \cup Permutations(Tokens) \cup Permutations(Pages)
=============================================================================
