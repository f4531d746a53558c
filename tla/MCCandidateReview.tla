-------------------------- MODULE MCCandidateReview --------------------------
(***************************************************************************)
(* Instances of CandidateReview for TLC: papers of one and of two          *)
(* candidates.  A behaviour carries one load, chosen at its start: how     *)
(* many requests are made, which operations they ask for and whether they  *)
(* rephrase.  Clients may stop, so a behaviour may end anywhere.           *)
(***************************************************************************)
EXTENDS CandidateReview, TLC

CONSTANTS i1, i2, Loads

OneItem == <<i1>>
TwoItems == <<i1, i2>>

VARIABLE load

\* One candidate is edited, answered, confirmed and published in three requests.
Publishing == [keys |-> 3, texts |-> Texts,
               ops |-> {"save", "confirm_paper", "confirm", "attach"}]

\* One candidate is split, its parts merged, deferred or published, the task deleted.
Restructuring == [keys |-> 2, texts |-> {Text0},
                  ops |-> {"save", "confirm", "split", "merge", "defer", "delete"}]

\* A paper of two candidates is confirmed as a whole, reordered and published.
Confirming == [keys |-> 2, texts |-> {Text0},
               ops |-> {"confirm_paper", "confirm", "reorder"}]

\* It is confirmed and published while answers are attached.
Answering == [Confirming EXCEPT !.ops = {"confirm_paper", "confirm", "attach"}]

\* Blocks move between two candidates while others save, merge and publish them.
Assigning == [keys |-> 2, texts |-> {Text0},
              ops |-> {"save", "assign", "merge", "confirm"}]

\* Blocks move between two candidates while others reorder and merge them.
Rearranging == [Assigning EXCEPT !.ops = {"assign", "merge", "reorder", "confirm"}]

OneItemLoads == {Publishing, Restructuring}
TwoItemLoads == {Confirming, Answering, Assigning, Rearranging}

InFlight == {r \in Requests : ~At(r, "idle")}

InLoad ==
    /\ Cardinality(recorded \cup {req[r].key : r \in InFlight}) <= load.keys
    /\ \A r \in InFlight : Asked(r).op \in load.ops /\ Asked(r).text \in load.texts

LoadInit == Init /\ load \in Loads
LoadNext == UNCHANGED load /\ Next /\ InLoad'
LoadSpec == LoadInit /\ [][LoadNext]_<<vars, load>>

\* Requests, keys and the ids not yet used are interchangeable.
Symmetry == Permutations(Requests) \cup Permutations(Keys) \cup Permutations(Items \ Blocks)
=============================================================================
