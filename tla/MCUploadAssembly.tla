-------------------------- MODULE MCUploadAssembly --------------------------
(***************************************************************************)
(* Instances of UploadAssembly for TLC.  Requests are handled once, so the *)
(* number of requests bounds every behaviour.                              *)
(***************************************************************************)
EXTENDS UploadAssembly, TLC

\* Requests are interchangeable, and so are the parts of a document.
Symmetry == Permutations(Requests) \cup Permutations(Parts)
=============================================================================
