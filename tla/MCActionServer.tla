--------------------------- MODULE MCActionServer ---------------------------
(***************************************************************************)
(* Instances of ActionServer for TLC.  Goals, result requests and cancel   *)
(* requests are interchangeable, so the safety run may permute them.       *)
(***************************************************************************)
EXTENDS ActionServer, TLC

Symmetry ==
    Permutations(Goals) \cup Permutations(Requests) \cup Permutations(Cancels)
=============================================================================
