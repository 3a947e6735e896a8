--------------------------- MODULE MCBoundedQueue ---------------------------
(***************************************************************************)
(* Instances of BoundedQueue for TLC.  Receivers of one kind differ only   *)
(* in name, so the safety runs may permute them.                           *)
(***************************************************************************)
EXTENDS BoundedQueue, TLC

Symmetry == Permutations(BlockingReceivers) \cup Permutations(AsyncReceivers)
=============================================================================
