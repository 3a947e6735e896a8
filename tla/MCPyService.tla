---------------------------- MODULE MCPyService ----------------------------
(* An instance of PyService for TLC. *)
EXTENDS PyService, TLC

CONSTANTS c1, c2, r1, r2, r3, r4

TwoAndTwo == (r1 :> c1) @@ (r2 :> c1) @@ (r3 :> c2) @@ (r4 :> c2)
=============================================================================
