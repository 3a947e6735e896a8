----------------------------- MODULE MCService -----------------------------
(* Instances of Service for TLC: two requests of one client, and one or two *)
(* of another.                                                              *)
EXTENDS Service, TLC

CONSTANTS c1, c2, r1, r2, r3, r4

TwoAndOne == (r1 :> c1) @@ (r2 :> c1) @@ (r3 :> c2)
TwoAndTwo == TwoAndOne @@ (r4 :> c2)
=============================================================================
