----------------------------- MODULE MCWaitSet -----------------------------
(* Instances of WaitSet for TLC.                                           *)
EXTENDS WaitSet, TLC

CONSTANTS t1, t2, q1, e1, g1

\* Two executors with wait sets of their own that share the notifier.
Disjoint == (t1 :> {q1, g1}) @@ (t2 :> {e1})
=============================================================================
