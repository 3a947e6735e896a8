------------------------------ MODULE MCPubSub ------------------------------
(***************************************************************************)
(* An instance of PubSub: two threads share a reliable publisher of rmw, a *)
(* third uses a best-effort native one that attaches nothing; both have    *)
(* shared memory.  One subscription is declared, as any kind, and dropped  *)
(* again and again.                                                        *)
(***************************************************************************)
EXTENDS PubSub, TLC

CONSTANTS t1, t2, t3, p1, p2, s1

MCPubOf == (t1 :> p1) @@ (t2 :> p1) @@ (t3 :> p2)
MCMsgs == (t1 :> 2) @@ (t2 :> 1) @@ (t3 :> 1)
MCDepth == (s1 :> 2)
=============================================================================
