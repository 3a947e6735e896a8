----------------------------- MODULE MCRmwGraph -----------------------------
(* Instances of RmwGraph for TLC.                                          *)
EXTENDS RmwGraph

Entity(id, kind, topic, node, qos, local, typed) ==
    [id |-> id, kind |-> kind, topic |-> topic, node |-> node, qos |-> qos, local |-> local,
     typed |-> typed]

\* A local node with a service, a publisher and a subscription that do not match,
\* and a publisher of another session, without a type.
World ==
    {Entity(1, "Node", "none", "n", "none", TRUE, TRUE),
     Entity(2, "Publisher", "t", "n", "BestEffort", TRUE, TRUE),
     Entity(3, "Subscription", "t", "n", "Reliable", TRUE, TRUE),
     Entity(4, "Service", "s", "n", "none", TRUE, TRUE),
     Entity(5, "Publisher", "t", "m", "BestEffort", FALSE, FALSE)}

\* States that differ in the matched counts alone are taken for one: no other
\* variable depends on them, and of the properties only the type invariant.
AllButMatched ==
    <<graph, env, pc, existed, registered, incompatible, guards, freed, dangling, late>>

=============================================================================
