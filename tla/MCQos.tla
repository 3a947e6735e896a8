------------------------------- MODULE MCQos -------------------------------
(***************************************************************************)
(* Inputs and properties of Qos: x is a profile of ros-z, one of rmw, or   *)
(* what a publisher offers and a subscription requests.                    *)
(***************************************************************************)
EXTENDS MCInput, Qos

Depths == {1, 2, DEFAULT_HISTORY_DEPTH}
Times == {1, 2, Infinite}

QosProfiles ==
    [reliability : {"Reliable", "BestEffort"}, durability : {"Volatile", "TransientLocal"},
     history : {KeepLast(n) : n \in Depths} \cup {KeepAll}, deadline : Times,
     lifespan : {1, Infinite}, liveliness : {"Automatic", "ManualByNode", "ManualByTopic"},
     lease : Times]
RmwProfiles ==
    [reliability : 0..2, durability : 0..2, history : 0..2, depth : {0, 2},
     deadline : {0, 1, 2}, lifespan : {0}, liveliness : {0, 1, 3}, lease : {0, Infinite}]
RmwOffers == {r \in RmwProfiles : r.history = 1 /\ r.depth = 2}

-----------------------------------------------------------------------------
(* QoS *)

\* The token of qos.rs carries the whole profile although it leaves out what
\* is default.
QosRoundTrip == part = "qos" => decode(encode(x)) = x

\* Peers that use the other crate, or the other format, read the same policies.
QosInterop ==
    part = "qos" =>
       LET p == to_protocol_qos(x) IN
       /\ protocol_decode(encode(x)) = p
       /\ decode(protocol_encode(p)) =
             [DefaultQos EXCEPT !.reliability = x.reliability,
                                !.durability = x.durability, !.history = x.history]
       /\ \A keyless \in BOOLEAN : dds_decode_qos(dds_encode_qos(p, keyless)) = <<keyless, p>>

\* A profile that came from rmw survives the way through ros-z and a token:
\* what rcl reads back is what it asked for, up to the defaults it left open.
RmwQosStable ==
    part = "rmw qos" =>
       LET q == rmw_qos_to_ros_z_qos(x)
           back == ros_z_qos_to_rmw_qos(q)
       IN  /\ rmw_qos_to_ros_z_qos(back) = q
           /\ \A f \in {"reliability", "durability", "history", "liveliness"} :
                 x[f] # 0 => back[f] = x[f]
           /\ x.history = 1 => back.depth = normalize_rmw_qos(x).depth
           /\ back.history = 1 => back.depth > 0

\* A publisher that offers more never becomes incompatible with a subscription,
\* and one that offers what is requested is compatible.  What rcl is warned of
\* is never the durability that the events report.
OfferMonotone ==
    part = "offers" =>
       LET check(p) == check_qos_compatibility_with_policy(p, x[2]) IN
       /\ check(x[2]) = "compatible"
       /\ rmw_qos_profile_check_compatible(x[1], x[2]) = "warning" => check(x[1]) # "durability"
       /\ check(x[1]) = "compatible" =>
             \A f \in {"reliability", "durability", "liveliness"} :
                check([x[1] EXCEPT ![f] = IF f = "liveliness" THEN 3 ELSE 1]) = "compatible"

\* Both sides count each other as matched, as rcl is told that nothing is
\* incompatible, although the graph lost the deadline, the liveliness and which
\* policies were left to the default: also where the events report a policy.
MatchedCounts ==
    part = "offers" =>
       LET known(r) == to_protocol_qos(rmw_qos_to_ros_z_qos(r))
       IN  CountsAsMatched(x[1], known(x[2]), TRUE) /\ CountsAsMatched(x[2], known(x[1]), FALSE)

\* The profile reported as the actual one, where the liveliness is resolved,
\* never promises more than the endpoint keeps: whoever the reported publisher
\* suits the real one suits as well, and whatever suits the reported
\* subscription suits the real one.  As i32::MAX seconds are not the longest
\* duration, the subscription's converse needs offers up to that.
ActualOffersNoMore ==
    part = "offers" =>
       LET suits(p, s) == check_qos_compatibility_with_policy(p, s) = "compatible"
           actual == subscription_get_actual_qos(x[2])
       IN  /\ x[1].liveliness # 0 /\ suits(get_actual_qos(x[1]), x[2]) => suits(x[1], x[2])
           /\ x[2].liveliness # 0 =>
                 /\ suits(x[1], actual) => suits(x[1], x[2])
                 /\ suits(x[1], x[2]) /\ x[1].deadline <= MaxSeconds /\ x[1].lease <= MaxSeconds =>
                       suits(x[1], actual)

\* The dictionary of the Python bindings gives the profile back.
PyQosRoundTrip == part = "qos" => qos_from_pydict(qos_to_pydict(x)) = x

-----------------------------------------------------------------------------
\* A QoS profile arrives as it was sent, through the liveliness token, rmw's
\* struct and the Python dictionary; offering more never makes incompatible, each
\* end of a topic counts the other, and none reports more than it keeps.
QosFaithful ==
    /\ QosRoundTrip /\ QosInterop /\ RmwQosStable /\ PyQosRoundTrip
    /\ OfferMonotone /\ MatchedCounts /\ ActualOffersNoMore
=============================================================================
