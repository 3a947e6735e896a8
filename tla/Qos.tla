-------------------------------- MODULE Qos --------------------------------
(***************************************************************************)
(* QoS profiles and their encodings: the text in rmw_zenoh's and           *)
(* ros2dds's liveliness tokens, the C struct of rmw and the dictionary of  *)
(* the Python bindings.                                                    *)
(*                                                                         *)
(* A text is the record of its colon-separated fields, a field the tuple   *)
(* of its comma-separated parts, "" an empty part.  A duration is one      *)
(* number, 0 one that rmw leaves unspecified.                              *)
(***************************************************************************)
EXTENDS Naturals, Sequences

\* Duration::INFINITE, the longest there is, and the i32::MAX seconds (shorter)
\* that rmw's get_actual_qos takes for infinite.
CONSTANTS Infinite, MaxSeconds
ASSUME InfiniteAssumption == Infinite \in Nat /\ MaxSeconds \in Nat /\ 0 < MaxSeconds /\ MaxSeconds < Infinite

DEFAULT_HISTORY_DEPTH == 10
HistoryError == <<"Error">>

KeepLast(n) == <<"KeepLast", n>>
KeepAll == <<"KeepAll">>
DefaultQos ==
    [reliability |-> "Reliable", durability |-> "Volatile",
     history |-> KeepLast(DEFAULT_HISTORY_DEPTH), deadline |-> Infinite,
     lifespan |-> Infinite, liveliness |-> "Automatic", lease |-> Infinite]

Error == [DefaultQos EXCEPT !.reliability = "Error"]

\* The value a table gives for a code.
FromTable(table, x) == (CHOOSE p \in table : p[1] = x)[2]
Code(table, v) == (CHOOSE p \in table : p[2] = v)[1]
InTable(table) == {p[1] : p \in table}

\* QosHistory::from_depth.
from_depth(n) == KeepLast(IF n = 0 THEN DEFAULT_HISTORY_DEPTH ELSE n)

-----------------------------------------------------------------------------
(* The text of rmw_zenoh, as ros_z::qos writes and reads it. *)

ReliabilityText == {<<"1", "Reliable">>, <<"2", "BestEffort">>}
DurabilityText == {<<"1", "TransientLocal">>, <<"2", "Volatile">>}
LivelinessText == {<<"1", "Automatic">>, <<"2", "ManualByNode">>, <<"3", "ManualByTopic">>}

\* A number that is a part of a field, and the empty part.
Number(n) == <<n>>
Empty == <<>>

IfNot(default, v, text) == IF v = default THEN "" ELSE text
Seconds(d) == IF d = Infinite THEN Empty ELSE Number(d)

encode_history(h) ==
    IF h = KeepAll THEN <<"2", Empty>>
    ELSE <<IfNot(DefaultQos.history, h, "1"), Number(h[2])>>

\* A mutant: the lease goes only with a kind that is not the default.
encode_liveliness_KindOnly(q) ==
    IF q.liveliness = "Automatic" THEN <<"", Empty>>
    ELSE <<Code(LivelinessText, q.liveliness), Number(q.lease)>>

encode_liveliness(q) ==
    IF q.liveliness = "Automatic" /\ q.lease = Infinite THEN <<"", Empty>>
    ELSE <<Code(LivelinessText, q.liveliness), Number(q.lease)>>

encode(q) ==
    [reliability |-> IfNot("Reliable", q.reliability, Code(ReliabilityText, q.reliability)),
     durability |-> IfNot("Volatile", q.durability, Code(DurabilityText, q.durability)),
     history |-> encode_history(q.history),
     deadline |-> Seconds(q.deadline),
     lifespan |-> Seconds(q.lifespan),
     liveliness |-> encode_liveliness(q)]

decode_seconds(t) == IF t = Empty THEN Infinite ELSE t[1]

decode_history(t) ==
    CASE t = <<"", Empty>> -> DefaultQos.history
      [] t[1] \in {"", "0", "1"} -> IF t[2] \in {Empty, Number(0)} THEN HistoryError ELSE KeepLast(t[2][1])
      [] t[1] = "2" -> KeepAll
      [] OTHER -> HistoryError

decode(t) ==
    IF t.reliability \notin {"", "0"} \cup InTable(ReliabilityText)
       \/ t.durability \notin {"", "0"} \cup InTable(DurabilityText)
       \/ decode_history(t.history) = HistoryError
    THEN Error
    ELSE [reliability |-> IF t.reliability \in {"", "0"} THEN "Reliable"
                          ELSE FromTable(ReliabilityText, t.reliability),
          durability |-> IF t.durability \in {"", "0"} THEN "Volatile"
                         ELSE FromTable(DurabilityText, t.durability),
          history |-> decode_history(t.history),
          deadline |-> decode_seconds(t.deadline),
          lifespan |-> decode_seconds(t.lifespan),
          liveliness |-> IF t.liveliness[1] \in InTable(LivelinessText)
                         THEN FromTable(LivelinessText, t.liveliness[1]) ELSE "Automatic",
          lease |-> decode_seconds(t.liveliness[2])]

-----------------------------------------------------------------------------
(* ros_z_protocol::qos: three policies; the other fields are always empty. *)

to_protocol_qos(q) ==
    [reliability |-> q.reliability, durability |-> q.durability, history |-> q.history]

protocol_encode(p) ==
    [reliability |-> IfNot("Reliable", p.reliability, Code(ReliabilityText, p.reliability)),
     durability |-> IfNot("Volatile", p.durability, Code(DurabilityText, p.durability)),
     history |-> encode_history(p.history),
     deadline |-> Empty, lifespan |-> Empty, liveliness |-> <<"", Empty>>]

\* No "0" for a default, a KeepLast of depth 0 is taken as it is.
protocol_decode(t) ==
    IF t.reliability \notin {""} \cup InTable(ReliabilityText)
       \/ t.durability \notin {""} \cup InTable(DurabilityText)
       \/ t.history[1] \notin {"", "1", "2"} \/ (t.history[1] # "2" /\ t.history[2] = Empty)
    THEN Error
    ELSE [reliability |-> IF t.reliability = "" THEN "Reliable" ELSE FromTable(ReliabilityText, t.reliability),
          durability |-> IF t.durability = "" THEN "Volatile" ELSE FromTable(DurabilityText, t.durability),
          history |-> IF t.history[1] = "2" THEN KeepAll ELSE KeepLast(t.history[2][1])]

-----------------------------------------------------------------------------
(* ros2dds: <keyless>:<reliability>:<durability>:<history>,<depth>. *)

DdsReliability == {<<"0", "BestEffort">>, <<"1", "Reliable">>}
DdsDurability == {<<"0", "Volatile">>, <<"1", "TransientLocal">>}

dds_encode_qos(p, keyless) ==
    <<IF keyless THEN "" ELSE "K",
      Code(DdsReliability, p.reliability), Code(DdsDurability, p.durability),
      IF p.history = KeepAll THEN <<"1", 0>> ELSE <<"0", p.history[2]>>>>

dds_decode_qos(t) ==
    <<t[1] = "",
      [reliability |-> IF t[2] \in InTable(DdsReliability) THEN FromTable(DdsReliability, t[2]) ELSE "Reliable",
       durability |-> IF t[3] \in InTable(DdsDurability) THEN FromTable(DdsDurability, t[3]) ELSE "Volatile",
       history |-> IF t[4][1] = "1" THEN KeepAll ELSE KeepLast(t[4][2])]>>

-----------------------------------------------------------------------------
(* rmw: a policy is its number in the C enums, 0 is SYSTEM_DEFAULT. *)

RmwHistory == {<<1, "KeepLast">>, <<2, "KeepAll">>}
RmwReliability == {<<1, "Reliable">>, <<2, "BestEffort">>}
RmwDurability == {<<1, "TransientLocal">>, <<2, "Volatile">>}
RmwLiveliness == {<<1, "Automatic">>, <<3, "ManualByTopic">>}

normalize_rmw_qos(r) ==
    [r EXCEPT !.depth = IF r.history = 1 /\ @ = 0 THEN DEFAULT_HISTORY_DEPTH ELSE @]

OrDefault(table, x, default) == IF x \in InTable(table) THEN FromTable(table, x) ELSE default

rmw_qos_to_ros_z_qos(r) ==
    [reliability |-> OrDefault(RmwReliability, r.reliability, "Reliable"),
     durability |-> OrDefault(RmwDurability, r.durability, "Volatile"),
     history |-> CASE r.history = 1 -> from_depth(r.depth)
                   [] r.history = 2 -> KeepAll
                   [] OTHER -> DefaultQos.history,
     deadline |-> r.deadline, lifespan |-> r.lifespan,
     liveliness |-> OrDefault(RmwLiveliness, r.liveliness, "Automatic"),
     lease |-> r.lease]

\* ManualByNode was removed from rmw and becomes ManualByTopic.
ros_z_qos_to_rmw_qos(q) ==
    [reliability |-> Code(RmwReliability, q.reliability),
     durability |-> Code(RmwDurability, q.durability),
     history |-> Code(RmwHistory, q.history[1]),
     depth |-> IF q.history = KeepAll THEN 0 ELSE q.history[2],
     deadline |-> q.deadline, lifespan |-> q.lifespan,
     liveliness |-> IF q.liveliness = "Automatic" THEN 1 ELSE 3,
     lease |-> q.lease]

Exceeds(p, s) == s > 0 /\ p > 0 /\ p > s

\* The first policy in which the publisher offers less than is requested.
check_qos_compatibility_with_policy(p, s) ==
    CASE p.reliability = 2 /\ s.reliability = 1 -> "reliability"
      [] p.durability = 2 /\ s.durability = 1 -> "durability"
      [] Exceeds(p.deadline, s.deadline) -> "deadline"
      [] s.liveliness > p.liveliness -> "liveliness"
      [] Exceeds(p.lease, s.lease) -> "liveliness"
      [] OTHER -> "compatible"

\* What an endpoint of the graph is taken for: its deadline and its liveliness
\* did not travel.
protocol_qos_to_ros_z_qos(p) ==
    [DefaultQos EXCEPT !.reliability = p.reliability, !.durability = p.durability,
                       !.history = IF p.history = KeepAll THEN KeepAll ELSE from_depth(p.history[2])]

\* What rcl is told: nothing is incompatible, one pair is doubtful.
rmw_qos_profile_check_compatible(p, s) ==
    IF p.durability = 1 /\ s.durability = 2 THEN "warning" ELSE "ok"

qos_profiles_are_compatible(p, s) == rmw_qos_profile_check_compatible(p, s) # "error"

\* Whether an endpoint of the graph counts as matched
\* (rmw_publisher_count_matched_subscriptions and its counterpart).
CountsAsMatched(own, found, ownPublishes) ==
    LET other == ros_z_qos_to_rmw_qos(protocol_qos_to_ros_z_qos(found))
    IN  IF ownPublishes THEN qos_profiles_are_compatible(own, other)
        ELSE qos_profiles_are_compatible(other, own)

\* rmw_publisher_get_actual_qos: an unspecified duration is i32::MAX seconds, an
\* unspecified (0) or unknown (4) liveliness automatic.
get_actual_qos(r) ==
    [r EXCEPT !.deadline = IF @ = 0 THEN MaxSeconds ELSE @,
              !.lifespan = IF @ = 0 THEN MaxSeconds ELSE @,
              !.lease = IF @ = 0 THEN MaxSeconds ELSE @,
              !.liveliness = IF @ \in {0, 4} THEN 1 ELSE @]

\* rmw_subscription_get_actual_qos does the same.
subscription_get_actual_qos(r) == get_actual_qos(r)

-----------------------------------------------------------------------------
(* Python: a dictionary holds the entries that are not infinite. *)

Entry(v) == IF v = Infinite THEN Empty ELSE <<v>>

qos_to_pydict(q) ==
    [reliability |-> <<q.reliability>>, durability |-> <<q.durability>>,
     history |-> <<q.history[1]>>, liveliness |-> <<q.liveliness>>,
     depth |-> IF q.history = KeepAll THEN Empty ELSE <<q.history[2]>>,
     deadline |-> Entry(q.deadline), lifespan |-> Entry(q.lifespan), lease |-> Entry(q.lease)]

Or(entry, default) == IF entry = Empty THEN default ELSE entry[1]

\* A depth without a history kind is ignored; keep_last without one is refused.
qos_from_pydict(d) ==
    IF d.history = <<"KeepLast">> /\ d.depth \in {Empty, <<0>>} THEN Error
    ELSE [reliability |-> Or(d.reliability, "Reliable"),
          durability |-> Or(d.durability, "Volatile"),
          history |-> CASE d.history = Empty -> DefaultQos.history
                        [] d.history = <<"KeepAll">> -> KeepAll
                        [] OTHER -> KeepLast(d.depth[1]),
          deadline |-> Or(d.deadline, Infinite), lifespan |-> Or(d.lifespan, Infinite),
          liveliness |-> Or(d.liveliness, "Automatic"), lease |-> Or(d.lease, Infinite)]

=============================================================================
