------------------------------- MODULE Names -------------------------------
(***************************************************************************)
(* Names and key expressions: qualification of topic and service names     *)
(* (topic_name.rs), remapping, the key expressions and liveliness tokens   *)
(* of rmw_zenoh and ros2dds (ros-z-protocol), and action names.            *)
(*                                                                         *)
(* A text is a sequence of tokens: "/" and "~", the escape characters "%"  *)
(* and "S" (the section sign of ros2dds), letters, digits and, in key      *)
(* expressions, the text of a number, kind, hash or QoS as one token.      *)
(***************************************************************************)
EXTENDS Naturals, Sequences, SequencesExt

Letters == {"a", "b", "n", "_action", "feedback", "T", "get_type_description"}
Digits == {"9"}
NameError == <<"error">>

\* str::split('/').
Split(s) ==
    FoldLeft(LAMBDA acc, t : IF t = "/" THEN Append(acc, <<>>)
                             ELSE [acc EXCEPT ![Len(acc)] = Append(@, t)],
             <<<<>>>>, s)
Join(chunks) ==
    FoldLeft(LAMBDA acc, c : acc \o <<"/">> \o c, Head(chunks), Tail(chunks))

Starts(s, t) == s # <<>> /\ s[1] = t
Ends(s, t) == s # <<>> /\ s[Len(s)] = t
StripPrefix(s) == IF Starts(s, "/") THEN Tail(s) ELSE s
StripSuffix(s) == IF Ends(s, "/") THEN SubSeq(s, 1, Len(s) - 1) ELSE s
Replace(s, t, u) == [i \in 1..Len(s) |-> IF s[i] = t THEN u ELSE s[i]]
Mentions(s, t) == \E i \in 1..Len(s) : s[i] = t

-----------------------------------------------------------------------------
(* topic_name.rs *)

is_valid_topic_component(c) ==
    /\ c # <<>> /\ c[1] \in Letters
    /\ \A i \in 1..Len(c) : c[i] \in Letters \cup Digits

Components(s) ==
    \A i \in 1..Len(Split(s)) :
       Split(s)[i] = <<>> \/ is_valid_topic_component(Split(s)[i])

validate_namespace(ns) == ns \in {<<>>, <<"/">>} \/ (~Ends(ns, "/") /\ Components(ns))
validate_node_name(n) == is_valid_topic_component(n)

Under(ns, s) ==
    LET root == ns \in {<<>>, <<"/">>}
    IN  (IF root THEN <<>> ELSE IF Starts(ns, "/") THEN ns ELSE <<"/">> \o ns) \o <<"/">> \o s

qualify_absolute(t) == IF StripSuffix(t) \in {<<>>, <<"/">>} THEN NameError ELSE StripSuffix(t)

qualify_private(t, ns, node) ==
    LET suffix == StripPrefix(Tail(t)) IN
    IF ~Components(suffix) THEN NameError
    ELSE Under(ns, IF suffix = <<>> THEN node ELSE node \o <<"/">> \o suffix)

qualify_relative(t, ns) ==
    IF Components(StripSuffix(t)) THEN Under(ns, StripSuffix(t)) ELSE NameError

qualify_topic_name(t, ns, node) ==
    IF t = <<>> \/ ~validate_namespace(ns) \/ ~validate_node_name(node) THEN NameError
    ELSE CASE Starts(t, "/") -> qualify_absolute(t)
           [] Starts(t, "~") -> qualify_private(t, ns, node)
           [] OTHER -> qualify_relative(t, ns)

\* RemapRules: the whole name, once.
add_rule(rules, from, to) ==
    IF from = <<>> \/ to = <<>> THEN rules
    ELSE {r \in rules : r[1] # from} \cup {<<from, to>>}
apply(rules, name) ==
    IF \E r \in rules : r[1] = name THEN (CHOOSE r \in rules : r[1] = name)[2] ELSE name

\* ZNodeBuilder::with_namespace, node_key and rmw's normalize_namespace.
normalize_namespace(ns) == IF ns = <<"/">> THEN <<>> ELSE ns
node_key(node) == <<normalize_namespace(node.ns), node.name>>

-----------------------------------------------------------------------------
(* Key expressions.  zenoh refuses a text with an empty chunk. *)

ValidKeyExpr(s) == \A i \in 1..Len(Split(s)) : Split(s)[i] # <<>>
KeyExpr(s) == IF ValidKeyExpr(s) THEN s ELSE NameError

KindText == [Node |-> "NN", Publisher |-> "MP", Subscription |-> "MS",
             Service |-> "SS", Client |-> "SC"]
EntityKinds == DOMAIN KindText
from_str(t) == IF \E k \in EntityKinds : KindText[k] = t
               THEN CHOOSE k \in EntityKinds : KindText[k] = t ELSE "Error"

\* TypeHash: version 1 is the only one that is read back.
to_rihs_string(h) == IF h = "zero" THEN "RIHS01_00" ELSE IF h = "h" THEN "RIHS01_h" ELSE "RIHS02_"
from_rihs_string(t) == CASE t = "RIHS01_h" -> "h"
                         [] t \in {"RIHS01_00", "TypeHashNotSupported"} -> "zero"
                         [] OTHER -> "version 0"

mangle_name(s, esc) == Replace(s, "/", esc)
demangle_name(s, esc) == Replace(s, esc, "/")
OrPlaceholder(ns) == IF ns = <<>> THEN <<"%">> ELSE mangle_name(ns, "%")
TypeChunks(e) ==
    IF e.type = <<>> THEN <<<<"EMPTY_TOPIC_TYPE">>, <<"EMPTY_TOPIC_HASH">>>>
    ELSE <<mangle_name(e.type[1], "%"), <<to_rihs_string(e.type[2])>>>>

topic_key_expr(e) ==
    KeyExpr(Join(<<<<e.node.domain>>, StripSuffix(StripPrefix(e.topic))>>
                 \o IF e.type = <<>> THEN TypeChunks(e)
                    ELSE <<demangle_name(e.type[1], "%"), <<to_rihs_string(e.type[2])>>>>))

NodeChunks(node, id, kind) ==
    <<<<"@ros2_lv">>, <<node.domain>>, <<node.zid>>, <<node.id>>, <<id>>, <<kind>>,
      <<"%">>, OrPlaceholder(node.ns), mangle_name(node.name, "%")>>

\* A mutant: slashes stay in the topic name, as they do in topic_key_expr.
liveliness_key_expr_Slashes(e) ==
    KeyExpr(Join(NodeChunks(e.node, e.id, KindText[e.kind])
                 \o <<StripPrefix(StripSuffix(e.topic))>> \o TypeChunks(e) \o <<<<e.qos>>>>))

EndpointChunks(e) ==
    NodeChunks(e.node, e.id, KindText[e.kind])
    \o <<mangle_name(StripSuffix(e.topic), "%")>> \o TypeChunks(e) \o <<<<e.qos>>>>
liveliness_key_expr(e) == KeyExpr(Join(EndpointChunks(e)))

node_liveliness_key_expr(node) == KeyExpr(Join(NodeChunks(node, node.id, "NN")))

ParseError == [kind |-> "Error"]

parse_type(t, h) ==
    IF t = <<"EMPTY_TOPIC_TYPE">> \/ h = <<"EMPTY_TOPIC_HASH">> THEN <<>>
    ELSE <<demangle_name(t, "%"), from_rihs_string(h[1])>>

parse_chunks(c) ==
    IF Len(c) < 9 \/ c[1] # <<"@ros2_lv">> \/ from_str(c[6][1]) = "Error" THEN ParseError
    ELSE LET node == [domain |-> c[2][1], zid |-> c[3][1], id |-> c[4][1],
                      ns |-> IF c[8] = <<"%">> THEN <<>> ELSE demangle_name(c[8], "%"),
                      name |-> demangle_name(c[9], "%")]
             kind == from_str(c[6][1])
         IN  CASE kind = "Node" -> [kind |-> kind, node |-> node]
               [] Len(c) < 13 -> ParseError
               [] OTHER -> [kind |-> kind, node |-> node, id |-> c[5][1],
                            topic |-> demangle_name(c[10], "%"),
                            type |-> parse_type(c[11], c[12]), qos |-> c[13][1]]
parse_liveliness(ke) == parse_chunks(Split(ke))

-----------------------------------------------------------------------------
(* ros2dds: no domain, node or hash in the token. *)

dds_topic_key_expr(e) == KeyExpr(StripSuffix(StripPrefix(e.topic)))

dds_liveliness_key_expr(e) ==
    KeyExpr(Join(<<<<"@">>, <<e.node.zid>>, <<"@ros2_lv">>, <<KindText[e.kind]>>,
                   mangle_name(StripSuffix(StripPrefix(e.topic)), "S"),
                   IF e.type = <<>> THEN <<"unknown">> ELSE mangle_name(e.type[1], "S")>>
                 \o IF e.kind \in {"Publisher", "Subscription"} THEN <<<<e.qos>>>> ELSE <<>>))

dds_parse_liveliness(ke) ==
    LET c == Split(ke)
        kind == IF Len(c) >= 4 /\ c[4][1] \in {"AS", "AC"} THEN "Service"
                ELSE IF Len(c) >= 4 THEN from_str(c[4][1]) ELSE "Error"
    IN  IF Len(c) < 6 \/ c[1] # <<"@">> \/ c[3] # <<"@ros2_lv">> \/ kind \in {"Error", "Node"}
        THEN ParseError
        ELSE [kind |-> kind, zid |-> c[2][1], topic |-> demangle_name(c[5], "S"),
              type |-> IF c[6] = <<"unknown">> THEN <<>> ELSE demangle_name(c[6], "S"),
              qos |-> IF Len(c) >= 7 THEN c[7][1] ELSE "default"]

-----------------------------------------------------------------------------
(* Action names (client.rs, server.rs, graph.rs). *)

action_topic(action, ns, node, what) ==
    LET q == qualify_topic_name(action, ns, node)
    IN  IF q = NameError THEN NameError ELSE q \o <<"/", "_action", "/", what>>

filter_action_names(topics) ==
    {SubSeq(t, 1, Len(t) - 4) :
        t \in {u \in topics : Len(u) >= 4 /\ SubSeq(u, Len(u) - 3, Len(u)) =
                                               <<"/", "_action", "/", "feedback">>}}
=============================================================================
