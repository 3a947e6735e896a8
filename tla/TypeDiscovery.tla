---------------------------- MODULE TypeDiscovery ----------------------------
(***************************************************************************)
(* Discovery of a topic's type (dynamic/type_description_service.rs and    *)
(* type_description_client.rs, and the dynamic publishers and              *)
(* subscriptions of node.rs): a node serves the schemas registered with    *)
(* it; a client asks the nodes that publish on a topic, one after the      *)
(* other, for the type of the first publisher.                             *)
(*                                                                         *)
(* Schemas and hashes are those of TypeHash, names those of Names.  A node *)
(* is [ns, name, serving, schemas, delay]: whether it has the service, what *)
(* is registered with it and how long it takes to answer.  Time is counted *)
(* in the client's waits of 500 ms.                                        *)
(***************************************************************************)
EXTENDS TypeHash, Names

Hash(name) == [desc |-> [name |-> name, fields |-> <<>>], refs |-> {}]
AnyHash == Hash(<<"">>)          \* the empty string in a request
ZeroHash == Hash(<<"zero">>)     \* TypeHash::zero, which is no schema's hash

-----------------------------------------------------------------------------
(* The service.  schemas maps type names to registered schemas. *)

NoSource == "no source"
RegisteredSchema(s) == [schema |-> s, hash |-> compute_type_hash(s), source |-> NoSource]
with_source(s, source) == [RegisteredSchema(s) EXCEPT !.source = source]

Inserted(schemas, name, r) ==
    [n \in DOMAIN schemas \cup {name} |-> IF n = name THEN r ELSE schemas[n]]
register_schema(schemas, s) == Inserted(schemas, s.name, RegisteredSchema(s))
register_schema_with_source(schemas, s, source) == Inserted(schemas, s.name, with_source(s, source))
unregister_schema(schemas, name) == [n \in DOMAIN schemas \ {name} |-> schemas[n]]

field_to_wire(f) ==
    [name |-> f.name,
     field_type |-> [type_id |-> f.type.id, capacity |-> f.type.capacity,
                     string_capacity |-> f.type.strings, nested_type_name |-> f.type.nested]]
individual_to_wire(d) ==
    [type_name |-> d.name, fields |-> [i \in DOMAIN d.fields |-> field_to_wire(d.fields[i])]]
schema_to_wire_type_description(s) ==
    LET msg == to_type_description_msg(s)
    IN  [type_description |-> individual_to_wire(msg.desc),
         referenced_type_descriptions |-> {individual_to_wire(d) : d \in msg.refs}]

wire_to_schema_field(w) ==
    [name |-> w.name,
     type |-> TypeDesc(w.field_type.type_id, w.field_type.capacity,
                       w.field_type.string_capacity, w.field_type.nested_type_name)]
wire_to_schema_individual(w) ==
    [name |-> w.type_name, fields |-> [i \in DOMAIN w.fields |-> wire_to_schema_field(w.fields[i])]]
wire_to_schema_type_description(w) ==
    [desc |-> wire_to_schema_individual(w.type_description),
     refs |-> {wire_to_schema_individual(d) : d \in w.referenced_type_descriptions}]

\* The sources of the type and of those it refers to, as far as they are registered.
collect_type_sources(r, schemas) ==
    LET named == {r.schema.name} \cup {d.name : d \in to_type_description_msg(r.schema).refs}
    IN  {[type |-> n, source |-> schemas[n].source] :
           n \in {m \in named \cap DOMAIN schemas : schemas[m].source # NoSource}}

Failure(reason) == [successful |-> FALSE, reason |-> reason]

build_response(schemas, request) ==
    IF request.type \notin DOMAIN schemas THEN Failure("not registered")
    ELSE LET r == schemas[request.type] IN
         IF request.hash \notin {AnyHash, r.hash} THEN Failure("hash mismatch")
         ELSE [successful |-> TRUE,
               description |-> schema_to_wire_type_description(r.schema),
               sources |-> IF request.sources THEN collect_type_sources(r, schemas) ELSE {}]

\* A request that has no payload or does not deserialize gets no reply.
NoRequest == [type |-> <<>>]
handle_query(schemas, request) ==
    {build_response(schemas, q) : q \in {request} \ {NoRequest}}

\* The service is private to its node and, whatever the node's domain, in domain 0.
TypeService(node) ==
    <<"0", qualify_topic_name(<<"~", "get_type_description">>, node.ns, node.name)>>

-----------------------------------------------------------------------------
(* The client *)

\* "p::msg::dds_::T_" and back: the type's own final underscores go as well.
DdsName(name) == name \o <<"_">>
normalize_type_name(dds) ==
    <<dds[1], dds[2], IF dds[3][2] = "_" THEN Plain(dds[3][1]) ELSE dds[3]>>

ServiceName(ns, name) ==
    (IF ns \in {<<>>, <<"/">>} THEN <<>> ELSE ns)
    \o <<"/">> \o name \o <<"/", "get_type_description">>

\* The client's node is in domain 0 and the root namespace.
create_service_client(service) == <<"0", qualify_topic_name(service, <<>>, <<"n">>)>>

NoAnswer == [reason |-> "timed out", successful |-> FALSE]

\* The first reply of all nodes that serve the name, and the time it took.
FirstOf(answers, limit) ==
    IF answers = {} THEN [response |-> NoAnswer, time |-> limit]
    ELSE CHOOSE a \in answers : \A b \in answers : a.time <= b.time
get_type_description(network, node, request, limit) ==
    LET key == create_service_client(ServiceName(node.ns, node.name))
        asked == {n \in network : n.serving /\ TypeService(n) = key /\ n.delay <= limit}
    IN  FirstOf(UNION {{[response |-> r, time |-> n.delay] : r \in handle_query(n.schemas, request)} :
                         n \in asked}, limit)

response_to_schema(r) ==
    IF ~r.successful THEN SchemaError
    ELSE type_description_msg_to_schema(wire_to_schema_type_description(r.description))

NotFound(time) == [schema |-> SchemaError, hash |-> ZeroHash, time |-> time]
RETRIES == 5

\* One query of the loop; a response that does not convert ends it as well.
Outcome(acc, a) ==
    [done |-> a.response.successful, schema |-> response_to_schema(a.response), time |-> acc.time + a.time]
Query(network, p, request, limit, acc) ==
    Outcome(acc, get_type_description(network, p.node, request, limit))
Unasked == [done |-> FALSE, schema |-> SchemaError, time |-> 0]

\* A mutant: only the first publisher's node is asked.
QueryAll_First(network, pubs, request, timeout, limit) ==
    Query(network, pubs[1], request, limit, Unasked)

\* The publishers' nodes in turn, as long as the deadline has not passed.
QueryAll(network, pubs, request, timeout, limit) ==
    FoldLeft(LAMBDA acc, p : IF acc.done \/ acc.time > timeout THEN acc
                             ELSE Query(network, p, request, limit, acc),
             Unasked, pubs)

\* i is the first wait after which the topic has publishers, pubs.
DescriptionOf(network, pubs, i, timeout, limit) ==
    LET first == pubs[1]
        request == [type |-> normalize_type_name(first.type), hash |-> first.hash, sources |-> FALSE]
        found(answer) == [schema |-> answer.schema, hash |-> first.hash, time |-> i - 1 + answer.time]
    IN  IF first.type = <<>> THEN NotFound(i - 1)
        ELSE found(QueryAll(network, pubs, request, timeout, limit))

\* sightings[i] is what the graph knows of the topic before the i-th wait.
get_type_description_for_topic(network, sightings, timeout, limit) ==
    LET seen == {i \in 1..RETRIES + 1 : sightings[i] # <<>>}
        first == CHOOSE j \in seen : \A k \in seen : j <= k
    IN  IF seen = {} THEN NotFound(RETRIES)
        ELSE DescriptionOf(network, sightings[first], first, timeout, limit)

-----------------------------------------------------------------------------
(* node.rs: dynamic publishers and subscriptions *)

\* The endpoint a dynamic publisher or subscription declares; a publisher's schema
\* is registered first if its node has the service.  compute_type_hash has no
\* branch that fails, so the zero hash of its error case is never declared.
create_dyn_pub(node, s) ==
    [node |-> IF node.serving THEN [node EXCEPT !.schemas = register_schema(@, s)] ELSE node,
     type |-> DdsName(s.name), hash |-> compute_type_hash(s)]
create_dyn_sub(s) == [type |-> DdsName(s.name), hash |-> compute_type_hash(s)]
\* The graph is asked for the topic as it was given.
Discoverable(topic, ns, node) == qualify_topic_name(topic, ns, node) = topic
create_dyn_sub_auto(found) == [type |-> DdsName(found.schema.name), hash |-> found.hash]
=============================================================================
