------------------------------- MODULE MCData -------------------------------
(***************************************************************************)
(* The pure parts of the system, checked against what they promise over    *)
(* all inputs of a small domain, and the small state machines of rmw and   *)
(* the code generator.  A state is one input of one part, or a state of    *)
(* one of the machines.                                                    *)
(***************************************************************************)
EXTENDS MCCodegen, MCQos, MCSources, MCBindings, MCContext, TypeDiscovery, Events,
        RmwContext, NewDataCallback

\* Names of up to three tokens and some longer ones; a namespace of each sort.
Texts == UNION {[1..n -> {"/", "~", "a", "9", "%"}] : n \in 0..3}
         \cup {<<"/", "a", "/", "b">>, <<"a", "/", "b", "/">>, <<"~", "/", "a", "/">>,
               <<"~", "/", "a", "/", "b">>, <<"/", "a", "/", "a", "/">>}
Namespaces == {<<>>, <<"/">>, <<"a">>, <<"/", "a">>, <<"/", "a", "/", "b">>, <<"/", "a", "/">>, <<"9">>}
Named == {[topic |-> t, ns |-> ns, node |-> <<"n">>] : t \in Texts, ns \in Namespaces}

Qualified(y) == qualify_topic_name(y.topic, y.ns, y.node)
Usable(y) == Qualified(y) # NameError /\ ValidKeyExpr(StripSuffix(StripPrefix(Qualified(y))))
NodeOf(y) == [domain |-> "0", zid |-> "z", id |-> "1", ns |-> y.ns, name |-> y.node]
TypeInfos == {<<>>, <<<<"T">>, "h">>, <<<<"T">>, "zero">>}
Endpoint(y, role, type) ==
    [kind |-> role, node |-> NodeOf(y), id |-> "2", topic |-> Qualified(y), type |-> type,
     qos |-> "q"]
\* The endpoints of an input that can be declared at all.
Declared(y, liveliness(_)) ==
    {e \in {Endpoint(y, k, t) : k \in {"Publisher", "Client"}, t \in TypeInfos} :
       Qualified(y) # NameError /\ liveliness(e) # NameError}

\* Two nodes that publish one topic, each with a version of the type or another
\* type; the second may have the name of the first (in another domain).
MadeBy(types) == Schema("M", types)
Slashed == [name |-> <<"p", "msg", <<"M", "_">>>>, fields |-> MadeBy(<<U8>>).fields]
Nowhere == [n \in {} |-> RegisteredSchema(SchemaError)]
NodesNamed(n) ==
    {[ns |-> <<"/", "a">>, name |-> <<n>>, serving |-> v, schemas |-> s, delay |-> d] :
       v \in BOOLEAN, d \in {0, 3, 99}, s \in {Nowhere, register_schema_with_source(Nowhere, Slashed, "idl")}}
\* A publisher, whose schema may be replaced or unregistered afterwards.
Later(p) ==
    {p, [p EXCEPT !.node.schemas = register_schema(@, MadeBy(<<Prim("float64")>>))],
     [p EXCEPT !.node.schemas = unregister_schema(@, MadeBy(<<U8>>).name)]}
Publishing(node) ==
    UNION {Later(create_dyn_pub(node, v)) : v \in {MadeBy(<<U8>>), Slashed, MadeBy(<<Message(Outer), BoundedString(2)>>)}}
    \cup {[node |-> node, type |-> <<>>, hash |-> ZeroHash],
          [node |-> node, type |-> DdsName(MadeBy(<<U8>>).name), hash |-> ZeroHash]}
Seen(pubs, k) == [i \in 1..RETRIES + 1 |-> IF i < k THEN <<>> ELSE pubs]
DiscoveryInputs ==
    {[pubs |-> <<p, q>>, after |-> k, timeout |-> t] :
       p \in UNION {Publishing(n) : n \in NodesNamed("a")}, k \in {3, 7}, t \in {0, 3},
       q \in {create_dyn_pub(n, MadeBy(<<v>>)) : v \in {U8, Prim("float64")},
                n \in {m \in NodesNamed("a") \cup NodesNamed("b") : m.schemas = Nowhere}}}

Inputs(p) ==
    CASE p = "qos" -> QosProfiles
      [] p = "rmw qos" -> RmwProfiles
      [] p = "offers" -> {<<r, s>> : r \in RmwOffers, s \in {s \in RmwOffers : s.lease # 0}}
      [] p = "names" -> Named
      [] p = "cdr" -> CdrInputs
      [] p = "schemas" -> SchemaInputs
      [] p = "parsed" -> ParsedInputs
      [] p = "lines" -> LineInputs
      [] p = "packages" -> PackageInputs
      [] p = "files" -> FileInputs
      [] p = "objects" -> ObjectInputs
      [] p = "bindings" -> BoundInputs
      [] p = "protos" -> ProtoInputs
      [] p = "builds" -> BuildInputs
      [] p = "discovery" -> DiscoveryInputs
      [] p = "contexts" -> ContextInputs
      [] p = "configs" -> ConfigInputs

Parts == {"qos", "rmw qos", "offers", "names", "cdr", "schemas", "parsed",
          "lines", "packages", "files", "objects", "bindings", "protos", "builds", "discovery",
          "contexts", "configs"}

\* Each machine runs in a part of its own; elsewhere the generator has ended and
\* the others do not start.
NothingToGenerate ==
    /\ config = [humble |-> FALSE, external |-> FALSE, local |-> {}]
    /\ files = [messages |-> {}, services |-> {}, actions |-> {}]
    /\ stage = "done" /\ queue = <<>> /\ iterations = 0 /\ last_queue_size = 0 /\ stagnant = 0
    /\ type_descriptions = [k \in {} |-> Zero] /\ resolved = [k \in {} |-> Zero]
    /\ services = {} /\ actions = {} /\ generated = [defined |-> {}, named |-> {}]

Init == /\ \/ part \in Parts /\ x \in Inputs(part) /\ NothingToGenerate
           \/ part \in {"events", "rmw", "callbacks"} /\ x = <<>> /\ NothingToGenerate
           \/ part = "generator" /\ x = <<>> /\ GenInit
        /\ EventInit /\ RmwInit
        /\ CallbackInit /\ (part # "callbacks" => kind = "subscription")
Next == /\ UNCHANGED <<part, x>>
        /\ \/ GenNext /\ UNCHANGED <<eventVars, optionVars, context, callbackVars>>
           \/ part = "events" /\ EventNext /\ UNCHANGED <<genVars, optionVars, context, callbackVars>>
           \/ part = "rmw" /\ RmwNext /\ UNCHANGED <<genVars, eventVars, callbackVars>>
           \/ part = "callbacks" /\ CallbackNext /\ UNCHANGED <<genVars, eventVars, optionVars, context>>
Spec == Init /\ [][Next]_<<part, x, genVars, eventVars, optionVars, context, callbackVars>>

\* The parsed messages alone.
HashSpec ==
    /\ Init /\ part = "parsed"
    /\ [][Next]_<<part, x, genVars, eventVars, optionVars, context, callbackVars>>

-----------------------------------------------------------------------------
(* Names *)

\* A qualified name that makes a key expression (an absolute one may still hold
\* empty components, which zenoh refuses) is absolute, does not depend on how
\* the root namespace is written, and qualifies in every namespace to itself,
\* up to a final slash: only one of two final slashes is dropped.
QualifyStable ==
    part = "names" =>
       LET q == Qualified(x) IN
       /\ Qualified([x EXCEPT !.ns = normalize_namespace(@)]) = q
       /\ Usable(x) => /\ Starts(q, "/") /\ q # <<"/">>
                       /\ \A ns \in {<<>>, <<"/", "b">>} :
                             qualify_topic_name(q, ns, x.node) = StripSuffix(q)

\* An endpoint or node that was declared is discovered as what it is: its
\* liveliness token parses back to it, with the root namespace in the form
\* the graph's keys use, unless its topic holds the escape character (absolute
\* names are not validated) or, being private, ends in a slash.
TokenRoundTrip ==
    part = "names" =>
       /\ \A e \in Declared(x, liveliness_key_expr) :
             ~Mentions(e.topic, "%") /\ ~Ends(e.topic, "/") =>
                parse_liveliness(liveliness_key_expr(e)) =
                   [e EXCEPT !.node.ns = normalize_namespace(@)]
       /\ node_liveliness_key_expr(NodeOf(x)) # NameError =>
             node_key(parse_liveliness(node_liveliness_key_expr(NodeOf(x))).node) =
                node_key(NodeOf(x))

\* A ros2dds token gives kind, type and QoS back, and the topic without the
\* slash it starts with.
DdsTokenRoundTrip ==
    part = "names" =>
       \A e \in Declared(x, dds_liveliness_key_expr) :
          dds_parse_liveliness(dds_liveliness_key_expr(e)) =
             [kind |-> e.kind, zid |-> e.node.zid, topic |-> StripSuffix(Tail(e.topic)),
              type |-> IF e.type = <<>> THEN <<>> ELSE e.type[1],
              qos |-> IF e.kind = "Client" THEN "default" ELSE e.qos]

\* Endpoints meet on a topic key exactly if they have the topic and the type in
\* common: whatever namespace the name was written in.  With ros2dds the topic
\* alone decides.
KeysSeparate ==
    part = "names" /\ Usable(x) =>
       \A t \in {<<"/", "a">>, <<"/", "a", "/", "a">>, <<"/", "a", "/", "b">>} : \A u, v \in TypeInfos :
          LET e == Endpoint(x, "Publisher", u)
              f == [Endpoint(x, "Subscription", v) EXCEPT !.topic = t]
          IN  /\ topic_key_expr(e) = topic_key_expr(f) <=> StripSuffix(e.topic) = t /\ u = v
              /\ dds_topic_key_expr(e) = dds_topic_key_expr(f) <=> StripSuffix(e.topic) = t

\* A name is remapped by the rule that was given last for it, and by one only:
\* the name that a rule puts in its place is not looked up again.
RemapDirect ==
    part = "names" =>
       LET b == <<"b">>
           rules == add_rule(add_rule(add_rule({}, x.topic, x.ns), b, x.topic), x.topic, b)
       IN  /\ apply(rules, x.topic) = IF x.topic = <<>> THEN x.topic ELSE b
           /\ apply(rules, b) = IF x.topic = <<>> THEN b ELSE x.topic
           /\ \A n \in {<<"c">>, <<"/">> \o x.topic} : n # x.topic => apply(rules, n) = n

\* An action is listed under the name its server qualified, once, whatever
\* other topics and services it has.
ActionsListed ==
    part = "names" =>
       LET topics == {action_topic(x.topic, x.ns, x.node, w) : w \in {"feedback", "status"}}
                     \cup {<<"/", "a", "/", "feedback">>}
       IN  filter_action_names(topics) =
              IF Qualified(x) = NameError THEN {} ELSE {Qualified(x)}
-----------------------------------------------------------------------------
(* Discovery of types: x is what two publishers' nodes serve *)

CallLimit == 4
FoundFor(y) ==
    get_type_description_for_topic({y.pubs[1].node, y.pubs[2].node}, Seen(y.pubs, y.after), y.timeout, CallLimit)

\* A subscription made from a discovered schema reads what the first publisher
\* writes: it has its type and hash, and the schema has that hash, although any
\* node may have answered, and with another version of the type registered.
DiscoveredIsPublished ==
    part = "discovery" =>
       \A found \in {FoundFor(x)} :
       found.schema # SchemaError =>
          /\ compute_type_hash(found.schema) = x.pubs[1].hash
          /\ create_dyn_sub_auto(found) = create_dyn_sub(found.schema)
          /\ create_dyn_sub_auto(found).type = x.pubs[1].type

\* Discovery succeeds only if the node of some publisher serves the first
\* publisher's type, and if one does, nobody else has that node's name and all
\* nodes have the service and answer at once, it succeeds.
DiscoveryFinds ==
    part = "discovery" =>
       \A found \in {FoundFor(x)} :
       LET serves(p) == \E r \in {x.pubs[1]} :
              /\ r.type # <<>> /\ p.node.serving
              /\ build_response(p.node.schemas, [type |-> normalize_type_name(r.type), hash |-> r.hash,
                                                 sources |-> FALSE]).successful
           quick(p) == p.node.serving /\ p.node.delay = 0
       IN  /\ found.schema # SchemaError => \E i \in 1..2 : serves(x.pubs[i])
           /\ (\E i \in 1..2 : serves(x.pubs[i])) /\ quick(x.pubs[1]) /\ quick(x.pubs[2])
              /\ x.pubs[1].node.name # x.pubs[2].node.name /\ x.after <= RETRIES + 1
              => found.schema # SchemaError

\* The client asks for the name the node serves, in whatever way its namespace
\* is written and after the token's round trip, and a publisher is looked up
\* under the topic it declared if that is given in full, without a final slash.
TypeServiceMeets ==
    part = "names" =>
       LET token == node_liveliness_key_expr(NodeOf(x))
           node == parse_liveliness(token).node
       IN  /\ Usable(x) /\ Starts(x.topic, "/") /\ ~Ends(x.topic, "/") => Discoverable(x.topic, x.ns, x.node)
           /\ (token # NameError /\ validate_namespace(x.ns)) =>
              create_service_client(ServiceName(node.ns, node.name)) = TypeService([ns |-> x.ns, name |-> x.node])
-----------------------------------------------------------------------------
(* What each part of the system promises *)

\* A name is qualified once and for all, an entity is read back from its token
\* in either format, and two topics share a key only if they can talk.
NamesFaithful == QualifyStable /\ TokenRoundTrip /\ DdsTokenRoundTrip /\ KeysSeparate /\ RemapDirect /\ ActionsListed

\* Whatever writes a message, generated code or an interpreted schema, the other
\* reads it back, and truncated bytes are refused.  The size computed before is
\* the size for numbers and arrays of them, and enough for every fixed-size
\* message and for values that need little padding.
WireAgrees == /\ CdrRoundTrip /\ DynamicAgrees /\ DefaultsSend /\ PathsAgree
              /\ FixedSizeExact /\ EstimateSuffices /\ ShmFits

\* A type description keeps its type, and the generated code and a schema at run
\* time compute one hash for a message whose references are flat.
TypesAgree == SchemaRoundTrip /\ HashesAgree

\* A field is read as it was written, a line without a bound means the same in
\* all kinds of files, and their sections hold the fields written there.
SourcesRead == FieldsRead /\ SameEverywhere /\ SectionsFound

\* What Python publishes arrives unchanged or is refused, and the generated
\* classes, registry and .proto files name what the generated Rust defines.
BindingsAgree == PyDelivers /\ PyDefaultsSend /\ NamesMeet /\ ProtosCompile

\* What is generated does not depend on the order of the files and refers to what
\* exists; the resolver gives up only after a row of failed attempts.
GeneratorSound == HashIgnoresOrder /\ StallsAfterAttempts /\ ServiceHashClosed /\ PathsExist /\ BuildFinds

\* Discovery finds the type that the first publisher published and no other, if
\* some publisher's node serves it and answers at once; how long it takes
\* otherwise is not bounded here.
DiscoverySound == DiscoveredIsPublished /\ DiscoveryFinds /\ TypeServiceMeets

\* A context is configured by whoever has priority, whatever the order of the
\* setters.
ContextsSound == ConfigPriority /\ SettersCommute /\ BuilderFaithful
=============================================================================
