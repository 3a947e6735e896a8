----------------------------- MODULE MCBindings -----------------------------
(***************************************************************************)
(* Inputs and properties of Bindings: messages and Python objects of many  *)
(* types, and packages whose names come close to each other.               *)
(***************************************************************************)
EXTENDS MCMessages, Bindings, Build

-----------------------------------------------------------------------------
(* Objects: x is a message type and a Python object of its class *)

TimeMessage == Message(Schema("Time", <<Prim("int32"), Prim("uint32")>>))
ReferenceMessage == Message(Schema("TimeReference", <<Prim("string")>>))
StringMessage == Message(Schema("String", <<Prim("string")>>))
PointMessage == Message(Schema("Point", <<Prim("float64"), Prim("int8")>>))

BridgedTypes ==
    {Prim("bool"), Prim("int8"), Prim("uint16"), Prim("float64"), Prim("string"), PointMessage,
     TimeMessage, ReferenceMessage, StringMessage}
Bridged ==
    BridgedTypes \cup {Collection(k, t, 2) : k \in {"Fixed", "Bounded", "Unbounded"},
                                             t \in BridgedTypes \cup {U8}}
    \cup {Collection("Fixed", t, 33) : t \in {U8, PointMessage}}

Ints == {<<"int", n>> : n \in {-1, 0, 7, 200, 300}}
PointObject == <<"obj", <<<<"float", 3>>, <<"int", -1>>>>>>
StringObject == <<"obj", <<<<"str", <<65>>>>>>>>
Atoms == Ints \cup {<<"bool", 1>>, <<"float", 2>>, <<"str", <<65>>>>, None, <<"dict", <<0, 0>>>>,
                    PointObject, StringObject}
PyObjects ==
    Atoms \cup {<<"list", [i \in 1..n |-> a]>> : a \in Atoms, n \in 0..3}
    \cup {<<k, b>> : k \in {"bytes", "bytearray"}, b \in {<<>>, <<7, 200>>}}
ObjectInputs == {[type |-> Message(Schema("M", <<t, U8>>)), obj |-> <<"obj", <<p, <<"int", 9>>>>>>] :
                   t \in Bridged, p \in PyObjects}

\* What Python gave and what Python gets are the same, up to the classes that
\* stand for bytes and for numbers, to None for a message, and to the length of
\* a list where the type has a fixed one.
RECURSIVE SameForPython(_, _, _)
SameForPython(t, p, q) ==
    CASE p = None -> t.k = "Message" /\ q = into_py_message(t, rust_default(t))
      [] IsNumber(t) -> p[2] = q[2]
      [] IsString(t) -> p = q
      [] t.k = "Message" -> \A i \in DOMAIN q[2] : SameForPython(t.schema.fields[i].type, p[2][i], q[2][i])
      [] t.k = "Fixed" -> /\ Len(q[2]) = t.n
                          /\ \A i \in 1..t.n : IF i <= Len(p[2]) THEN SameForPython(t.of, Items(p)[i], Items(q)[i])
                                               ELSE Items(q)[i] = generate_field_construction(t.of, rust_default(t.of))
      [] OTHER -> /\ Len(q[2]) = Len(p[2])
                  /\ \A i \in DOMAIN p[2] : SameForPython(t.of, Items(p)[i], Items(q)[i])

\* A message that Python publishes arrives as it was, in Python and in Rust, on
\* both ways to the bytes; what does not fit its type is refused, not changed.
PyDelivers ==
    part = "objects" /\ Compiles(x.type) =>
       LET in == serialize_to_zbuf(x.type, x.obj) IN
       /\ in = generate_serialize_function(x.type, x.obj)
       /\ in # Raised =>
             LET out == generate_deserialize_function(x.type, in[2]) IN
             /\ out # Raised
             /\ SameForPython(x.type, x.obj, out[2])
             /\ from_cdr(in[2], x.type).ok
             /\ from_py(x.type, out[2]) = Extracted(from_cdr(in[2], x.type).val)
             /\ generate_deserialize_function(x.type, SubSeq(in[2], 1, Len(in[2]) - 1)) = Raised

\* A class without arguments makes the message that Default makes in Rust, if
\* none of its fields is a message that looks like a time.
PyDefaultsSend ==
    part = "objects" /\ Compiles(x.type) =>
       LET timelike(t) == t.k = "Message" /\ MessageName(t) \in Timelike IN
       (\A t \in Range(FieldTypes(x.type.schema)) : ~timelike(t)) =>
          from_py(x.type, generate_msgspec_struct(x.type)) = Extracted(rust_default(x.type))

-----------------------------------------------------------------------------
(* Packages: x is the messages and services of one *)

MessageNames == {<<"Foo">>, <<"foo">>, <<"Bar">>}
ServiceNames == {<<"Foo">>, <<"foo">>, <<"Foo", "Response">>, <<"Foo", "Request">>, <<"Bar">>}
BoundInputs == [name : {"p"}, msgs : SUBSET MessageNames, srvs : SUBSET ServiceNames]
Supported == {<<"p", "msg", <<"Foo">>>>, <<"p", "srv", <<"Foo">>>>}
EndsPlainly(s) == Last(s) \notin {"Request", "Response"}

\* A class leads to the functions of its own struct, and a publisher or client
\* made from it to the type and hash that Rust's peers use.  Of services whose
\* own name ends in Request or Response nothing is claimed: trimming their
\* classes' names cuts more than was added.
NamesMeet ==
    /\ part = "bindings" /\ generate_complete_rust_module(x) =>
       LET registry == generate_registry_registrations(x) IN
       \A c \in PythonClasses(x) :
          LET p == create_publisher(c, Supported)
              t == extract_service_type_from_request_class(c)
              s == c.hash[2]
          IN  IF c.hash[1] = "msg"
              THEN /\ registry[msgtype(c)] = c.name
                   /\ p \in {Unsupported, [key |-> msgtype(c), info |-> generate_message_type_info(x.name, c.name)]}
              ELSE /\ msgtype(c) \in DOMAIN registry => c.name \in x.msgs
                   /\ EndsPlainly(s) =>
                        /\ t.info = generate_service_impl(x.name, s)
                        /\ {RequestKey(t.key), ResponseKey(t.key)} \subseteq DOMAIN registry
                        /\ registry[RequestKey(t.key)] = Request(s)
                        /\ registry[ResponseKey(t.key)] = Response(s)
                        /\ create_client(c, Supported) \in {t, Unsupported}
    /\ part = "bindings" => DOMAIN generate_registry_registrations(x) \subseteq generate_helper_functions(x)

-----------------------------------------------------------------------------
(* Protobuf: x is a set of resolved messages *)

ProtoField(pkg, base) == [pkg |-> pkg, base |-> base, array |-> FALSE]
ProtoMessages ==
    {[pkg |-> "p", name |-> "UUID", fields |-> <<ProtoField("none", "char"), ProtoField("q", "Point")>>],
     [pkg |-> "p", name |-> "GPSFix", fields |-> <<ProtoField("p", "UUID")>>],
     [pkg |-> "q", name |-> "Point", fields |-> <<ProtoField("none", "int8")>>],
     [pkg |-> "q", name |-> "ColorRGBA", fields |-> <<ProtoField("none", "Point"), ProtoField("p", "GPSFix")>>],
     [pkg |-> "r", name |-> "Point", fields |-> <<ProtoField("q", "Point"), ProtoField("p", "UUID")>>]}
RefersTo(m) == {<<IF f.pkg = "none" THEN m.pkg ELSE f.pkg, f.base>> :
                  f \in {g \in Range(m.fields) : g.base \notin DOMAIN ProtoType}}
ProtoInputs ==
    {ms \in SUBSET ProtoMessages : \A m \in ms : RefersTo(m) \subseteq {<<o.pkg, o.name>> : o \in ms}}

\* What protoc asks for: a type is in the file itself or in one it imports, and
\* an import is a file; files import each other in a circle only if messages of
\* their packages refer to each other, in which case nothing more is claimed.  A
\* struct that gets its type information is one that prost generated, for names
\* without acronyms and those in the table.
ProtosCompile ==
    part = "protos" =>
       LET protos == generate_proto_files(x)
           defined(pkg) == {<<pkg, m.name>> : m \in protos[pkg].messages}
           mutual(p, q) == /\ \E m \in x : m.pkg = p /\ \E r \in RefersTo(m) : r[1] = q
                           /\ \E m \in x : m.pkg = q /\ \E r \in RefersTo(m) : r[1] = p
           named(m) == {m.fields[i].type : i \in DOMAIN m.fields}
           spelled == {m \in x : m.name # "GPSFix"}
       IN  /\ \A p, q \in DOMAIN protos :
                 p \in protos[q].imports /\ q \in protos[p].imports => p # q /\ mutual(p, q)
           /\ \A p \in DOMAIN protos :
                 /\ protos[p].imports \subseteq DOMAIN protos
                 /\ \A m \in protos[p].messages : \A t \in named(m) :
                       Len(t) = 2 => t \in UNION {defined(q) : q \in {p} \cup protos[p].imports}
           /\ {i.struct : i \in generate_type_info_impls(spelled)} \subseteq generate_rust_from_proto(protos)
           /\ \A i, j \in generate_type_info_impls(x) : i.struct = j.struct => i = j

-----------------------------------------------------------------------------
(* Builds: x is an environment and what it is asked to build *)

Asked == {"builtin_interfaces", "action_msgs", "unique_identifier_msgs", "service_msgs",
          "type_description_interfaces", "std_msgs"}
Places == {[pkgs |-> p, headers |-> h] : p \in {{}, {"std_msgs"}, Asked}, h \in BOOLEAN}
SetTo(prefixes) == [set |-> TRUE, prefixes |-> prefixes]
PrefixLists == {Unset, SetTo(<<>>)} \cup {SetTo(<<a>>) : a \in Places}
BuildInputs ==
    [humble : BOOLEAN, features : {{}, {"std_msgs"}}, ament : PrefixLists,
     cmake : {Unset, SetTo(<<[pkgs |-> Asked, headers |-> TRUE]>>)},
     opt : {<<>>, <<[pkgs |-> {}, headers |-> TRUE], [pkgs |-> {"std_msgs"}, headers |-> TRUE]>>},
     bundle : {{}, {"std_msgs"}, Asked}]

\* Where everything that is asked for is bundled, what is built does not depend on
\* the installed system, except for the release, and that only through
\* AMENT_PREFIX_PATH; where nothing is, it is what the system has.  Of a bundle
\* with some of the packages only those are claimed to be built.
BuildFinds ==
    part = "builds" =>
       LET humble == detect_ros_version(x)
           names == get_all_packages(x, humble)
           built == discover_ros_packages(x, humble).pkgs
       IN  /\ x.ament = Unset => humble = x.humble
           /\ names \cap x.bundle \subseteq built /\ built \subseteq names
           /\ names \subseteq x.bundle => built = names
           /\ names \cap x.bundle = {} => built = discover_system_packages(x, names)

=============================================================================
