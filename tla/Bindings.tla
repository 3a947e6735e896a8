------------------------------ MODULE Bindings ------------------------------
(***************************************************************************)
(* The Python side: the classes and the registry that ros-z-codegen        *)
(* generates, the conversions that ros-z-derive expands for every message, *)
(* and what ros-z-py does with both.  The .proto files are at the end.     *)
(*                                                                         *)
(* A type and a Rust value are those of Cdr.  A Python value is            *)
(* <<class, contents>>: "int", "float", "bool", "str", "bytes",            *)
(* "bytearray", "list", "dict", "None", or "obj", an instance of a         *)
(* generated class with the values of its fields.                          *)
(***************************************************************************)
EXTENDS Cdr

Raised == <<"raised">>
Extracted(v) == <<"extracted", v>>
\* The first error ends a conversion.
AllOf(tag, results) ==
    IF \E i \in DOMAIN results : results[i] = Raised THEN Raised
    ELSE Extracted(<<tag, [i \in DOMAIN results |-> results[i][2]]>>)

None == <<"None", <<>>>>
MessageName(t) == t.schema.name[3][1]

-----------------------------------------------------------------------------
(* generator/rust.rs: the struct of a message *)

RustName == [bool |-> "bool", int8 |-> "i8", uint8 |-> "u8", int16 |-> "i16", uint16 |-> "u16",
             int32 |-> "i32", uint32 |-> "u32", float32 |-> "f32", int64 |-> "i64",
             uint64 |-> "u64", float64 |-> "f64"]
is_zbuf_field(t) == IsZBuf(t)

\* The last segment of the path of a field's type; "[]" is an array.
RustIdent(t) ==
    CASE IsNumber(t) -> RustName[t.k]
      [] IsString(t) -> "String"
      [] t.k = "Message" -> MessageName(t)
      [] is_zbuf_field(t) -> "ZBuf"
      [] t.k = "Fixed" -> "[]"
      [] OTHER -> "Vec"

\* Arrays of more than 32 elements need a default that is written out.
LargestArray == 32
generate_array_default_code(t) == t.n <= LargestArray \/ IsNumber(t.of)

-----------------------------------------------------------------------------
(* ros-z-derive/src/lib.rs *)

\* Only the last segment is looked at, so a message may be taken for a String.
classify_type(t) ==
    LET id == RustIdent(t) IN
    CASE id \in {RustName[k] : k \in DOMAIN RustName} -> "Primitive"
      [] id = "String" -> "String"
      [] id = "ZBuf" -> "ZBuf"
      [] id = "Vec" /\ t.k # "Message" -> "Vec"
      [] id = "[]" -> "Array"
      [] OTHER -> "Nested"

\* rustc accepts the expansion: extract() needs a Python type, and a slice of
\* an array is copied only when its elements can be.
RECURSIVE Compiles(_)
Compiles(t) ==
    CASE IsNumber(t) \/ IsString(t) -> TRUE
      [] t.k = "Message" -> classify_type(t) = "Nested"
                            /\ \A f \in Range(FieldTypes(t.schema)) : Compiles(f)
      [] t.k = "Fixed" -> Compiles(t.of) /\ ~IsString(t.of) /\ generate_array_default_code(t)
      [] OTHER -> Compiles(t.of)

\* The values of a primitive: a number is its bit pattern, an int is signed.
\* (A negative float stands for some pattern of its own.)
Half(t) == IF Width[t.k] < 4 THEN 2 ^ (8 * Width[t.k] - 1) ELSE 2 ^ 29
IsFloat(t) == t.k \in {"float32", "float64"}
Lowest(t) == IF t.k \in {"int8", "int16"} \/ IsFloat(t) THEN -Half(t) ELSE 0
Highest(t) ==
    CASE t.k = "bool" -> 1 [] t.k = "int8" -> 127 [] t.k = "uint8" -> 255
      [] t.k = "int16" -> 32767 [] t.k = "uint16" -> 65535 [] OTHER -> 2147483647
PythonClass(t) == IF t.k = "bool" THEN "bool" ELSE IF IsFloat(t) THEN "float" ELSE "int"

\* pyo3's extract() for the primitive types and String.
extract(t, p) ==
    LET n == p[2] IN
    CASE IsString(t) -> IF p[1] = "str" THEN Extracted(<<"string", n>>) ELSE Raised
      [] t.k = "bool" -> IF p[1] = "bool" THEN Extracted(<<"bool", <<n>>>>) ELSE Raised
      [] OTHER ->
            IF /\ p[1] \in {"int", "bool"} \cup (IF IsFloat(t) THEN {"float"} ELSE {})
               /\ IsFloat(t) \/ n \in Lowest(t)..Highest(t)
            THEN Extracted(<<t.k, <<IF n < 0 THEN n + 2 * Half(t) ELSE n>>>>)
            ELSE Raised

to_object(t, v) ==
    LET n == v[2][1] IN
    IF IsString(t) THEN <<"str", v[2]>>
    ELSE <<PythonClass(t), IF Lowest(t) < 0 /\ n >= Half(t) THEN n - 2 * Half(t) ELSE n>>

is_u8_type(t) == t = Prim("uint8")
U8Type == Prim("uint8")
IsBytes(p) == p[1] \in {"bytes", "bytearray"}
\* A list, or bytes, as the list it iterates as.
Items(p) == IF IsBytes(p) THEN [i \in DOMAIN p[2] |-> <<"int", p[2][i]>>] ELSE p[2]
Iterable(p) == p[1] = "list" \/ IsBytes(p)
BytesOf(items) == [i \in DOMAIN items |-> items[i][2][1]]

RECURSIVE rust_default(_)
rust_default(t) ==
    CASE IsString(t) -> <<"string", <<>>>>
      [] IsNumber(t) -> <<t.k, <<0>>>>
      [] t.k = "Message" -> <<"Message", [i \in DOMAIN t.schema.fields |->
                                            rust_default(t.schema.fields[i].type)]>>
      [] t.k = "Fixed" -> <<"Array", [i \in 1..t.n |-> rust_default(t.of)]>>
      [] IsZBuf(t) -> <<"Bytes", <<>>>>
      [] OTHER -> <<"Array", <<>>>>

\* What is too long is cut, what is too short is filled with defaults.
Fitted(t, values) ==
    [i \in 1..t.n |-> IF i <= Len(values) THEN values[i] ELSE rust_default(t.of)]

RECURSIVE generate_field_extraction(_, _)
from_py(t, obj) ==
    IF t.schema.fields # <<>> /\ (obj[1] # "obj" \/ Len(obj[2]) # Len(t.schema.fields)) THEN Raised
    ELSE AllOf("Message", [i \in DOMAIN t.schema.fields |->
                             generate_field_extraction(t.schema.fields[i].type, obj[2][i])])
generate_field_extraction(t, p) ==
    LET each(items) == AllOf("Array", [i \in DOMAIN items |->
                         IF t.of.k = "Message" THEN from_py(t.of, items[i]) ELSE extract(t.of, items[i])])
        FirstItems(n) == [i \in 1..(IF n < Len(p[2]) THEN n ELSE Len(p[2])) |-> Items(p)[i]]
        bytes == AllOf("Array", [i \in DOMAIN Items(p) |-> extract(U8Type, Items(p)[i])])
    IN  CASE classify_type(t) \in {"Primitive", "String"} -> extract(t, p)
          [] classify_type(t) = "ZBuf" ->
                IF ~Iterable(p) \/ bytes = Raised THEN Raised
                ELSE Extracted(<<"Bytes", BytesOf(bytes[2][2])>>)
          [] classify_type(t) = "Vec" -> IF Iterable(p) THEN each(Items(p)) ELSE Raised
          [] classify_type(t) = "Array" ->
                LET all == IF t.of.k = "Message" /\ Iterable(p) THEN each(FirstItems(t.n))
                           ELSE each(Items(p))
                IN  IF ~Iterable(p) \/ all = Raised THEN Raised
                    ELSE Extracted(<<"Array", Fitted(t, all[2][2])>>)
          [] classify_type(t) = "Nested" ->
                IF p = None THEN Extracted(rust_default(t)) ELSE from_py(t, p)

RECURSIVE generate_field_construction(_, _)
into_py_message(t, v) ==
    <<"obj", [i \in DOMAIN v[2] |-> generate_field_construction(t.schema.fields[i].type, v[2][i])]>>
generate_field_construction(t, v) ==
    LET list == <<"list", [i \in DOMAIN v[2] |-> generate_field_construction(t.of, v[2][i])]>> IN
    CASE classify_type(t) \in {"Primitive", "String"} -> to_object(t, v)
      [] classify_type(t) = "ZBuf" -> <<"bytes", v[2]>>
      [] classify_type(t) = "Vec" -> IF is_u8_type(t.of) THEN <<"bytes", BytesOf(v[2])>> ELSE list
      [] classify_type(t) = "Array" -> list
      [] classify_type(t) = "Nested" -> into_py_message(t, v)

-----------------------------------------------------------------------------
(* python_msgspec_generator.rs: the classes and the functions *)

\* Names with "Time" or "Duration" somewhere in them get the dict of a time.
Timelike == {"Time", "Duration", "TimeReference", "RealTimeState"}
get_python_default(t) ==
    CASE IsNumber(t) -> <<PythonClass(t), 0>>
      [] IsString(t) -> <<"str", <<>>>>
      [] t.k = "Message" -> IF MessageName(t) \in Timelike THEN <<"dict", <<0, 0>>>> ELSE None
      [] IsZBuf(t) -> <<"bytes", <<>>>>
      [] OTHER -> <<"list", <<>>>>
generate_msgspec_struct(t) == <<"obj", [i \in DOMAIN t.schema.fields |->
                                          get_python_default(t.schema.fields[i].type)]>>

generate_serialize_function(t, obj) ==
    LET v == from_py(t, obj) IN
    IF v = Raised THEN Raised
    ELSE Extracted(CDR_HEADER_LE \o Contents(serialize(EmptyBuffer, t, v[2])))
serialize_to_zbuf(t, obj) ==
    LET v == from_py(t, obj) IN IF v = Raised THEN Raised ELSE Extracted(to_cdr(t, v[2]))

\* The four bytes of the header are skipped, not looked at.
generate_deserialize_function(t, in) ==
    LET r == deserialize(Payload(in), t, 0)
    IN  IF Len(in) < 4 \/ ~r.ok THEN Raised ELSE Extracted(into_py_message(t, r.val))

-----------------------------------------------------------------------------
(* The names.  A package is its messages and services, a name a sequence of *)
(* parts; a key of the registry is <<package, "msg" or "srv", name>>.       *)

Request(s) == s \o <<"Request">>
Response(s) == s \o <<"Response">>
Lower == [Foo |-> "foo", foo |-> "foo"]
to_lowercase(name) == [i \in DOMAIN name |-> IF name[i] \in DOMAIN Lower THEN Lower[name[i]] ELSE name[i]]

\* Request and response are messages, whose classes carry the service's hash.
PythonClasses(p) ==
    {[pkg |-> p.name, name |-> n, hash |-> <<"msg", n>>] : n \in p.msgs}
    \cup {[pkg |-> p.name, name |-> n, hash |-> <<"srv", s>>] :
             <<n, s>> \in UNION {{<<Request(s), s>>, <<Response(s), s>>} : s \in p.srvs}}
msgtype(class) == <<class.pkg, "msg", class.name>>

\* One module holds the functions of the messages, one those of the services.
generate_complete_rust_module(p) ==
    LET functions(names) == \A m, n \in names : to_lowercase(m) = to_lowercase(n) => m = n
    IN  functions(p.msgs) /\ functions({Request(s) : s \in p.srvs} \cup {Response(s) : s \in p.srvs})

\* A mutant: requests are registered under the name of their struct.
generate_registry_registrations_Struct(p) ==
    [k \in {<<p.name, "msg", n>> : n \in p.msgs}
           \cup UNION {{<<p.name, "srv", Request(s)>>, <<p.name, "srv", Response(s)>>} : s \in p.srvs} |-> k[3]]

\* The struct that each key serializes.
generate_registry_registrations(p) ==
    [k \in {<<p.name, "msg", n>> : n \in p.msgs}
           \cup UNION {{<<p.name, "srv", s \o <<"_Request">>>>, <<p.name, "srv", s \o <<"_Response">>>>} : s \in p.srvs} |->
        IF k[2] = "msg" THEN k[3]
        ELSE IF k[3][Len(k[3])] = "_Request" THEN Request(Front(k[3])) ELSE Response(Front(k[3]))]

\* What list_registered_types() lists and get_type_hash() knows: a service too.
generate_helper_functions(p) ==
    {<<p.name, "msg", n>> : n \in p.msgs}
    \cup {<<p.name, "srv", s \o e>> : s \in p.srvs, e \in {<<>>, <<"_Request">>, <<"_Response">>}}

generate_message_type_info(pkg, name) == <<<<pkg, "msg", "dds_", name>>, <<"msg", name>>>>
generate_service_impl(pkg, name) == <<<<pkg, "srv", "dds_", name>>, <<"srv", name>>>>

-----------------------------------------------------------------------------
(* ros-z-py: node.rs, utils.rs, service.rs *)

python_type_to_rust_type(k) == <<k[1], k[2], "dds_", k[3]>>
extract_type_info_from_class(class) ==
    [key |-> msgtype(class), info |-> <<python_type_to_rust_type(msgtype(class)), class.hash>>]

\* trim_end_matches: as often as it matches.
RECURSIVE trim_end_matches(_, _)
trim_end_matches(name, part) ==
    IF name # <<>> /\ Last(name) = part THEN trim_end_matches(Front(name), part) ELSE name
extract_service_type_from_request_class(class) ==
    LET key == <<class.pkg, "srv", trim_end_matches(trim_end_matches(class.name, "Request"), "Response")>>
    IN  [key |-> key, info |-> <<python_type_to_rust_type(key), class.hash>>]

Unsupported == [key |-> <<>>, info |-> <<>>]
create_publisher_for_type(t, supported) == IF t.key \in supported THEN t ELSE Unsupported
create_client_for_type(t, supported) == IF t.key \in supported THEN t ELSE Unsupported
create_publisher(class, supported) ==
    create_publisher_for_type(extract_type_info_from_class(class), supported)
create_client(class, supported) ==
    create_client_for_type(extract_service_type_from_request_class(class), supported)
RequestKey(key) == <<key[1], key[2], key[3] \o <<"_Request">>>>
ResponseKey(key) == <<key[1], key[2], key[3] \o <<"_Response">>>>

-----------------------------------------------------------------------------
(* protobuf_generator.rs.  A message is [pkg, name, fields], a field          *)
(* [pkg, base, array], where pkg is "none" when the file does not name it.    *)

ProtoType ==
    [bool |-> "bool", byte |-> "uint32", uint8 |-> "uint32", char |-> "uint32", int8 |-> "int32",
     int16 |-> "int32", uint16 |-> "uint32", int32 |-> "int32", uint32 |-> "uint32",
     int64 |-> "int64", uint64 |-> "uint64", float32 |-> "float", float64 |-> "double",
     string |-> "string"]
ros_field_to_proto_type(f, pkg) ==
    [repeated |-> f.array,
     type |-> IF f.base \in DOMAIN ProtoType THEN <<ProtoType[f.base]>>
              ELSE <<IF f.pkg = "none" THEN pkg ELSE f.pkg, f.base>>]

collect_dependencies(msg) == {f.pkg : f \in Range(msg.fields)} \ {"none", msg.pkg}
generate_proto_message(msg) ==
    [i \in DOMAIN msg.fields |-> ros_field_to_proto_type(msg.fields[i], msg.pkg)]
generate_proto_for_package(pkg, msgs) ==
    [imports |-> UNION {collect_dependencies(m) : m \in msgs},
     messages |-> {[name |-> m.name, fields |-> generate_proto_message(m)] : m \in msgs}]
generate_proto_files(msgs) ==
    [pkg \in {m.pkg : m \in msgs} |-> generate_proto_for_package(pkg, {m \in msgs : m.pkg = pkg})]

\* prost_build: one module per file, a struct per message under its own name for it.
ProstName == [UUID |-> "Uuid", ColorRGBA |-> "ColorRgba", GPSFix |-> "GpsFix", Point |-> "Point"]
generate_rust_from_proto(protos) ==
    UNION {{<<pkg, ProstName[m.name]>> : m \in protos[pkg].messages} : pkg \in DOMAIN protos}

convert_to_prost_naming(n) ==
    CASE n = "ColorRGBA" -> "ColorRgba" [] n = "UUID" -> "Uuid" [] OTHER -> n
generate_type_info_impls(msgs) ==
    {[struct |-> <<m.pkg, convert_to_prost_naming(m.name)>>,
      info |-> generate_message_type_info(m.pkg, m.name)] : m \in msgs}

=============================================================================
