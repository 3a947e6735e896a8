------------------------------ MODULE TypeHash ------------------------------
(***************************************************************************)
(* Type descriptions and RIHS01 hashes: the type ids of ros-z-schema, the  *)
(* descriptions the code generator builds from parsed messages             *)
(* (hashing.rs and the end of resolver.rs), the ones the dynamic messages  *)
(* build from a schema, and the way back (dynamic/type_description.rs).    *)
(*                                                                         *)
(* SHA-256 of the JSON text is taken to be injective: a hash is what       *)
(* to_hash_version keeps of the description it is computed from.           *)
(* Referenced descriptions are sorted by name before they are hashed: a    *)
(* set.                                                                    *)
(*                                                                         *)
(* The name of a type is <<stem, suffix>>, where the suffix is one the     *)
(* code looks at ("Goal", "Result", "Feedback" or none); a full name is    *)
(* <<package, directory, name>> and a key of the resolver <<package,       *)
(* name>>.  A field of a parsed message has a base (a name), a package or  *)
(* "none", an array kind with its size, and a string bound or NoBound.     *)
(***************************************************************************)
EXTENDS Integers, Sequences, FiniteSets, SequencesExt

Plain(s) == <<s, "">>
NoBound == -1

\* TypeId: single values, and the offsets of arrays and sequences.
BaseId == [int8 |-> 2, uint8 |-> 3, byte |-> 3, char |-> 3, int16 |-> 4, uint16 |-> 5,
           int32 |-> 6, uint32 |-> 7, int64 |-> 8, uint64 |-> 9, float32 |-> 10,
           float64 |-> 11, bool |-> 15, string |-> 17]
NESTED_TYPE == 1
STRING_ID == 17
BOUNDED_STRING == 21
Offset == [Single |-> 0, Fixed |-> 48, Bounded |-> 96, Unbounded |-> 144]

is_primitive_type(base) == base[2] = "" /\ base[1] \in DOMAIN BaseId

is_array(id) == id \in 49 .. 65
is_bounded_sequence(id) == id \in 97 .. 113
is_unbounded_sequence(id) == id \in 145 .. 161

base_type(id) ==
    CASE is_unbounded_sequence(id) -> id - Offset["Unbounded"]
      [] is_bounded_sequence(id) -> id - Offset["Bounded"]
      [] is_array(id) -> id - Offset["Fixed"]
      [] OTHER -> id

TypeDesc(id, capacity, strings, nested) ==
    [id |-> id, capacity |-> capacity, strings |-> strings, nested |-> nested]
NoName == <<>>

\* The names a description refers to.
Nested(desc) ==
    {desc.fields[i].type.nested : i \in 1..Len(desc.fields)} \ {NoName}

\* ros-z-schema: of each description the names and types, no default values.
to_hash_version(msg) ==
    LET kept(d) == [name |-> d.name,
                    fields |-> [i \in 1..Len(d.fields) |-> [name |-> d.fields[i].name,
                                                            type |-> d.fields[i].type]]]
    IN  [desc |-> kept(msg.desc), refs |-> {kept(d) : d \in msg.refs}]
calculate_hash(msg) == to_hash_version(msg)

-----------------------------------------------------------------------------
(* hashing.rs: from parsed messages *)

\* A mutant: bounded and unbounded sequences share an offset.
get_type_id_Bounded(f) ==
    LET off == IF f.array[1] = "Bounded" THEN 144 ELSE Offset[f.array[1]]
    IN  IF f.pkg # "none" \/ ~is_primitive_type(f.base) THEN NESTED_TYPE + off
        ELSE IF f.bound # NoBound /\ f.base[1] = "string" THEN BOUNDED_STRING
        ELSE BaseId[f.base[1]] + off

get_type_id(f) ==
    IF f.pkg # "none" \/ ~is_primitive_type(f.base) THEN NESTED_TYPE + Offset[f.array[1]]
    ELSE IF f.bound # NoBound /\ f.base[1] = "string" THEN BOUNDED_STRING
    ELSE BaseId[f.base[1]] + Offset[f.array[1]]

get_array_capacity(f) == IF f.array[1] \in {"Fixed", "Bounded"} THEN f.array[2] ELSE 0
Package(f, pkg) == IF f.pkg = "none" THEN pkg ELSE f.pkg
StringCapacity(f) == IF f.bound = NoBound THEN 0 ELSE f.bound

\* ROS 2 gives an empty message one member.
OneMember == <<[name |-> "structure_needs_at_least_one_member",
                type |-> TypeDesc(3, 0, 0, NoName)]>>

get_nested_type_name_with_context(f, pkg) == <<Package(f, pkg), "msg", f.base>>

FieldDesc(f, pkg) ==
    [name |-> f.name,
     type |-> IF is_primitive_type(f.base)
              THEN TypeDesc(get_type_id(f), get_array_capacity(f),
                            IF get_array_capacity(f) > 0 THEN 0 ELSE StringCapacity(f), NoName)
              ELSE TypeDesc(get_type_id(f), get_array_capacity(f), 0,
                            get_nested_type_name_with_context(f, pkg))]

\* The keys of the resolver are packages and names; here they are looked up
\* by the full name, which has the directory in between.
RECURSIVE collect_referenced_types(_, _)
collect_referenced_types(desc, deps) ==
    UNION {{deps[n]} \cup collect_referenced_types(deps[n], deps) :
             n \in Nested(desc) \cap DOMAIN deps}

build_type_description_msg(msg, deps) ==
    LET used == {msg.fields[i] : i \in 1..Len(msg.fields)}
        keys == {<<Package(f, msg.pkg), f.base>> : f \in {g \in used : ~is_primitive_type(g.base)}}
    IN  [desc |-> [name |-> <<msg.pkg, "msg", msg.name>>,
                   fields |-> IF msg.fields = <<>> THEN OneMember
                              ELSE [i \in 1..Len(msg.fields) |-> FieldDesc(msg.fields[i], msg.pkg)]],
         refs |-> UNION {{deps[k]} \cup collect_referenced_types(deps[k], deps) :
                           k \in keys \cap DOMAIN deps}]

calculate_type_hash(msg, deps) == calculate_hash(build_type_description_msg(msg, deps))

Field1(name, id, capacity, nested) ==
    [name |-> name, type |-> TypeDesc(id, capacity, 0, nested)]

\* A service is described as the messages of its request, response and event.
\* Whatever is named like a service of an action is taken for one.
calculate_service_type_hash(pkg, service, request, response, info, deps) ==
    LET dir == IF service[1] = "CancelGoal" \/ service[2] \in {"_SendGoal", "_GetResult"}
               THEN "action" ELSE "srv"
        part(p) == <<pkg, dir, <<service[1], service[2] \o p>>>>
        event == [name |-> part("_Event"),
                  fields |-> <<Field1("info", NESTED_TYPE, 0, info.name),
                               Field1("request", 97, 1, part("_Request")),
                               Field1("response", 97, 1, part("_Response"))>>]
        own == {event, [request EXCEPT !.name = part("_Request")],
                [response EXCEPT !.name = part("_Response")]}
    IN  calculate_hash(
          [desc |-> [name |-> <<pkg, dir, service>>,
                     fields |-> <<Field1("request_message", NESTED_TYPE, 0, part("_Request")),
                                  Field1("response_message", NESTED_TYPE, 0, part("_Response")),
                                  Field1("event_message", NESTED_TYPE, 0, part("_Event"))>>],
           refs |-> {d \in deps : \A o \in own : o.name # d.name} \cup own])

-----------------------------------------------------------------------------
(* resolver.rs, ResolvedMessageExt: what others see of a message *)

ActionSuffix == [Goal |-> "_Goal", Result |-> "_Result", Feedback |-> "_Feedback"]

\* Whatever ends in the name of an action's part is taken for one.
FullName(pkg, name) ==
    IF name[2] \in DOMAIN ActionSuffix
    THEN <<pkg, "action", <<name[1], ActionSuffix[name[2]]>>>>
    ELSE <<pkg, "msg", name>>

type_description(msg) ==
    [name |-> FullName(msg.pkg, msg.name),
     fields |->
        IF msg.fields = <<>> THEN OneMember
        ELSE [i \in 1..Len(msg.fields) |->
                LET f == msg.fields[i] IN
                [name |-> f.name,
                 type |-> TypeDesc(get_type_id(f), get_array_capacity(f), StringCapacity(f),
                                   IF is_primitive_type(f.base) THEN NoName
                                   ELSE FullName(Package(f, msg.pkg), f.base))]]]

-----------------------------------------------------------------------------
(* dynamic/type_description.rs: from schemas and back.  A field type is a  *)
(* record with kind k: a primitive, "BoundedString" of size n, "Message"   *)
(* of a schema, or a collection ("Fixed", "Unbounded", "Bounded") of a     *)
(* type and size n.                                                        *)

Prim(k) == [k |-> k]
BoundedString(n) == [k |-> "BoundedString", n |-> n]
Message(s) == [k |-> "Message", schema |-> s]
Collection(k, of, n) == [k |-> k, of |-> of, n |-> n]
IsCollection(t) == t.k \in {"Fixed", "Unbounded", "Bounded"}

RECURSIVE get_base_type_id(_)
get_base_type_id(t) ==
    CASE t.k = "Message" -> NESTED_TYPE
      [] t.k = "BoundedString" -> STRING_ID
      [] IsCollection(t) -> get_base_type_id(t.of)
      [] OTHER -> BaseId[t.k]

field_type_to_description(t) ==
    CASE t.k = "BoundedString" -> TypeDesc(STRING_ID, 0, t.n, NoName)
      [] t.k = "Message" -> TypeDesc(NESTED_TYPE, 0, 0, t.schema.name)
      [] IsCollection(t) ->
            TypeDesc(get_base_type_id(t.of) + Offset[t.k], IF t.k = "Unbounded" THEN 0 ELSE t.n, 0,
                     IF t.of.k = "Message" THEN t.of.schema.name ELSE NoName)
      [] OTHER -> TypeDesc(BaseId[t.k], 0, 0, NoName)

to_type_description(s) ==
    [name |-> s.name,
     fields |-> [i \in 1..Len(s.fields) |->
                   [name |-> s.fields[i].name, type |-> field_type_to_description(s.fields[i].type)]]]

RECURSIVE References(_), collect_field_type_references(_)
References(s) ==
    UNION {collect_field_type_references(s.fields[i].type) : i \in 1..Len(s.fields)}
collect_field_type_references(t) ==
    CASE t.k = "Message" -> {to_type_description(t.schema)} \cup References(t.schema)
      [] IsCollection(t) -> collect_field_type_references(t.of)
      [] OTHER -> {}

to_type_description_msg(s) == [desc |-> to_type_description(s), refs |-> References(s)]
compute_type_hash(s) == calculate_hash(to_type_description_msg(s))

SchemaError == [name |-> <<"error">>, fields |-> <<>>]
Primitives == {"int8", "uint8", "int16", "uint16", "int32", "uint32", "int64", "uint64",
               "float32", "float64", "bool", "string"}
PrimOf(id) == CHOOSE k \in Primitives : BaseId[k] = id

field_type_description_to_type(d, map) ==
    LET id == base_type(d.id)
        base == CASE id = STRING_ID /\ d.strings > 0 -> BoundedString(d.strings)
                  [] id = NESTED_TYPE -> IF d.nested \in DOMAIN map THEN Message(map[d.nested])
                                         ELSE Prim("error")
                  [] id \in {BaseId[k] : k \in Primitives} -> Prim(PrimOf(id))
                  [] OTHER -> Prim("error")
    IN  CASE base.k = "error" -> base
          [] is_array(d.id) -> Collection("Fixed", base, d.capacity)
          [] is_bounded_sequence(d.id) -> Collection("Bounded", base, d.capacity)
          [] is_unbounded_sequence(d.id) -> Collection("Unbounded", base, 0)
          [] OTHER -> base

SchemaOf(name, names, types) ==
    IF Len(name) # 3 \/ \E i \in DOMAIN types : types[i].k = "error" THEN SchemaError
    ELSE [name |-> name, fields |-> [i \in DOMAIN types |-> [name |-> names[i].name, type |-> types[i]]]]
type_description_to_schema_full(desc, map) ==
    SchemaOf(desc.name, desc.fields,
             [i \in DOMAIN desc.fields |-> field_type_description_to_type(desc.fields[i].type, map)])

\* One pass over what remains resolves what it can; a pass without progress
\* is an error.  Which of two is first makes no difference to the result.
RECURSIVE ResolveAll(_, _)
Resolved(remaining, schemas, map) ==
    LET done == {s.name : s \in schemas \ {SchemaError}} IN
    IF done = {} THEN <<remaining, map>>
    ELSE ResolveAll({d \in remaining : d.name \notin done},
                    [n \in DOMAIN map \cup done |->
                       IF n \in DOMAIN map THEN map[n] ELSE CHOOSE s \in schemas : s.name = n])
ResolveAll(remaining, map) ==
    Resolved(remaining, {type_description_to_schema_full(d, map) : d \in remaining}, map)

SchemaAfter(r, desc) == IF r[1] # {} THEN SchemaError ELSE type_description_to_schema_full(desc, r[2])
type_description_msg_to_schema(msg) == SchemaAfter(ResolveAll(msg.refs, [n \in {} |-> SchemaError]), msg.desc)

-----------------------------------------------------------------------------
(* dynamic/registry.rs: schemas of parsed messages.  A registry maps full  *)
(* names to schemas.                                                       *)

register(schemas, s) ==
    [n \in DOMAIN schemas \cup {s.name} |-> IF n = s.name THEN s ELSE schemas[n]]

\* The other names of one byte; an array of bounded strings has the bound in
\* the name, as the parser leaves it.
Alias == [byte |-> "int8", char |-> "uint8"]
Bound == [s \in {"string<=2"} |-> 2]

convert_base_type(f, schemas) ==
    LET name == <<f.pkg, "msg", f.base>> IN
    CASE f.base[2] = "" /\ f.base[1] \in Primitives -> Prim(f.base[1])
      [] f.base[2] = "" /\ f.base[1] \in DOMAIN Alias -> Prim(Alias[f.base[1]])
      [] f.base[2] = "" /\ f.base[1] \in DOMAIN Bound -> BoundedString(Bound[f.base[1]])
      [] f.pkg # "none" /\ name \in DOMAIN schemas -> Message(schemas[name])
      [] OTHER -> Prim("error")

convert_field_type(f, schemas) ==
    LET base == convert_base_type(f, schemas) IN
    IF f.array[1] = "Single" \/ base.k = "error" THEN base
    ELSE Collection(f.array[1], base, get_array_capacity(f))

parsed_message_to_schema(msg, schemas) ==
    SchemaOf(<<msg.pkg, "msg", msg.name>>, msg.fields,
             [i \in DOMAIN msg.fields |-> convert_field_type(msg.fields[i], schemas)])
=============================================================================
