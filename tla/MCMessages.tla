----------------------------- MODULE MCMessages -----------------------------
(***************************************************************************)
(* Messages as data: schemas, hashes and CDR, checked over small domains.  *)
(* MCData adds the other pure parts and the run.                           *)
(***************************************************************************)
EXTENDS MCInput, Cdr

-----------------------------------------------------------------------------
(* CDR: x is a schema and a value of it *)

Schema(name, types) ==
    [name |-> <<"p", "msg", Plain(name)>>,
     fields |-> [i \in 1..Len(types) |-> [name |-> <<"a", "b", "c">>[i], type |-> types[i]]]]
Inner == Schema("Inner", <<Prim("uint8"), Prim("float64")>>)
Outer == Schema("Outer", <<Message(Inner), Prim("bool")>>)
U8 == Prim("uint8")

NarrowTypes ==
    {U8, Prim("float64"), Prim("string"), Message(Inner), Collection("Bounded", U8, 2)}
WideTypes ==
    NarrowTypes \cup
    {Prim("bool"), Prim("int16"), BoundedString(2), Message(Outer), Collection("Unbounded", U8, 0),
     Collection("Fixed", Prim("uint16"), 2), Collection("Unbounded", Prim("string"), 0),
     Collection("Bounded", Prim("uint32"), 1), Collection("Unbounded", Message(Inner), 0),
     Collection("Fixed", Message(Inner), 2)}

\* Two or three values of each type; numbers that need more than a byte.
RECURSIVE Values(_)
Values(t) ==
    CASE t.k = "bool" -> {<<"bool", <<1>>>>}
      [] IsNumber(t) -> {<<t.k, <<IF Width[t.k] = 1 THEN 7 ELSE 258>>>>}
      [] IsString(t) -> {<<"string", <<>>>>, <<"string", <<65>>>>, <<"string", <<65, 0>>>>}
      [] t.k = "Message" -> {<<"Message", [i \in DOMAIN t.schema.fields |->
                                CHOOSE v \in Values(t.schema.fields[i].type) : TRUE]>>}
      [] t.k = "Fixed" -> {<<"Array", [i \in 1..t.n |-> CHOOSE v \in Values(t.of) : TRUE]>>}
      [] IsZBuf(t) -> {<<"Bytes", <<>>>>, <<"Bytes", <<0, 9, 1>>>>}
      [] OTHER -> {<<"Array", <<>>>>, <<"Array", <<CHOOSE v \in Values(t.of) : TRUE>>>>,
                   <<"Array", [i \in 1..2 |-> CHOOSE v \in Values(t.of) : v[2] # <<>>]>>}

TypeLists == {<<s, t>> : s, t \in WideTypes} \cup {<<>>}
             \cup {<<s, t, u>> : s, u \in NarrowTypes, t \in WideTypes}
RECURSIVE ValueLists(_)
ValueLists(ts) ==
    IF ts = <<>> THEN {<<>>}
    ELSE {<<v>> \o vs : v \in Values(Head(ts)), vs \in ValueLists(Tail(ts))}
CdrInputs ==
    UNION {{[schema |-> Schema("M", ts), value |-> <<"Message", vs>>] : vs \in ValueLists(ts)} :
             ts \in TypeLists}
    \cup {[schema |-> Schema("M", <<Prim("string")>>),
           value |-> <<"Message", <<<<"string", [i \in 1..n |-> 65]>>>>>>] : n \in 0..50}

\* The types that occur in a type.
RECURSIVE TypesIn(_)
TypesIn(t) ==
    {t} \cup (IF IsCollection(t) THEN TypesIn(t.of) ELSE {})
        \cup (IF t.k # "Message" THEN {}
              ELSE UNION {TypesIn(t.schema.fields[i].type) : i \in DOMAIN t.schema.fields})
Uses(t, P(_)) == \E u \in TypesIn(t) : P(u)
Flat(t) == IsNumber(t) \/ (t.k = "Fixed" /\ IsNumber(t.of))
BoundedBytes(t) == t.k = "Bounded" /\ Is8(t.of)
Type(y) == Message(y.schema)

\* What is serialized is read back, all of it is consumed, and a message that is
\* cut short anywhere is refused: no field is made up from the bytes that are
\* missing.  Appending a ZBuf by reference writes what copying it writes.
CdrRoundTrip ==
    part = "cdr" =>
       LET t == Type(x)
           in == to_cdr(t, x.value)
       IN  /\ from_cdr(in, t) = Got(x.value, Len(in) - 4)
           /\ \A n \in 0..(Len(in) - 1) : ~from_cdr(SubSeq(in, 1, n), t).ok
           /\ \A b \in {extend(EmptyBuffer, <<1, 2, 3>>)} :
                 Contents(write(serialize_zbuf(b, <<5>>), 1, 8)) =
                    Contents(write(write_bytes(b, <<5>>), 1, 8))

\* A dynamic message has the bytes of the generated struct, and reads them to the
\* message that was sent, which is written the same way again.  Of a message with
\* a bounded sequence of uint8 (read as bytes) only the bytes read are claimed.
DynamicAgrees ==
    part = "cdr" =>
       LET t == Type(x)
           in == to_cdr(t, x.value)
           sent == serialize_cdr(x.schema, x.value)
           got == deserialize_cdr(in, x.schema)
           again == serialize_cdr(x.schema, got.val)
       IN  /\ sent = [ok |-> TRUE, payload |-> in]
           /\ got.ok /\ got.pos = Len(in) - 4
           /\ ~Uses(t, BoundedBytes) => got.val = x.value /\ again = sent

\* The default of every schema can be sent, and is what its own bytes read to,
\* where an empty sequence of uint8 is empty bytes.
DefaultsSend ==
    part = "cdr" =>
       LET sent == serialize_cdr(x.schema, new(x.schema))
           got == deserialize_cdr(sent.payload, x.schema)
       IN  /\ sent.ok /\ got.ok
           /\ ~Uses(Type(x), LAMBDA t : t.k \in {"Bounded", "Unbounded"} /\ Is8(t.of)) =>
                 got.val = new(x.schema)

\* A fixed size is the size, for schemas of numbers and arrays of them.
FixedSizeExact ==
    part = "cdr" =>
       LET ts == FieldTypes(x.schema)
           n == fixed_cdr_size(ts, 0)
       IN  /\ (n = Variable) =
                 (\E i \in DOMAIN ts : Uses(ts[i], LAMBDA t : IsString(t) \/ t.k \in {"Bounded", "Unbounded"}))
           /\ (\A i \in DOMAIN ts : Flat(ts[i])) => Len(to_cdr(Type(x), x.value)) = 4 + n

\* What a value may need beyond the generated estimate: padding before numbers
\* and lengths, and the end of a string; less the 16 bytes a message adds.
RECURSIVE Slack(_, _)
Slack(t, v) ==
    CASE IsString(t) -> 4
      [] IsNumber(t) -> Width[t.k] - 1
      [] t.k = "Message" ->
            FoldFunction(+, 0, [i \in DOMAIN v[2] |-> Slack(t.schema.fields[i].type, v[2][i])]) - 16
      [] t.k = "Fixed" -> FoldFunction(+, 0, [i \in DOMAIN v[2] |-> Slack(t.of, v[2][i])])
      [] IsZBuf(t) -> 3
      [] OTHER -> 3 + FoldFunction(+, 0, [i \in DOMAIN v[2] |-> Slack(t.of, v[2][i])])
\* The generated estimate is large enough for every value whose padding and
\* string ends fit into the 16 bytes each message adds; nothing is claimed of a
\* value with more of them.
EstimateSuffices ==
    part = "cdr" /\ Slack(Type(x), x.value) <= 0 =>
       Len(to_cdr(Type(x), x.value)) <= generated_serialized_size(Type(x), x.value)

\* Publishing a message of fixed size through shared memory never fails its
\* assertion.  Of others nothing is claimed: publish calls the trait's estimate,
\* which does not look at the value.
RECURSIVE IsFixedSize(_)
IsFixedSize(t) ==
    \/ IsNumber(t)
    \/ t.k = "Fixed" /\ IsFixedSize(t.of)
    \/ t.k = "Message" /\ \A i \in DOMAIN t.schema.fields : IsFixedSize(t.schema.fields[i].type)
ShmFits ==
    part = "cdr" /\ IsFixedSize(Type(x)) =>
       ~serialize_to_shm(Type(x), x.value, estimated_serialized_size(Type(x))).panics

\* Setting a field, however deep, is seen by getting it and leaves the others
\* alone; indices exist for exactly the paths that are found, or that lead
\* through a field that is no message.
Paths == {<<n>> : n \in {"a", "b", "d"}} \cup {<<m, n>> : m, n \in {"a", "b", "d"}}
         \cup {<<"a", "a", "b">>}
PathsAgree ==
    part = "cdr" =>
       \A p \in Paths :
          LET before == get_nested(x.schema, x.value, p)
              after == set_nested(x.schema, x.value, p, <<"uint8", <<1>>>>)
              found == before[1] # "error"
          IN  /\ found = (after[1] # "error")
              /\ ~found => after = before
              /\ found => /\ get_nested(x.schema, after, p) = <<"uint8", <<1>>>>
                          /\ \A q \in Paths : ~IsPrefix(p, q) /\ ~IsPrefix(q, p) =>
                                get_nested(x.schema, after, q) = get_nested(x.schema, x.value, q)
              /\ found \/ before[2] = "NotAMessage" \/
                    Last(field_path_indices(x.schema, p)) = 0
              /\ found => 0 \notin Range(field_path_indices(x.schema, p))

-----------------------------------------------------------------------------
(* Schemas and hashes: x is a schema, or a parsed message *)

SchemaInputs ==
    {Schema("M", <<t, u>>) : t, u \in WideTypes \cup {Collection("Bounded", Message(Outer), 3),
                                                      Collection("Unbounded", BoundedString(2), 0)}}

\* A schema that is sent as a type description arrives as it was, with all that
\* it refers to; only strings in a sequence lose their bound.
SchemaRoundTrip ==
    part = "schemas" =>
       LET back == type_description_msg_to_schema(to_type_description_msg(x)) IN
       IF \E i \in 1..2 : Uses(x.fields[i].type, LAMBDA t : IsCollection(t) /\ t.of.k = "BoundedString")
       THEN back.name = x.name ELSE back = x

ParsedField(name, pkg, base, array, bound) ==
    [name |-> name, pkg |-> pkg, base |-> Plain(base), array |-> array, bound |-> bound]
Arrays == {<<"Single">>, <<"Fixed", 2>>, <<"Bounded", 2>>, <<"Unbounded">>}
ParsedFields ==
    {ParsedField("f", "none", b, a, NoBound) :
       b \in {"bool", "byte", "char", "float64", "string", "string<=2", "Inner"}, a \in Arrays}
    \cup {ParsedField("f", "p", b, a, NoBound) : b \in {"Inner", "Mid"}, a \in Arrays}
    \cup {ParsedField("f", "none", "string", <<"Single">>, 2)}
ParsedMsg(name, fields) == [pkg |-> "p", name |-> Plain(name), fields |-> fields]
ParsedInputs == {ParsedMsg("M", fs) : fs \in {<<>>} \cup {<<f, g>> : f, g \in ParsedFields}}

ParsedInner == ParsedMsg("Inner", <<ParsedField("a", "none", "uint8", <<"Single">>, NoBound),
                                    ParsedField("b", "none", "float64", <<"Single">>, NoBound)>>)
ParsedMid == ParsedMsg("Mid", <<ParsedField("a", "p", "Inner", <<"Single">>, NoBound)>>)
NoDeps == [n \in {} |-> {}]
Deps == [k \in {<<"p", Plain("Inner")>>, <<"p", Plain("Mid")>>} |->
           build_type_description_msg(IF k[2] = Plain("Mid") THEN ParsedMid ELSE ParsedInner, NoDeps).desc]
Registered(schemas, msg) == register(schemas, parsed_message_to_schema(msg, schemas))
Registry == Registered(Registered([n \in {} |-> SchemaError], ParsedInner), ParsedMid)

\* The hash a schema is given at run time is the one the generated code carries,
\* so both meet on one key expression: for messages of numbers, plain strings and
\* messages (named with their package) that refer to no others in turn.
HashesAgree ==
    part = "parsed" /\ x.fields # <<>> =>
       LET simple(f) == /\ f.base[1] \notin {"byte", "string<=2", "Mid"} /\ f.bound = NoBound
                        /\ f.base[1] = "Inner" => f.pkg # "none"
       IN  (\A i \in DOMAIN x.fields : simple(x.fields[i])) =>
              compute_type_hash(parsed_message_to_schema(x, Registry)) = calculate_type_hash(x, Deps)

\* "Recursively collect all referenced types" (hashing.rs, collect_referenced_types):
\* what a message is hashed from describes every resolved type it names, directly
\* or through another.
AllReferencesHashed ==
    part = "parsed" =>
       LET h == calculate_type_hash(x, Deps) IN
       \A d \in {h.desc} \cup h.refs : \A n \in Nested(d) :
          <<n[1], n[3]>> \in DOMAIN Deps => \E r \in h.refs : r.name = n
=============================================================================
