-------------------------------- MODULE Cdr --------------------------------
(***************************************************************************)
(* CDR: the writer and reader of ros-z-cdr, the serde formats on top of    *)
(* them, the little-endian encapsulation of msg.rs, the size estimates for *)
(* shared memory, and the dynamic messages of dynamic/.                    *)
(*                                                                         *)
(* A payload is a sequence of bytes.  A number is its bit pattern, smaller *)
(* than 2^31 here, and written in as many bytes as its type has.  A value  *)
(* is <<tag, sequence>>: a number (tagged with its type), a "string" of    *)
(* characters, "Bytes", an "Array" of values or a "Message" of the values  *)
(* of its fields.  Types and schemas are those of TypeHash.                *)
(***************************************************************************)
EXTENDS TypeHash

Width == [bool |-> 1, int8 |-> 1, uint8 |-> 1, int16 |-> 2, uint16 |-> 2, int32 |-> 4,
          uint32 |-> 4, float32 |-> 4, int64 |-> 8, uint64 |-> 8, float64 |-> 8]
IsNumber(t) == t.k \in DOMAIN Width
IsString(t) == t.k \in {"string", "BoundedString"}
Is8(t) == t.k = "uint8"
FieldTypes(s) == [i \in 1..Len(s.fields) |-> s.fields[i].type]

Failed == [ok |-> FALSE, val |-> <<>>, pos |-> 0]
Got(v, p) == [ok |-> TRUE, val |-> v, pos |-> p]

\* Little-endian bytes of a number, and back.
Place(i) == IF i > 4 THEN 0 ELSE 256 ^ (i - 1)
LE(n, w) == [i \in 1..w |-> IF i > 4 THEN 0 ELSE (n \div Place(i)) % 256]
FromLE(bytes) == FoldFunction(+, 0, [i \in DOMAIN bytes |-> bytes[i] * Place(i)])

-----------------------------------------------------------------------------
(* primitives.rs: CdrWriter and CdrReader; zbuf_writer.rs.  A buffer is    *)
(* what was handed over as slices, what is still being filled, and the     *)
(* length it reports, which is what alignment goes by.                     *)

EmptyBuffer == [slices |-> <<>>, current |-> <<>>, len |-> 0]
Contents(b) == b.slices \o b.current
extend(b, data) == [b EXCEPT !.current = @ \o data, !.len = @ + Len(data)]

append_zslice(b, data) ==
    [slices |-> b.slices \o b.current \o data, current |-> <<>>, len |-> b.len + Len(data)]

Padding(p, a) == IF p % a = 0 THEN 0 ELSE a - (p % a)

align(b, a) == extend(b, [i \in 1..Padding(b.len, a) |-> 0])
write(b, n, w) == extend(align(b, w), LE(n, w))
write_string(b, s) == extend(extend(write(b, Len(s) + 1, 4), s), <<0>>)
write_bytes(b, s) == extend(write(b, Len(s), 4), s)
serialize_zbuf(b, s) == append_zslice(write(b, Len(s), 4), s)

read_bytes(in, p, n) ==
    IF Len(in) - p < n THEN Failed ELSE Got(SubSeq(in, p + 1, p + n), p + n)
read(in, p, w) ==
    LET q == p + Padding(p, w)
        r == read_bytes(in, q, w)
    IN  IF Len(in) < q \/ ~r.ok THEN Failed ELSE Got(FromLE(r.val), r.pos)
read_number(in, p, k) ==
    LET r == read(in, p, Width[k]) IN
    IF ~r.ok \/ (k = "bool" /\ r.val > 1) THEN Failed ELSE Got(<<k, <<r.val>>>>, r.pos)

\* One terminator is dropped if there is one; a length of zero is an empty
\* string without any.
read_string(in, p) ==
    LET n == read(in, p, 4)
        r == read_bytes(in, n.pos, n.val)
    IN  IF ~n.ok THEN Failed
        ELSE IF n.val = 0 THEN Got(<<"string", <<>>>>, n.pos)
        ELSE IF ~r.ok THEN Failed
        ELSE Got(<<"string", IF Last(r.val) = 0 THEN Front(r.val) ELSE r.val>>, r.pos)

MAX_SEQUENCE_LENGTH == 100000000
read_sequence_length(in, p) ==
    LET r == read(in, p, 4) IN IF r.ok /\ r.val > MAX_SEQUENCE_LENGTH THEN Failed ELSE r
read_byte_sequence(in, p) ==
    LET n == read(in, p, 4)
        r == read_bytes(in, n.pos, n.val)
    IN  IF n.ok /\ r.ok THEN Got(<<"Bytes", r.val>>, r.pos) ELSE Failed

-----------------------------------------------------------------------------
(* serializer.rs and deserializer.rs, as the structs of generator/rust.rs  *)
(* drive them: sequences carry their length, arrays and structs nothing,   *)
(* and uint8[] is a ZBuf (zbuf.rs), whose bytes are written at once.       *)

IsZBuf(t) == t.k = "Unbounded" /\ Is8(t.of)

RECURSIVE serialize(_, _, _), serialize_fields(_, _, _)
serialize(b, t, v) ==
    CASE IsString(t) -> write_string(b, v[2])
      [] IsNumber(t) -> write(b, v[2][1], Width[t.k])
      [] t.k = "Message" -> serialize_fields(b, FieldTypes(t.schema), v[2])
      [] IsZBuf(t) -> write_bytes(b, v[2])
      [] t.k = "Fixed" -> serialize_fields(b, [i \in 1..Len(v[2]) |-> t.of], v[2])
      [] OTHER -> serialize_fields(write(b, Len(v[2]), 4), [i \in 1..Len(v[2]) |-> t.of], v[2])
serialize_fields(b, ts, vs) ==
    IF ts = <<>> THEN b
    ELSE serialize_fields(serialize(b, Head(ts), Head(vs)), Tail(ts), Tail(vs))

\* SequenceHelper: as many values as types, in order, up to the first error.
RECURSIVE deserialize(_, _, _), deserialize_all(_, _, _, _)
deserialize(in, t, p) ==
    LET all(ts, q, tag) ==
            LET r == deserialize_all(in, ts, q, <<>>)
            IN  IF r.ok THEN Got(<<tag, r.val>>, r.pos) ELSE Failed
        n == read_sequence_length(in, p)
    IN  CASE IsString(t) -> read_string(in, p)
          [] IsNumber(t) -> read_number(in, p, t.k)
          [] t.k = "Message" -> all(FieldTypes(t.schema), p, "Message")
          [] IsZBuf(t) -> read_byte_sequence(in, p)
          [] t.k = "Fixed" -> all([i \in 1..t.n |-> t.of], p, "Array")
          [] OTHER -> IF n.ok THEN all([i \in 1..n.val |-> t.of], n.pos, "Array") ELSE Failed
deserialize_all(in, ts, p, done) ==
    LET r == deserialize(in, Head(ts), p) IN
    IF ts = <<>> THEN Got(done, p)
    ELSE IF ~r.ok THEN Failed
    ELSE deserialize_all(in, Tail(ts), r.pos, Append(done, r.val))

\* msg.rs, CdrSerdes: the encapsulation header, and positions that start after it.
CDR_HEADER_LE == <<0, 1, 0, 0>>
to_cdr(t, v) == CDR_HEADER_LE \o Contents(serialize(EmptyBuffer, t, v))
Payload(in) == SubSeq(in, 5, Len(in))
Headed(in) == Len(in) >= 4 /\ SubSeq(in, 1, 2) = SubSeq(CDR_HEADER_LE, 1, 2)
from_cdr(in, t) == IF Headed(in) THEN deserialize(Payload(in), t, 0) ELSE Failed

-----------------------------------------------------------------------------
(* Sizes.  generator/rust.rs estimates every message with the sizes of its *)
(* fields and 16 bytes; publish() calls the method of ZMessage instead,    *)
(* twice the size of the struct in memory.                                 *)

RECURSIVE estimated_cdr_size(_, _)
estimated_cdr_size(t, v) ==
    LET elements == FoldFunction(+, 0, [i \in DOMAIN v[2] |-> estimated_cdr_size(
                                         IF t.k = "Message" THEN t.schema.fields[i].type ELSE t.of, v[2][i])])
    IN  CASE IsString(t) -> 4 + Len(v[2])
          [] IsNumber(t) -> Width[t.k]
          [] t.k = "Message" -> elements + 16
          [] IsZBuf(t) -> 4 + Len(v[2])
          [] t.k = "Fixed" -> elements
          [] OTHER -> 4 + elements
generated_serialized_size(t, v) == 4 + estimated_cdr_size(t, v)

\* The layout rustc gives a struct: fields reordered, padded once at the end.
SizeOfVec == 24
RoundUp(n, a) == n + Padding(n, a)
RECURSIVE align_of(_), size_of(_)
align_of(t) ==
    CASE IsNumber(t) -> Width[t.k]
      [] t.k = "Fixed" -> align_of(t.of)
      [] t.k = "Message" -> Max({1} \cup {align_of(FieldTypes(t.schema)[i]) : i \in DOMAIN t.schema.fields})
      [] OTHER -> 8
size_of(t) ==
    CASE IsNumber(t) -> Width[t.k]
      [] t.k = "Fixed" -> t.n * size_of(t.of)
      [] t.k = "Message" ->
            RoundUp(FoldFunction(+, 0, [i \in DOMAIN t.schema.fields |-> size_of(t.schema.fields[i].type)]),
                    align_of(t))
      [] OTHER -> SizeOfVec

estimated_serialized_size(t) == 2 * size_of(t) + 4

\* shm.rs, ShmWriter: a write that does not fit is an assertion that fails; the
\* payload is the whole of the allocated buffer.
serialize_to_shm(t, v, size) ==
    LET in == to_cdr(t, v) IN
    IF Len(in) > size THEN [panics |-> TRUE, payload |-> <<>>]
    ELSE [panics |-> FALSE, payload |-> in \o [i \in 1..(size - Len(in)) |-> 0]]

-----------------------------------------------------------------------------
(* dynamic/: values, messages, their CDR *)

\* value.rs
RECURSIVE default_for_type(_), new(_), build(_, _)
default_for_type(t) ==
    CASE IsNumber(t) -> <<t.k, <<0>>>>
      [] IsString(t) -> <<"string", <<>>>>
      [] t.k = "Message" -> new(t.schema)
      [] t.k = "Fixed" -> <<"Array", [i \in 1..t.n |-> default_for_type(t.of)]>>
      [] OTHER -> <<"Array", <<>>>>
\* message.rs: what a builder was not given is default.
build(s, given) ==
    <<"Message", [i \in 1..Len(s.fields) |->
                    IF i \in DOMAIN given THEN given[i] ELSE default_for_type(s.fields[i].type)]>>
new(s) == build(s, <<>>)

\* serialization/cdr.rs: a value of another type than the schema's is an error.
Refused == [ok |-> FALSE, b |-> EmptyBuffer]
Written(b) == [ok |-> TRUE, b |-> b]

RECURSIVE serialize_value(_, _, _), serialize_message(_, _, _)
serialize_value(b, t, v) ==
    LET each == [i \in 1..Len(v[2]) |-> t.of] IN
    CASE v[1] = t.k /\ IsNumber(t) -> Written(write(b, v[2][1], Width[t.k]))
      [] v[1] = "string" /\ IsString(t) -> Written(write_string(b, v[2]))
      [] v[1] = "Array" /\ t.k = "Fixed" -> serialize_message(b, each, v[2])
      [] v[1] = "Array" /\ t.k \in {"Unbounded", "Bounded"} ->
            serialize_message(write(b, Len(v[2]), 4), each, v[2])
      [] v[1] = "Bytes" /\ IsZBuf(t) -> Written(write_bytes(b, v[2]))
      [] v[1] = "Message" /\ t.k = "Message" -> serialize_message(b, FieldTypes(t.schema), v[2])
      [] OTHER -> Refused
serialize_message(b, ts, vs) ==
    LET r == serialize_value(b, Head(ts), Head(vs)) IN
    IF ts = <<>> \/ vs = <<>> THEN Written(b)
    ELSE IF r.ok THEN serialize_message(r.b, Tail(ts), Tail(vs)) ELSE Refused

\* A mutant: positions are counted from before the header.
serialize_cdr_Offset(s, v) ==
    LET r == serialize_message(extend(EmptyBuffer, CDR_HEADER_LE), FieldTypes(s), v[2])
    IN  [ok |-> r.ok, payload |-> Contents(r.b)]

serialize_cdr(s, v) ==
    LET r == serialize_message(EmptyBuffer, FieldTypes(s), v[2])
    IN  [ok |-> r.ok, payload |-> CDR_HEADER_LE \o Contents(r.b)]

\* Sequences of uint8 are read as bytes, bounded ones too.
RECURSIVE deserialize_value(_, _, _), deserialize_message(_, _, _, _)
deserialize_value(in, t, p) ==
    LET all(ts, q, tag) ==
            LET r == deserialize_message(in, ts, q, <<>>)
            IN  IF r.ok THEN Got(<<tag, r.val>>, r.pos) ELSE Failed
        n == read_sequence_length(in, p)
    IN  CASE IsNumber(t) -> read_number(in, p, t.k)
          [] IsString(t) -> read_string(in, p)
          [] t.k = "Fixed" -> all([i \in 1..t.n |-> t.of], p, "Array")
          [] t.k = "Message" -> all(FieldTypes(t.schema), p, "Message")
          [] Is8(t.of) -> read_byte_sequence(in, p)
          [] OTHER -> IF n.ok THEN all([i \in 1..n.val |-> t.of], n.pos, "Array") ELSE Failed
deserialize_message(in, ts, p, done) ==
    LET r == deserialize_value(in, Head(ts), p) IN
    IF ts = <<>> THEN Got(done, p)
    ELSE IF ~r.ok THEN Failed
    ELSE deserialize_message(in, Tail(ts), r.pos, Append(done, r.val))

deserialize_cdr(in, s) ==
    IF Headed(in) THEN deserialize_value(Payload(in), Message(s), 0) ELSE Failed

\* schema.rs: sizes of what has one, or Variable.
Variable == -1
RECURSIVE fixed_size(_), alignment(_), fixed_cdr_size(_, _)
alignment(t) ==
    CASE IsNumber(t) -> Width[t.k]
      [] t.k = "Fixed" -> alignment(t.of)
      [] t.k = "Message" -> Max({1} \cup {alignment(FieldTypes(t.schema)[i]) : i \in DOMAIN t.schema.fields})
      [] OTHER -> 4
fixed_size(t) ==
    CASE IsNumber(t) -> Width[t.k]
      [] t.k = "Fixed" -> IF fixed_size(t.of) = Variable THEN Variable ELSE t.n * fixed_size(t.of)
      [] t.k = "Message" -> fixed_cdr_size(FieldTypes(t.schema), 0)
      [] OTHER -> Variable
fixed_cdr_size(ts, size) ==
    IF ts = <<>> THEN size
    ELSE IF fixed_size(Head(ts)) = Variable THEN Variable
    ELSE fixed_cdr_size(Tail(ts), RoundUp(size, alignment(Head(ts))) + fixed_size(Head(ts)))

\* message.rs: a path is a sequence of field names; a result is a value or
\* what went wrong.
Wrong(e) == <<"error", e>>
field_index(s, name) == SelectInSeq(s.fields, LAMBDA f : f.name = name)

RECURSIVE get_nested(_, _, _), set_nested(_, _, _, _)
get_nested(s, v, path) ==
    LET i == field_index(s, Head(path)) IN
    IF path = <<>> THEN Wrong("EmptyPath")
    ELSE IF i = 0 THEN Wrong("FieldNotFound")
    ELSE IF Len(path) = 1 THEN v[2][i]
    ELSE IF v[2][i][1] = "Message" THEN get_nested(s.fields[i].type.schema, v[2][i], Tail(path))
    ELSE Wrong("NotAMessage")

set_nested(s, v, path, new_value) ==
    LET i == field_index(s, Head(path))
        inner == set_nested(s.fields[i].type.schema, v[2][i], Tail(path), new_value)
    IN  IF path = <<>> THEN Wrong("EmptyPath")
        ELSE IF i = 0 THEN Wrong("FieldNotFound")
        ELSE IF Len(path) = 1 THEN <<"Message", [v[2] EXCEPT ![i] = new_value]>>
        ELSE IF v[2][i][1] # "Message" THEN Wrong("NotAMessage")
        ELSE IF inner[1] = "error" THEN inner
        ELSE <<"Message", [v[2] EXCEPT ![i] = inner]>>

\* schema.rs: a path through a field that is no message goes on in the schema
\* it is in.
RECURSIVE field_path_indices(_, _)
field_path_indices(s, path) ==
    LET i == field_index(s, Head(path))
        t == s.fields[i].type
        rest == field_path_indices(IF t.k = "Message" THEN t.schema ELSE s, Tail(path))
    IN  IF path = <<>> THEN <<>>
        ELSE IF i = 0 THEN <<0>>
        ELSE <<i>> \o rest
=============================================================================
