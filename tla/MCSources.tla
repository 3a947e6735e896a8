------------------------------ MODULE MCSources ------------------------------
(***************************************************************************)
(* Inputs and properties of Parser: fields and constants written out as    *)
(* lines, packages whose files hold the same lines, and files of rules.    *)
(***************************************************************************)
EXTENDS MCMessages, Parser

-----------------------------------------------------------------------------
(* Lines: x is a field, with a comment or not *)

ArraysWritten == {<<"Single">>, <<"Unbounded">>, <<"Fixed", "two">>, <<"Bounded", "five">>}
WrittenTypes ==
    {[base |-> b, pkg |-> p, array |-> a, bound |-> <<>>] :
       b \in {<<"int8">>, <<"string">>, <<"Header">>}, p \in {<<>>, <<"p">>}, a \in ArraysWritten}
    \cup {[base |-> <<"string">>, pkg |-> <<>>, array |-> <<"Single">>, bound |-> <<"five">>]}
StringDefaults == {<<"\"", w, "\"">> : w \in {"a", "=", "#", " ", ","}}
WrittenDefaults ==
    {<<>>, <<"two">>, <<"1.5">>, <<"true">>, <<"[", "two", ",", " ", "1.5", "]">>, <<"[", "]">>}
    \cup StringDefaults \cup {<<"[">> \o d \o <<"]">> : d \in StringDefaults}
LineInputs ==
    {[type |-> t, default |-> d, comment |-> c] :
       t \in WrittenTypes, d \in WrittenDefaults, c \in {<<>>, <<" ", "#", "=", "a">>}}

Suffix(array) ==
    CASE array[1] = "Single" -> <<>> [] array[1] = "Unbounded" -> <<"[", "]">>
      [] array[1] = "Fixed" -> <<"[", array[2], "]">>
      [] array[1] = "Bounded" -> <<"[", "<", "=", array[2], "]">>
WrittenType(t) ==
    (IF t.pkg = <<>> THEN <<>> ELSE t.pkg \o <<"/">>) \o t.base
    \o (IF t.bound = <<>> THEN <<>> ELSE <<"<", "=">> \o t.bound) \o Suffix(t.array)
WrittenLine(y) ==
    <<" ">> \o WrittenType(y.type) \o <<" ", "a">>
    \o (IF y.default = <<>> THEN <<>> ELSE <<" ">> \o y.default) \o y.comment

\* The type that was meant.
MeantType(t) ==
    [base |-> t.base, pkg |-> IF t.pkg = <<>> /\ t.base = <<"Header">> THEN <<"std_msgs">> ELSE t.pkg,
     array |-> IF Len(t.array) = 2 THEN <<t.array[1], Numerals[t.array[2]]>> ELSE t.array,
     bound |-> IF t.bound = <<>> THEN <<>> ELSE <<Numerals[t.bound[1]]>>]
Bounded(t) == t.bound # <<>> \/ t.array[1] = "Bounded"

\* A field that is written down is read as that field, whatever its type, with a
\* comment or without one and with a default value or without one.  Nothing is
\* claimed of defaults whose text holds "#" or "=" (no quotes are looked for
\* before comments and constants are), of the empty array and of a string in an
\* array that holds a comma.
PlainDefault(d) ==
    Find(d, "#") = 0 /\ Find(d, "=") = 0 /\ d \notin {<<"[", "]">>, <<"[", "\"", ",", "\"", "]">>}
FieldsRead ==
    part = "lines" /\ PlainDefault(x.default) =>
       \A msg \in {parse_msg_string(<<WrittenLine(x)>>)} :
          /\ msg \notin Outcomes
          /\ msg[2].constants = <<>> /\ Len(msg[2].fields) = 1
          /\ msg[2].fields[1].name = <<"a">>
          /\ msg[2].fields[1].type = MeantType(x.type)
          /\ (msg[2].fields[1].default = NoDefault) = (x.default = <<>>)

-----------------------------------------------------------------------------
(* Packages: x is a line that a message, a service and an action begin with *)

PackageInputs ==
    UNION {[1..n -> {"int8", " ", "a", "=", "<", "[", "]", "two", "#", "\""}] : n \in 0..3}
    \cup {WrittenType(t) \o <<" ", "a">> \o d :
            t \in WrittenTypes, d \in {<<>>, <<"=", "two">>, <<" ", "=", "two">>}}

PackageOf(line) ==
    [name |-> "dir", manifest |-> "pkg",
     msg |-> [f \in {"M"} |-> <<line>>],
     srv |-> [f \in {"M"} |-> <<line, <<"---", " ">>, <<>>>>],
     action |-> [f \in {"M"} |-> [lines |-> <<line, Rule, <<"bool", " ", "b">>, Rule, <<>>>>, ended |-> TRUE]]]

\* The same line means the same in a message, in the request of a service and in
\* the goal of an action, if it has no "=" or is a constant with a type, a name
\* and a value.  Of the other lines with "=" nothing is claimed for the action:
\* it takes the bound of "string<=5 a" for the value of a constant.
Comparable(line) ==
    \/ Find(line, "=") = 0
    \/ /\ IsConstant(line)
       /\ \A c \in {parse_constant(line)} : c # Malformed /\ c[2].name # <<>>
SameEverywhere ==
    part = "packages" =>
       \A dir \in {PackageOf(x)} :
       \A msgs \in {discover_messages(dir)}, srvs \in {discover_services(dir)},
          acts \in {discover_actions(dir)}, whole \in {discover_all({dir})} :
       LET only(found) == CHOOSE p \in found[2] : TRUE
       IN  /\ (msgs = Malformed) = (srvs = Malformed)
           /\ (whole = Malformed) = (Malformed \in {msgs, srvs, acts})
           /\ msgs # Malformed => only(srvs)[2][2][1] = only(msgs)[2][2]
           /\ Comparable(Trimmed(strip_comment(x))) =>
                 /\ (msgs = Malformed) = (acts = Malformed)
                 /\ msgs # Malformed => only(acts)[2][2][1] = only(msgs)[2]
           /\ whole # Malformed => \A p \in whole[2] : p[1] = "pkg"

-----------------------------------------------------------------------------
(* Files of rules and blank lines: x is a file *)

FileInputs ==
    {[lines |-> ls, ended |-> e] : e \in BOOLEAN,
        ls \in UNION {[1..n -> {Rule, <<"---", " ">>, <<>>, <<"bool", " ", "a">>}] : n \in 0..5}}

\* An action whose two rules stand between other lines, with no blank after
\* them, has three sections, and each field of the file is in the section it was
\* written in; a service has one rule, blanks aside, and its fields on the right
\* side of it.  Nothing is claimed of actions with a rule at either end of the
\* file, right after another or followed by a blank.
NumberOf(ls, from, to) == Cardinality({i \in from..to : Trimmed(ls[i]) \notin {<<>>, Rule}})
SectionsFound ==
    part = "files" =>
       \A act \in {parse_action(x)}, srv \in {parse_srv_string(x.lines)} :
       LET ls == x.lines
           rules == {i \in DOMAIN ls : Trimmed(ls[i]) = Rule}
           clear(i) == ls[i] = Rule /\ i > 1 /\ (i < Len(ls) \/ x.ended) /\ ls[i - 1] # Rule
           count(section) == IF section = <<"absent">> THEN 0 ELSE Len(section[2].fields)
       IN  /\ \A i, k \in rules : i < k /\ rules = {i, k} /\ clear(i) /\ clear(k) =>
                 /\ act # Malformed
                 /\ <<count(act[2][1]), count(act[2][2]), count(act[2][3])>> =
                       <<NumberOf(ls, 1, i - 1), NumberOf(ls, i + 1, k - 1), NumberOf(ls, k + 1, Len(ls))>>
           /\ \A i \in rules : rules = {i} =>
                 /\ srv # Malformed
                 /\ <<Len(srv[2][1].fields), Len(srv[2][2].fields)>> =
                       <<NumberOf(ls, 1, i - 1), NumberOf(ls, i + 1, Len(ls))>>
           /\ srv # Malformed => Cardinality(rules) = 1
=============================================================================
