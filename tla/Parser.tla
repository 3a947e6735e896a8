------------------------------- MODULE Parser -------------------------------
(***************************************************************************)
(* Reading .msg, .srv and .action files: ros-z-codegen/src/parser and      *)
(* discovery.rs.                                                           *)
(*                                                                         *)
(* A line is a sequence of tokens: blanks (" "), the punctuation the       *)
(* parser looks for, quotes, numerals and words.  A file is a sequence of  *)
(* lines, and whether the last one ends with a newline.  Parsing gives a   *)
(* value, Malformed (an error) or Panicked.                                   *)
(***************************************************************************)
EXTENDS Integers, Sequences, FiniteSets, SequencesExt

Numerals == [zero |-> 0, two |-> 2, five |-> 5]
Booleans == {"true", "True", "false", "False"}
Quotes == {"'", "\""}
Malformed == <<"malformed">>
Panicked == <<"panicked">>
NoDefault == <<"none">>
Ok(v) == <<"ok", v>>

Find(s, t) == IF \E i \in 1..Len(s) : s[i] = t
              THEN CHOOSE i \in 1..Len(s) : s[i] = t /\ \A j \in 1..(i - 1) : s[j] # t ELSE 0
Count(s, t) == Cardinality({i \in 1..Len(s) : s[i] = t})
Before(s, i) == SubSeq(s, 1, i - 1)
After(s, i) == SubSeq(s, i + 1, Len(s))
Pieces(s, t) == FoldLeft(LAMBDA ps, c : IF c = t THEN Append(ps, <<>>)
                                        ELSE [ps EXCEPT ![Len(ps)] = Append(@, c)], <<<<>>>>, s)
Words(s) == SelectSeq(Pieces(s, " "), LAMBDA w : w # <<>>)
WithBlanks(ws) == FoldLeft(LAMBDA s, w : IF s = <<>> THEN w ELSE s \o <<" ">> \o w, <<>>, ws)
Trimmed(s) ==
    LET solid == {i \in 1..Len(s) : s[i] # " "} IN
    IF solid = {} THEN <<>>
    ELSE SubSeq(s, CHOOSE i \in solid : \A j \in solid : i <= j,
                   CHOOSE i \in solid : \A j \in solid : j <= i)
IsNumeral(s) == Len(s) = 1 /\ s[1] \in DOMAIN Numerals

strip_comment(line) == IF Find(line, "#") = 0 THEN line ELSE Before(line, Find(line, "#"))

-----------------------------------------------------------------------------
(* Fields and constants *)

TypeRead(base, pkg, array, bound) ==
    Ok([base |-> base, pkg |-> pkg, array |-> array, bound |-> bound])

parse_array(inner) ==
    LET bounded == Len(inner) > 1 /\ SubSeq(inner, 1, 2) = <<"<", "=">>
        size == IF bounded THEN After(inner, 2) ELSE inner
    IN  IF inner = <<>> THEN <<"Unbounded">>
        ELSE IF ~IsNumeral(size) THEN Malformed
        ELSE <<IF bounded THEN "Bounded" ELSE "Fixed", Numerals[size[1]]>>

ScopedType(base, array) ==
    LET slash == Find(base, "/") IN
    CASE array = Malformed -> Malformed
      [] slash # 0 -> TypeRead(After(base, slash), Before(base, slash), array, <<>>)
      [] OTHER -> TypeRead(base, IF base = <<"Header">> THEN <<"std_msgs">> ELSE <<>>, array, <<>>)

\* The bound of a string is seen only if there is no bracket.
parse_field_type(w) ==
    LET lt == Find(w, "<")
        br == Find(w, "[")
    IN  CASE lt # 0 /\ br = 0 /\ Len(w) > lt /\ w[lt + 1] = "=" ->
                IF IsNumeral(After(w, lt + 1))
                THEN TypeRead(Before(w, lt), <<>>, <<"Single">>, <<Numerals[w[lt + 2]]>>) ELSE Malformed
          [] br = 0 -> ScopedType(w, <<"Single">>)
          [] w[Len(w)] # "]" -> Malformed
          [] OTHER -> ScopedType(Before(w, br), parse_array(SubSeq(w, br + 1, Len(w) - 1)))

\* The first quote is also the last if there is only one: the slice between
\* them panics.
Quoted(s) == s # <<>> /\ s[1] \in Quotes /\ s[Len(s)] = s[1]
Unquoted(s) == IF Len(s) = 1 THEN Panicked ELSE SubSeq(s, 2, Len(s) - 1)

Sorts == <<[name |-> "Bool", has |-> {<<b>> : b \in Booleans}],
           [name |-> "Int", has |-> {<<n>> : n \in DOMAIN Numerals}],
           [name |-> "Float", has |-> {<<n>> : n \in DOMAIN Numerals \cup {"1.5"}}]>>

\* The first sort that all elements have; strings come last.
ValueOf(array, es) ==
    LET fits == {k \in 1..3 : \A i \in DOMAIN es : es[i] \in Sorts[k].has} IN
    CASE fits # {} -> <<Sorts[CHOOSE k \in fits : \A j \in fits : k <= j].name, array, es>>
      [] \E i \in DOMAIN es : ~Quoted(es[i]) /\ \A j \in 1..(i - 1) : Quoted(es[j]) ->
            IF \E i \in DOMAIN es : Quoted(es[i]) /\ Len(es[i]) = 1
                                    /\ \A j \in 1..i : Quoted(es[j])
            THEN Panicked ELSE Malformed
      [] \E i \in DOMAIN es : Unquoted(es[i]) = Panicked -> Panicked
      [] OTHER -> <<"String", array, [i \in DOMAIN es |-> Unquoted(es[i])]>>

TrimmedAll(ss) == [i \in DOMAIN ss |-> Trimmed(ss[i])]
parse_default_value(s) ==
    LET inner == SubSeq(s, 2, Len(s) - 1) IN
    IF ~(Len(s) > 1 /\ s[1] = "[" /\ s[Len(s)] = "]") THEN ValueOf(FALSE, <<s>>)
    ELSE IF inner = <<>> THEN Malformed ELSE ValueOf(TRUE, TrimmedAll(Pieces(inner, ",")))

parse_constant(line) ==
    LET eq == Find(line, "=")
        ws == Words(Before(line, eq))
    IN  IF eq = 0 \/ Len(ws) \notin {1, 2} THEN Malformed
        ELSE Ok([type |-> ws[1], name |-> IF Len(ws) = 2 THEN ws[2] ELSE <<>>,
                 value |-> Trimmed(After(line, eq))])

FieldRead(name, type, default) ==
    IF type = Malformed THEN Malformed
    ELSE IF default \in {Malformed, Panicked} THEN default
    ELSE Ok([name |-> name, type |-> type[2], default |-> default])
FieldOf(ws) ==
    IF Len(ws) < 2 THEN Malformed
    ELSE FieldRead(ws[2], parse_field_type(ws[1]),
                   IF Len(ws) > 2 THEN parse_default_value(WithBlanks(SubSeq(ws, 3, Len(ws))))
                   ELSE NoDefault)
parse_field(line) == FieldOf(Words(line))

-----------------------------------------------------------------------------
(* Files *)

\* The first "=" does not belong to "<=", and is not inside brackets.
IsConstant(line) ==
    LET eq == Find(line, "=") IN
    /\ eq # 0
    /\ eq = 1 \/ line[eq - 1] # "<"
    /\ Count(Before(line, eq), "[") = Count(Before(line, eq), "]")

NoMessage == [fields |-> <<>>, constants |-> <<>>]
Outcomes == {Malformed, Panicked}
WithField(msg, f) ==
    IF f \in Outcomes THEN f ELSE Ok([msg EXCEPT !.fields = Append(@, f[2])])
WithConstant(msg, c) == Ok([msg EXCEPT !.constants = Append(@, c[2])])

\* The message, or what went wrong first.
MessageLine(acc, line) ==
    IF acc \in Outcomes \/ line = <<>> THEN acc
    ELSE IF IsConstant(line)
         THEN LET c == parse_constant(line) IN
              IF c = Malformed \/ c[2].name = <<>> THEN acc ELSE WithConstant(acc[2], c)
         ELSE WithField(acc[2], parse_field(line))
parse_msg_string(lines) ==
    FoldLeft(LAMBDA acc, raw : MessageLine(acc, Trimmed(strip_comment(raw))), Ok(NoMessage), lines)

\* A section of an action: every "=" makes a constant, and a bad one is an error.
SectionLine(acc, line) ==
    IF acc \in Outcomes \/ line = <<>> THEN acc
    ELSE IF Find(line, "=") # 0
         THEN LET c == parse_constant(line) IN
              IF c = Malformed THEN Malformed ELSE WithConstant(acc[2], c)
         ELSE WithField(acc[2], parse_field(line))
parse_action_section(lines) ==
    FoldLeft(LAMBDA acc, raw : SectionLine(acc, Trimmed(strip_comment(raw))), Ok(NoMessage), lines)

Rule == <<"---">>

\* One line that is a rule, blanks aside.
ServiceOf(request, response) ==
    IF request \in Outcomes THEN request
    ELSE IF response \in Outcomes THEN response ELSE Ok(<<request[2], response[2]>>)
parse_srv_string(lines) ==
    LET rules == {i \in 1..Len(lines) : Trimmed(lines[i]) = Rule}
        i == CHOOSE i \in rules : TRUE
    IN  IF Cardinality(rules) # 1 THEN Malformed
        ELSE ServiceOf(parse_msg_string(Before(lines, i)), parse_msg_string(After(lines, i)))

\* split("\n---\n"): a newline on both sides, and none is used twice.
Separators(file) ==
    LET n == Len(file.lines)
        whole(i) == file.lines[i] = Rule /\ i > 1 /\ (i < n \/ file.ended)
    IN  FoldLeft(LAMBDA seps, i : IF whole(i) /\ i - 1 \notin seps THEN seps \cup {i} ELSE seps,
                 {}, [i \in 1..n |-> i])

\* A section with nothing but blanks in it is none.
OptionalSection(lines) ==
    IF \A i \in DOMAIN lines : Trimmed(lines[i]) = <<>> THEN <<"absent">>
    ELSE parse_action_section(lines)

ActionOf(goal, result, feedback) ==
    IF goal \in Outcomes THEN goal ELSE IF result \in Outcomes THEN result
    ELSE IF feedback \in Outcomes THEN feedback ELSE Ok(<<goal, result, feedback>>)
\* A mutant: the sections after the goal are taken in the wrong order.
parse_action_Swapped(file) ==
    LET seps == Separators(file)
        i == CHOOSE i \in seps : \A j \in seps : i <= j
        k == CHOOSE k \in seps : \A j \in seps : j <= k
    IN  IF Cardinality(seps) # 2 THEN Malformed
        ELSE ActionOf(parse_action_section(Before(file.lines, i)),
                      OptionalSection(After(file.lines, k)),
                      OptionalSection(SubSeq(file.lines, i + 1, k - 1)))

parse_action(file) ==
    LET seps == Separators(file)
        i == CHOOSE i \in seps : \A j \in seps : i <= j
        k == CHOOSE k \in seps : \A j \in seps : j <= k
    IN  IF Cardinality(seps) # 2 THEN Malformed
        ELSE ActionOf(parse_action_section(Before(file.lines, i)),
                      OptionalSection(SubSeq(file.lines, i + 1, k - 1)),
                      OptionalSection(After(file.lines, k)))

-----------------------------------------------------------------------------
(* Packages: a directory with a manifest (or "none") and its files by kind. *)

discover_package_name(dir) == IF dir.manifest # "none" THEN dir.manifest ELSE dir.name

\* The first file that cannot be read fails the whole package.
AllRead(parsed) == IF \E p \in parsed : p[2] \in Outcomes THEN Malformed ELSE Ok(parsed)
discover_messages(dir) == AllRead({<<f, parse_msg_string(dir.msg[f])>> : f \in DOMAIN dir.msg})
discover_services(dir) == AllRead({<<f, parse_srv_string(dir.srv[f])>> : f \in DOMAIN dir.srv})
discover_actions(dir) == AllRead({<<f, parse_action(dir.action[f])>> : f \in DOMAIN dir.action})

\* Every package, or an error if any part of one cannot be read.
AllPackages(found) ==
    IF \E p \in found : Malformed \in {p[2], p[3], p[4]} THEN Malformed ELSE Ok(found)
discover_all(dirs) ==
    AllPackages({<<discover_package_name(d), discover_messages(d), discover_services(d),
                   discover_actions(d)>> : d \in dirs})

=============================================================================
