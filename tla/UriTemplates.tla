---- MODULE UriTemplates ----
(***************************************************************************)
(* URI templates (src/src/detail/UriTemplate.hpp): parsing, expansion and  *)
(* matching.  A text is a sequence of symbols: characters, and the escape  *)
(* of a character c, which is the one symbol "%" \o c.  A lone "%" is a    *)
(* character like any other.  Variable names are single symbols.           *)
(***************************************************************************)
EXTENDS Naturals, Sequences, FiniteSets, FiniteSetsExt, SequencesExt

BadExpression == [op |-> "bad", text |-> <<>>, names |-> <<>>]
BadTemplate   == <<BadExpression>>
NoValue       == <<"no value">>
NoMatch       == [n \in {"no match"} |-> <<>>]

NameSymbols == {"a", "b", "x", "y", "z"}
Unreserved  == NameSymbols \cup {"-", "."}
Reserved    == {":", "/", "?", "#", "&", "+", ",", ";", "=", "@", "!"}
Others      == {" ", "%", "{", "}"}
Escape(c)   == "%" \o c
Escapes     == {Escape(c) : c \in Unreserved \cup Reserved \cup Others}
Unescaped(e) == CHOOSE c \in Unreserved \cup Reserved \cup Others : Escape(c) = e

----------------------------------------------------------------------------
\* The operators of an expression.

MultiSegment == {"+", "#"}                     \* Reserved and Fragment keep reserved characters
PrefixOperators == {"#", ".", "/", ";", "?", "&"}     \* these are written as they are
OperatorChars == MultiSegment \cup PrefixOperators
FutureOperators == {"=", ",", "!", "@"}
OperatorPrefix(op) == IF op \in PrefixOperators THEN <<op>> ELSE <<>>
OperatorSeparator(op) ==
  CASE op \in {".", "/", ";"} -> op [] op \in {"?", "&"} -> "&" [] OTHER -> ","

----------------------------------------------------------------------------
\* Parse.

\* The names of an expression are separated by commas; a trailing "*" is dropped.
ParseNames(body) ==
  LET commas == {i \in DOMAIN body : body[i] = ","}
      from == {1} \cup {i + 1 : i \in commas}
      end(i) == Min({j \in commas : j >= i} \cup {Len(body) + 1})
      item(i) == SubSeq(body, i, end(i) - 1)
      bare(s) == IF s # <<>> /\ Last(s) = "*" THEN Front(s) ELSE s
      starts == SetToSortSeq(from, <)
  IN [n \in DOMAIN starts |-> bare(item(starts[n]))]

ParseExpression(body) ==
  LET operator == body # <<>> /\ body[1] \in OperatorChars
      names == ParseNames(IF operator THEN Tail(body) ELSE body)
  IN IF body = <<>> \/ body[1] \in FutureOperators
        \/ \E n \in DOMAIN names : Len(names[n]) # 1 \/ names[n][1] \notin NameSymbols
     THEN BadExpression
     ELSE [op |-> IF operator THEN body[1] ELSE "", text |-> <<>>, names |-> [n \in DOMAIN names |-> names[n][1]]]

Literal(text) == [op |-> "literal", text |-> text, names |-> <<>>]

\* An expression may follow another one only if it writes a prefix of its own.
Separated(segments, e) ==
  \/ segments = <<>>
  \/ Last(segments).op = "literal"
  \/ e.op \in PrefixOperators

AddExpression(segments, e, maxVariables) ==
  LET names == FoldLeft(LAMBDA n, s : n + Len(s.names), Len(e.names), segments)
      multi == e.op \in MultiSegment /\ \E i \in DOMAIN segments : segments[i].op \in MultiSegment
  IN IF e = BadExpression THEN BadTemplate
     ELSE IF names > maxVariables \/ multi \/ ~Separated(segments, e) THEN BadTemplate
     ELSE Append(segments, e)

\* The text between braces is an expression, the text outside them is literal.
ParseTemplate(text, maxVariables) ==
  LET opens == {i \in DOMAIN text : text[i] = "{"}
      closes == {i \in DOMAIN text : text[i] = "}"}
      close(i) == Min({j \in closes : j > i})
      inside(k) == \E i \in opens : i < k /\ {j \in closes : i < j /\ j < k} = {}
      outer == {i \in opens : ~inside(i)}
      starts == SetToSortSeq(outer, <)
      literal(i, j) == IF i > j THEN <<>> ELSE <<Literal(SubSeq(text, i, j))>>
      step(acc, i) ==
        IF acc.segments = BadTemplate THEN acc
        ELSE LET before == acc.segments \o literal(acc.at, i - 1)
             IN [segments |-> AddExpression(before, ParseExpression(SubSeq(text, i + 1, close(i) - 1)), maxVariables),
                 at |-> close(i) + 1]
      done == FoldLeft(step, [segments |-> <<>>, at |-> 1], starts)
  IN IF \/ \E i \in outer : {j \in closes : j > i} = {}
        \/ \E j \in closes : ~inside(j)
     THEN BadTemplate
     ELSE IF done.segments = BadTemplate THEN BadTemplate
     ELSE done.segments \o literal(done.at, Len(text))

----------------------------------------------------------------------------
\* Expand.

EncodeValue(value, preserve) ==
  [i \in DOMAIN value |->
     IF value[i] \in Unreserved \cup Escapes \/ (preserve /\ value[i] \in Reserved) THEN value[i]
     ELSE Escape(value[i])]

DecodeValue(text) == [i \in DOMAIN text |-> IF text[i] \in Escapes THEN Unescaped(text[i]) ELSE text[i]]

IsValidEncodedValue(text) == \A i \in DOMAIN text : text[i] \in Unreserved \cup Escapes

ExpandValue(op, name, value) ==
  CASE op = ";" -> <<name>> \o IF value = <<>> THEN <<>> ELSE <<"=">> \o EncodeValue(value, FALSE)
    [] op \in {"?", "&"} -> <<name, "=">> \o EncodeValue(value, FALSE)
    [] OTHER -> EncodeValue(value, op \in MultiSegment)

\* Variables without a value are left out, and with all of them the whole expression.
ExpandSegment(s, variables) ==
  LET defined == SelectSeq(s.names, LAMBDA n : n \in DOMAIN variables)
      value(i) == ExpandValue(s.op, defined[i], variables[defined[i]])
      join(out, i) == out \o (IF i = 1 THEN <<>> ELSE <<OperatorSeparator(s.op)>>) \o value(i)
  IN CASE s.op = "literal" -> s.text
       [] s.op # "literal" /\ defined = <<>> -> <<>>
       [] OTHER -> FoldLeft(join, OperatorPrefix(s.op), [i \in DOMAIN defined |-> i])

Expand(segments, variables) == FlattenSeq([i \in DOMAIN segments |-> ExpandSegment(segments[i], variables)])

----------------------------------------------------------------------------
\* Match.

\* Each variable with the literal text before it; the text after the last one is a part without a name.
BuildMatchParts(segments) ==
  LET named(s, n) == IF s.op = ";" THEN <<n>> ELSE IF s.op \in {"?", "&"} THEN <<n, "=">> ELSE <<>>
      lead(s, i) == IF i = 1 THEN OperatorPrefix(s.op) ELSE <<OperatorSeparator(s.op)>>
      part(s, i, pending) ==
        [literal |-> pending \o lead(s, i) \o named(s, s.names[i]), name |-> s.names[i],
         optional_equals |-> s.op = ";", preserve |-> s.op \in MultiSegment]
      parts(s, pending) == [i \in DOMAIN s.names |-> part(s, i, IF i = 1 THEN pending ELSE <<>>)]
      add(acc, s) == IF s.op = "literal" THEN [acc EXCEPT !.pending = @ \o s.text]
                     ELSE [parts |-> acc.parts \o parts(s, acc.pending), pending |-> <<>>]
      all == FoldLeft(add, [parts |-> <<>>, pending |-> <<>>], segments)
  IN [parts |-> all.parts, tail |-> all.pending]

At(uri, literal, i) == SubSeq(uri, i, i + Len(literal) - 1) = literal

\* Where the literal starts, no earlier than begin; 0 when it does not occur.
FindLiteral(uri, begin, literal, greedy) ==
  LET found == {i \in begin..(Len(uri) - Len(literal) + 1) : At(uri, literal, i)}
  IN IF found = {} THEN 0 ELSE IF greedy THEN Max(found) ELSE Min(found)

\* The "=" of a path-style parameter is taken for its value.
TakeValueMutant(part, raw) == IF ~part.preserve /\ ~IsValidEncodedValue(raw) THEN NoValue ELSE DecodeValue(raw)

\* The value between one literal and the next, NoValue when the variable cannot have written it.
TakeValue(part, raw) ==
  LET value == IF part.optional_equals /\ raw # <<>> THEN Tail(raw) ELSE raw
  IN IF \/ part.optional_equals /\ raw # <<>> /\ raw[1] # "="
        \/ ~part.preserve /\ ~IsValidEncodedValue(value)
     THEN NoValue ELSE DecodeValue(value)

Match(segments, uri) ==
  LET built == BuildMatchParts(segments)
      parts == built.parts
      count == Len(parts)
      next(i) == IF i = count THEN built.tail ELSE parts[i + 1].literal
      step(acc, i) ==
        LET end == FindLiteral(uri, acc.at, next(i), parts[i].preserve \/ i = count)
            value == TakeValue(parts[i], SubSeq(uri, acc.at, end - 1))
        IN IF acc.at = 0 \/ end = 0 THEN [acc EXCEPT !.at = 0]
           ELSE IF value = NoValue THEN [acc EXCEPT !.at = 0]
           ELSE [at |-> end + Len(next(i)),
                 matched |-> [n \in DOMAIN acc.matched \cup {parts[i].name} |->
                                IF n = parts[i].name THEN value ELSE acc.matched[n]]]
      start == [at |-> 1 + Len(parts[1].literal), matched |-> [n \in {} |-> <<>>]]
      done == FoldLeft(step, start, [i \in 1..count |-> i])
  IN IF count = 0 THEN IF uri = built.tail THEN [n \in {} |-> <<>>] ELSE NoMatch
     ELSE IF \/ Len(uri) < Len(parts[1].literal) + Len(built.tail)
             \/ ~At(uri, parts[1].literal, 1)
             \/ ~At(uri, built.tail, Len(uri) - Len(built.tail) + 1)
          THEN NoMatch
     ELSE IF done.at = Len(uri) + 1 THEN done.matched ELSE NoMatch
====
