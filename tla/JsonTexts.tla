---- MODULE JsonTexts ----
(***************************************************************************)
(* JSON texts: Dump and SanitizeUtf8 (src/src/core/JsonValue.cpp) and the  *)
(* parser (src/src/core/JsonParser.cpp).  A text is a sequence of bytes, a *)
(* string value and a member's name too.  A double is a number of          *)
(* hundredths; those that are written with an exponent are left out.  The  *)
(* width of an integer and the depth of a text are parameters.             *)
(***************************************************************************)
EXTENDS WireTypes, Integers, SequencesExt

CONSTANTS MaxInt,          \* 2^63 - 1 in the program
          MaxDepth         \* kMaxDepth

NotFinite == <<"nan", 0>>                      \* a double that is infinite or not a number
End == -1
ByteAt(t, i) == IF i <= Len(t) THEN t[i] ELSE End

Quote     == 34
Backslash == 92
Comma     == 44
Colon     == 58
DigitBytes == 48..57
Spaces == {32, 9, 13, 10}
Literals == [null |-> <<110, 117, 108, 108>>, true |-> <<116, 114, 117, 101>>, false |-> <<102, 97, 108, 115, 101>>]
\* The characters that are escaped with a letter, by that letter.
Letters == [e \in {34, 92, 98, 102, 110, 114, 116} |->
              CASE e = 98 -> 8 [] e = 102 -> 12 [] e = 110 -> 10 [] e = 114 -> 13 [] e = 116 -> 9 [] OTHER -> e]

----------------------------------------------------------------------------
\* UTF-8.

\* The length of the sequence at i, 0 if it is none: leading byte, bytes after it, bounds of the first of these.
SequenceLength(t, i) ==
  LET leads == {<<194, 223, 1, 128, 191>>, <<224, 224, 2, 160, 191>>, <<225, 236, 2, 128, 191>>,
                <<237, 237, 2, 128, 159>>, <<238, 239, 2, 128, 191>>, <<240, 240, 3, 144, 191>>,
                <<241, 243, 3, 128, 191>>, <<244, 244, 3, 128, 143>>}
      fits(l) == /\ t[i] \in l[1]..l[2] /\ i + l[3] <= Len(t)
                 /\ t[i + 1] \in l[4]..l[5]
                 /\ \A k \in 2..l[3] : t[i + k] \in 128..191
  IN IF \E l \in leads : fits(l) THEN (CHOOSE l \in leads : fits(l))[3] + 1 ELSE 0

AppendUtf8(cp) ==
  LET later(k) == 128 + ((cp \div (64 ^ k)) % 64)
  IN CASE cp < 128 -> <<cp>>
       [] cp >= 128 /\ cp < 2048 -> <<192 + cp \div 64, later(0)>>
       [] cp >= 2048 /\ cp < 65536 -> <<224 + cp \div 4096, later(1), later(0)>>
       [] OTHER -> <<240 + cp \div 262144, later(2), later(1), later(0)>>

\* Every byte that is not part of a sequence becomes U+FFFD.
SanitizeUtf8(t) ==
  LET RECURSIVE from(_)
      from(i) == IF i > Len(t) THEN <<>>
                 ELSE IF t[i] < 128 THEN <<t[i]>> \o from(i + 1)
                 ELSE LET n == SequenceLength(t, i)
                      IN IF n = 0 THEN <<239, 191, 189>> \o from(i + 1) ELSE SubSeq(t, i, i + n - 1) \o from(i + n)
  IN from(1)

----------------------------------------------------------------------------
\* Dump.

\* Control characters are written as they are.
EscapedMutant(c) == IF \E e \in DOMAIN Letters : Letters[e] = c
                    THEN <<Backslash, CHOOSE e \in DOMAIN Letters : Letters[e] = c>> ELSE <<c>>

HexByte(n) == IF n < 10 THEN 48 + n ELSE 87 + n
Escaped(c) ==
  CASE \E e \in DOMAIN Letters : Letters[e] = c -> <<Backslash, CHOOSE e \in DOMAIN Letters : Letters[e] = c>>
    [] c < 32 /\ ~\E e \in DOMAIN Letters : Letters[e] = c -> <<Backslash, 117, 48, 48, HexByte(c \div 16), HexByte(c % 16)>>
    [] OTHER -> <<c>>
AppendEscapedString(s) == <<Quote>> \o FlattenSeq([i \in DOMAIN s |-> Escaped(s[i])]) \o <<Quote>>

Decimal(n) ==
  LET RECURSIVE digits(_)
      digits(k) == IF k < 10 THEN <<48 + k>> ELSE Append(digits(k \div 10), 48 + (k % 10))
  IN IF n < 0 THEN <<45>> \o digits(-n) ELSE digits(n)

\* The shortest digits; a double that looks like an integer gets ".0".
FormatDouble(h) ==
  LET n == IF h < 0 THEN -h ELSE h
      sign == IF h < 0 THEN <<45>> ELSE <<>>
      fraction == IF n % 100 = 0 THEN <<48>>
                  ELSE IF n % 10 = 0 THEN <<48 + ((n \div 10) % 10)>> ELSE <<48 + ((n \div 10) % 10), 48 + (n % 10)>>
  IN sign \o Decimal(n \div 100) \o <<46>> \o fraction

\* The order of std::map's keys.
Before(s, t) ==
  \E n \in 0..Len(s) : /\ n <= Len(t) /\ SubSeq(s, 1, n) = SubSeq(t, 1, n)
                       /\ n < Len(t) /\ (n = Len(s) \/ s[n + 1] < t[n + 1])

\* Without indentation (-1) on one line, with it one element a line.
RECURSIVE DumpValue(_, _, _)
DumpValue(v, indent, depth) ==
  LET wide == indent >= 0
      line(level) == IF wide THEN <<10>> \o [i \in 1..(level * indent) |-> 32] ELSE <<>>
      joined(parts) == FlattenSeq([i \in DOMAIN parts |-> (IF i = 1 THEN <<>> ELSE <<Comma>>) \o line(depth + 1) \o parts[i]])
      keys == SetToSortSeq(DOMAIN v[2], Before)
      member(k) == AppendEscapedString(k) \o (IF wide THEN <<Colon, 32>> ELSE <<Colon>>)
                   \o DumpValue(v[2][k], indent, depth + 1)
  IN CASE Tag(v) \in {"null", "nan"} -> Literals["null"]
       [] Tag(v) = "bool" -> IF v[2] THEN Literals["true"] ELSE Literals["false"]
       [] Tag(v) = "int" -> Decimal(v[2])
       [] Tag(v) = "num" -> FormatDouble(v[2])
       [] Tag(v) = "str" -> AppendEscapedString(v[2])
       [] Tag(v) = "arr" -> IF v[2] = <<>> THEN <<91, 93>>
                            ELSE <<91>> \o joined([i \in DOMAIN v[2] |-> DumpValue(v[2][i], indent, depth + 1)])
                                 \o line(depth) \o <<93>>
       [] Tag(v) = "obj" -> IF DOMAIN v[2] = {} THEN <<123, 125>>
                            ELSE <<123>> \o joined([i \in DOMAIN keys |-> member(keys[i])]) \o line(depth) \o <<125>>

Dump(v, indent) == DumpValue(v, indent, 0)

----------------------------------------------------------------------------
\* The parser.  Its parts return the value they read and where they stopped.

Taken(v, i) == [v |-> v, i |-> i]
Fail == Taken(Err, 0)

RECURSIVE SkipWhitespace(_, _), DigitsEnd(_, _)
SkipWhitespace(t, i) == IF ByteAt(t, i) \in Spaces THEN SkipWhitespace(t, i + 1) ELSE i
DigitsEnd(t, i) == IF ByteAt(t, i) \in DigitBytes THEN DigitsEnd(t, i + 1) ELSE i

\* The four hexadecimal digits at i, End if they are not there.
ParseHex4(t, i) ==
  LET digit(c) == CASE c \in DigitBytes -> c - 48 [] c \in 97..102 -> c - 87 [] c \in 65..70 -> c - 55 [] OTHER -> End
      d == [k \in 1..4 |-> digit(ByteAt(t, i + k - 1))]
  IN IF End \in {d[1], d[2], d[3], d[4]} THEN End ELSE d[1] * 4096 + d[2] * 256 + d[3] * 16 + d[4]

\* After "\u": one code point, which may take two escapes.
ParseUnicodeEscape(t, i) ==
  LET high == ParseHex4(t, i)
      low == IF ByteAt(t, i + 4) = Backslash /\ ByteAt(t, i + 5) = 117 THEN ParseHex4(t, i + 6) ELSE End
  IN CASE high = End \/ high \in 56320..57343 -> Fail
       [] high \in 55296..56319 -> IF low \in 56320..57343
                                   THEN Taken(AppendUtf8(65536 + (high - 55296) * 1024 + (low - 56320)), i + 10) ELSE Fail
       [] OTHER -> Taken(AppendUtf8(high), i + 4)

\* The characters of a string up to its closing quote.
ParseString(t, start) ==
  LET RECURSIVE from(_, _)
      escaped(u, out) == IF u.i = 0 THEN Fail ELSE from(u.i, out \o u.v)
      from(i, out) ==
        LET c == ByteAt(t, i)
            e == ByteAt(t, i + 1)
            n == SequenceLength(t, i)
        IN CASE c = Quote -> Taken(Str(out), i + 1)
             [] c = Backslash /\ e \in DOMAIN Letters -> from(i + 2, Append(out, Letters[e]))
             [] c = Backslash /\ e = 47 -> from(i + 2, Append(out, 47))
             [] c = Backslash /\ e = 117 -> escaped(ParseUnicodeEscape(t, i + 2), out)
             [] c \in 32..127 \ {Quote, Backslash} -> from(i + 1, Append(out, c))
             [] c >= 128 -> IF n = 0 THEN Fail ELSE from(i + n, out \o SubSeq(t, i, i + n - 1))
             [] OTHER -> Fail
  IN from(start + 1, <<>>)

Number(digits) == FoldLeft(LAMBDA n, d : 10 * n + (d - 48), 0, digits)

\* An integer must fit its width; a fraction or an exponent makes a double.
ParseNumberToken(minus, digits, fraction, power, float) ==
  LET whole == Number(digits)
      n == IF minus THEN -whole ELSE whole
      hundredths == Number(SubSeq(digits \o fraction \o <<48, 48>>, 1, Len(digits) + 2))
      scaled == CASE power >= 0 -> hundredths * 10 ^ power [] OTHER -> hundredths \div 10 ^ (-power)
  IN IF float THEN Num(IF minus THEN -scaled ELSE scaled)
     ELSE IF n \in (-MaxInt - 1)..MaxInt THEN Whole(n) ELSE Err

ParseNumber(t, start) ==
  LET minus == t[start] = 45
      i == IF minus THEN start + 1 ELSE start
      j == DigitsEnd(t, i)
      dot == ByteAt(t, j) = 46
      k == IF dot THEN DigitsEnd(t, j + 1) ELSE j
      exp == ByteAt(t, k) \in {101, 69}
      s == IF exp /\ ByteAt(t, k + 1) \in {43, 45} THEN k + 2 ELSE k + 1
      m == IF exp THEN DigitsEnd(t, s) ELSE k
      power == IF ~exp THEN 0 ELSE IF t[k + 1] = 45 THEN -Number(SubSeq(t, s, m - 1)) ELSE Number(SubSeq(t, s, m - 1))
      v == ParseNumberToken(minus, SubSeq(t, i, j - 1), IF dot THEN SubSeq(t, j + 1, k - 1) ELSE <<>>, power, dot \/ exp)
  IN IF j = i \/ (ByteAt(t, i) = 48 /\ j > i + 1) \/ (dot /\ k = j + 1) \/ (exp /\ m = s) \/ v = Err
     THEN Fail ELSE Taken(v, m)

ParseScalarValue(t, i) ==
  LET literal(v, name) == IF IsPrefix(Literals[name], SubSeq(t, i, Len(t)))
                          THEN Taken(v, i + Len(Literals[name])) ELSE Fail
      c == ByteAt(t, i)
  IN CASE c = Quote -> ParseString(t, i)
       [] c = 110 -> literal(Null, "null")
       [] c = 116 -> literal(Bool(TRUE), "true")
       [] c = 102 -> literal(Bool(FALSE), "false")
       [] c \in DigitBytes \cup {45} -> ParseNumber(t, i)
       [] OTHER -> Fail

\* An open object or array; phase 0: at its start or before a key, 1: before a value, 2: behind a value.
Frame(object) == [object |-> object, items |-> <<>>, members |-> NoMembers, key |-> <<>>, phase |-> 0]
ClosingByte(f) == IF f.object THEN 125 ELSE 93
Built(f) == IF f.object THEN Obj(f.members) ELSE Arr(f.items)
\* A value goes to the innermost open frame; of two members of one name the first is kept.
Completed(stack, v) ==
  LET top == Last(stack)
  IN Append(Front(stack), IF top.object THEN [top EXCEPT !.members = @ @@ (top.key :> v), !.phase = 2]
                          ELSE [top EXCEPT !.items = Append(@, v), !.phase = 2])

RECURSIVE ParseContainer(_, _, _)
ParseContainer(t, start, stack) ==
  LET i == SkipWhitespace(t, start)
      c == ByteAt(t, i)
      top == Last(stack)
      outer == Front(stack)
      next == SkipWhitespace(t, i + 1)
      keyed(key) == LET colon == SkipWhitespace(t, key.i)
                    IN IF key = Fail \/ ByteAt(t, colon) # Colon THEN Fail
                       ELSE ParseContainer(t, colon + 1, Append(outer, [top EXCEPT !.key = key.v[2], !.phase = 1]))
      filled(scalar) == IF scalar = Fail THEN Fail ELSE ParseContainer(t, scalar.i, Completed(stack, scalar.v))
  IN CASE top.phase = 2 /\ c = Comma ->
            IF ByteAt(t, next) \in {End, ClosingByte(top)} THEN Fail
            ELSE ParseContainer(t, next, Append(outer, [top EXCEPT !.phase = IF top.object THEN 0 ELSE 1]))
       [] top.phase # 1 /\ c = ClosingByte(top) ->
            IF outer = <<>> THEN Taken(Built(top), i + 1) ELSE ParseContainer(t, i + 1, Completed(outer, Built(top)))
       [] top.phase = 0 /\ top.object /\ c = Quote -> keyed(ParseString(t, i))
       [] c \in {91, 123} /\ top.phase < 2 /\ (top.object => top.phase = 1) ->
            IF Len(stack) >= MaxDepth THEN Fail ELSE ParseContainer(t, i + 1, Append(stack, Frame(c = 123)))
       [] top.phase < 2 /\ (top.object => top.phase = 1) /\ c \notin {91, 123, ClosingByte(top)} ->
            filled(ParseScalarValue(t, i))
       [] OTHER -> Fail

ParseDocument(t) ==
  LET i == SkipWhitespace(t, 1)
      c == ByteAt(t, i)
      alone(r) == IF r # Fail /\ SkipWhitespace(t, r.i) = Len(t) + 1 THEN r.v ELSE Err
  IN alone(IF c \in {91, 123} THEN ParseContainer(t, i + 1, <<Frame(c = 123)>>) ELSE ParseScalarValue(t, i))
====
