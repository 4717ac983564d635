-------------------------------- MODULE Json --------------------------------
(***************************************************************************)
(* The JSON reader and writer of source/lib/json.c.                        *)
(*                                                                         *)
(* A value is <<"null">>, <<"bool", b>>, <<"number", n, k>> (n * 10^-k,    *)
(* where 10 divides n only if k = 0), <<"string", bytes>>, <<"array",      *)
(* values>>, <<"object", fields>> (in insertion order, each <<bytes,       *)
(* value>>) or <<"function">>.  Numbers keep to those binary fractions     *)
(* that %.17g prints as they are.  Reading gives [ok, v, at]: a value and   *)
(* the position after it; the code's errors all end in ok = FALSE.         *)
(***************************************************************************)
EXTENDS Bytes

NumberMax == 64     \* sizeof(tmp)

Got(v, at)    == [ok |-> TRUE, v |-> v, at |-> at]
Refused(at)   == [ok |-> FALSE, v |-> <<"null">>, at |-> at]
Text(bytes)   == <<"string", bytes>>

White == {SPACE, TAB, CR, LF}
SkipWhite(s, i) == Scan(s, i, White)

----------------------------------------------------------------------------
(* Strings                                                                 *)

HexDigit(c) == CASE c \in Digits -> c - 48
                 [] c \in 65 .. 70 -> c - 55
                 [] c \in 97 .. 102 -> c - 87
                 [] OTHER -> -1

\* The four hex digits from i on, -1 if they are not.
Hex4(s, i) ==
  LET d == [k \in 0 .. 3 |-> HexDigit(ByteAt(s, i + k))]
  IN  IF \E k \in 0 .. 3 : d[k] = -1 THEN -1
      ELSE d[0] * 4096 + d[1] * 256 + d[2] * 16 + d[3]

Utf8(cp) ==
  CASE cp < 128 -> <<cp>>
    [] cp \in 128 .. 2047 -> <<192 + cp \div 64, 128 + (cp % 64)>>
    [] cp \in 2048 .. 65535 ->
         <<224 + cp \div 4096, 128 + ((cp \div 64) % 64), 128 + (cp % 64)>>
    [] OTHER -> <<240 + cp \div 262144, 128 + ((cp \div 4096) % 64),
                  128 + ((cp \div 64) % 64), 128 + (cp % 64)>>

HighSurrogates == 55296 .. 56319
LowSurrogates  == 56320 .. 57343

PairedWith(high, low) == 65536 + (high - 55296) * 1024 + (low - 56320)

\* After \u, at i: the bytes it stands for and the position after it.
Unicode(s, i) ==
  LET cp  == Hex4(s, i)
      low == Hex4(s, i + 6)
  IN  CASE cp = -1 -> Refused(i)
        [] cp \notin HighSurrogates \cup {-1} -> Got(Utf8(cp), i + 4)
        [] OTHER -> IF StartsAt(s, i + 4, <<BACKSLASH, 117>>) /\ low \in LowSurrogates
                    THEN Got(Utf8(PairedWith(cp, low)), i + 10)
                    ELSE Refused(i + 4)

\* The letter of an escape and the byte it stands for.
Escapes == {<<QUOTE, QUOTE>>, <<BACKSLASH, BACKSLASH>>, <<SLASH, SLASH>>,
            <<110, LF>>, <<114, CR>>, <<116, TAB>>, <<98, 8>>, <<102, 12>>}

RECURSIVE StringRest(_, _, _), EscapeRest(_, _, _, _)
EscapeRest(s, i, acc, u) ==
  CASE ByteAt(s, i) = 117 -> IF u.ok THEN StringRest(s, u.at, acc \o u.v) ELSE u
    [] \E e \in Escapes : e[1] = ByteAt(s, i) ->
         StringRest(s, i + 1, Append(acc, (CHOOSE e \in Escapes : e[1] = s[i])[2]))
    [] OTHER -> Refused(i)

\* The end of the text ends a string as a quote does.
StringRest(s, i, acc) ==
  CASE i > Len(s) -> Got(Text(acc), i)
    [] i <= Len(s) /\ s[i] = QUOTE -> Got(Text(acc), i + 1)
    [] i <= Len(s) /\ s[i] = BACKSLASH ->
         EscapeRest(s, i + 1, acc, IF ByteAt(s, i + 1) = 117 THEN Unicode(s, i + 2)
                                   ELSE Refused(i + 1))
    [] OTHER -> IF s[i] < 32 THEN Refused(i) ELSE StringRest(s, i + 1, Append(acc, s[i]))

ParseString(s, i) == IF ByteAt(s, i) = QUOTE THEN StringRest(s, i + 1, <<>>) ELSE Refused(i)

----------------------------------------------------------------------------
(* Numbers                                                                 *)

\* The position after the digits from i on; i itself if there is none.
AfterDigits(s, i) == Scan(s, i, Digits)

RECURSIVE DigitsValue(_)
DigitsValue(ds) ==
  IF ds = <<>> THEN 0 ELSE 10 * DigitsValue(SubSeq(ds, 1, Len(ds) - 1)) + ds[Len(ds)] - 48

RECURSIVE Normal(_, _)
Normal(n, k) == CASE k > 0 /\ n % 10 = 0 -> Normal(n \div 10, k - 1)
                  [] k < 0 -> Normal(n * 10, k + 1)
                  [] OTHER -> <<"number", n, k>>

\* strtod on whole, fraction and exponent, each from one position up to another.
Strtod(s, start, whole, fraction, exponent) ==
  LET digits == SubSeq(s, whole[1], whole[2] - 1) \o SubSeq(s, fraction[1], fraction[2] - 1)
      power  == DigitsValue(SubSeq(s, exponent[1], exponent[2] - 1))
      k      == (fraction[2] - fraction[1])
                - (IF ByteAt(s, exponent[1] - 1) = MINUS THEN -power ELSE power)
      n      == DigitsValue(digits)
  IN  Normal(IF s[start] = MINUS THEN -n ELSE n, k)

\* The three parts are delimited first; each must have a digit.
ParseNumber(s, i) ==
  LET first == IF ByteAt(s, i) = MINUS THEN i + 1 ELSE i
      dot   == IF ByteAt(s, first) = 48 THEN first + 1 ELSE AfterDigits(s, first)
      point == IF ByteAt(s, dot) = DOT THEN dot + 1 ELSE dot
      e     == IF point = dot THEN dot ELSE AfterDigits(s, point)
      sign  == IF ByteAt(s, e) \in {69, 101} THEN e + 1 ELSE e
      power == IF sign > e /\ ByteAt(s, sign) \in {PLUS, MINUS} THEN sign + 1 ELSE sign
      end   == IF sign = e THEN e ELSE AfterDigits(s, power)
  IN  IF \/ dot = first
         \/ point > dot /\ e = point
         \/ sign > e /\ end = power
         \/ end - i >= NumberMax
      THEN Refused(i)
      ELSE Got(Strtod(s, i, <<first, dot>>, <<point, e>>, <<power, end>>), end)

----------------------------------------------------------------------------
(* Values                                                                  *)

Literals == {<<<<116, 114, 117, 101>>, <<"bool", TRUE>>>>,
             <<<<102, 97, 108, 115, 101>>, <<"bool", FALSE>>>>,
             <<<<110, 117, 108, 108>>, <<"null">>>>}

ParseLiteral(s, i) ==
  IF \E l \in Literals : StartsAt(s, i, l[1])
  THEN LET l == CHOOSE l \in Literals : StartsAt(s, i, l[1]) IN Got(l[2], i + Len(l[1]))
  ELSE Refused(i)

\* cdo_object_rawset: a key that is there already keeps its place.
WithField(fields, key, v) ==
  IF \E i \in DOMAIN fields : fields[i][1] = key
  THEN [i \in DOMAIN fields |-> IF fields[i][1] = key THEN <<key, v>> ELSE fields[i]]
  ELSE Append(fields, <<key, v>>)

RECURSIVE ParseValue(_, _), Elements(_, _, _), Fields(_, _, _)

\* After an element: the closing bracket, or a comma and the next one.
AfterElement(s, i, items) ==
  CASE ByteAt(s, i) = RBRACKET -> Got(<<"array", items>>, i + 1)
    [] ByteAt(s, i) = COMMA -> Elements(s, i + 1, items)
    [] OTHER -> Refused(i)
Element(s, r, items) ==
  IF ~r.ok THEN r ELSE AfterElement(s, SkipWhite(s, r.at), Append(items, r.v))
Elements(s, i, items) == Element(s, ParseValue(s, i), items)

\* Variant: an empty list may end with the text.
ParseArrayOpen(s, i) ==
  CASE ByteAt(s, SkipWhite(s, i)) = RBRACKET -> Got(<<"array", <<>>>>, SkipWhite(s, i) + 1)
    [] ByteAt(s, SkipWhite(s, i)) = -1 -> Got(<<"array", <<>>>>, Len(s) + 1)
    [] OTHER -> Elements(s, i, <<>>)

ParseArray(s, i) ==
  IF ByteAt(s, SkipWhite(s, i)) = RBRACKET THEN Got(<<"array", <<>>>>, SkipWhite(s, i) + 1)
  ELSE Elements(s, i, <<>>)

AfterField(s, i, fields) ==
  CASE ByteAt(s, i) = RBRACE -> Got(<<"object", fields>>, i + 1)
    [] ByteAt(s, i) = COMMA -> Fields(s, i + 1, fields)
    [] OTHER -> Refused(i)
Field(s, r, fields, key) ==
  IF ~r.ok THEN r ELSE AfterField(s, SkipWhite(s, r.at), WithField(fields, key, r.v))
FieldAfterKey(s, k, fields) ==
  IF ~k.ok \/ ByteAt(s, SkipWhite(s, k.at)) # COLON THEN Refused(k.at)
  ELSE Field(s, ParseValue(s, SkipWhite(s, k.at) + 1), fields, k.v[2])
Fields(s, i, fields) == FieldAfterKey(s, ParseString(s, SkipWhite(s, i)), fields)

ParseObject(s, i) ==
  IF ByteAt(s, SkipWhite(s, i)) = RBRACE THEN Got(<<"object", <<>>>>, SkipWhite(s, i) + 1)
  ELSE Fields(s, i, <<>>)

ParseAt(s, i) ==
  LET c == ByteAt(s, i)
  IN  CASE c = QUOTE -> ParseString(s, i)
        [] c = LBRACKET -> ParseArray(s, i + 1)
        [] c = LBRACE -> ParseObject(s, i + 1)
        [] c \in {102, 110, 116} -> ParseLiteral(s, i)
        [] c \in Digits \cup {MINUS} -> ParseNumber(s, i)
        [] OTHER -> Refused(i)
ParseValue(s, i) == ParseAt(s, SkipWhite(s, i))

\* What follows the value is not looked at.
JsonParse(s) == ParseValue(s, 1)

----------------------------------------------------------------------------
(* Writing                                                                 *)

Spaces(n) == [i \in 1 .. n |-> SPACE]
NewLine(indent, depth) == IF indent = 0 THEN <<>> ELSE <<LF>> \o Spaces(depth * indent)

HexOf(n) == IF n < 10 THEN 48 + n ELSE 87 + n

\* A slash is the one character with an escape that is written as it is.
EscapedByte(c) ==
  CASE \E e \in Escapes : e[2] = c /\ c # SLASH ->
         <<BACKSLASH, (CHOOSE e \in Escapes : e[2] = c)[1]>>
    [] c < 32 /\ ~\E e \in Escapes : e[2] = c ->
         <<BACKSLASH, 117, 48, 48, HexOf(c \div 16), HexOf(c % 16)>>
    [] OTHER -> <<c>>

RECURSIVE Escaped(_)
Escaped(s) == IF s = <<>> THEN <<>> ELSE EscapedByte(Head(s)) \o Escaped(Tail(s))

WriteString(s) == <<QUOTE>> \o Escaped(s) \o <<QUOTE>>

\* The digits of n with a point before the last k of them.
Magnitude(n, k) ==
  LET ds == Decimal(n)
      padded == [i \in 1 .. k + 1 - Len(ds) |-> 48] \o ds
  IN  IF k = 0 THEN ds
      ELSE SubSeq(padded, 1, Len(padded) - k) \o <<DOT>>
           \o SubSeq(padded, Len(padded) - k + 1, Len(padded))
WriteNumber(n, k) == IF n < 0 THEN <<MINUS>> \o Magnitude(-n, k) ELSE Magnitude(n, k)

\* Brackets around the elements, each on a line of its own if indented.
Bracketed(open, elements, close, indent, depth) ==
  <<open>>
  \o (IF elements = <<>> THEN <<>>
      ELSE Joined([i \in DOMAIN elements |-> NewLine(indent, depth + 1) \o elements[i]],
                  <<COMMA>>) \o NewLine(indent, depth))
  \o <<close>>

RECURSIVE WriteValue(_, _, _)
WriteField(field, indent, depth) ==
  WriteString(field[1]) \o <<COLON>> \o (IF indent > 0 THEN <<SPACE>> ELSE <<>>)
  \o WriteValue(field[2], indent, depth + 1)

WriteValue(v, indent, depth) ==
  CASE v[1] = "string" -> WriteString(v[2])
    [] v[1] = "number" -> WriteNumber(v[2], v[3])
    [] v[1] \in {"null", "bool"} -> (CHOOSE l \in Literals : l[2] = v)[1]
    [] v[1] = "function" -> (CHOOSE l \in Literals : l[2] = <<"null">>)[1]
    [] v[1] = "array" ->
         Bracketed(LBRACKET, [i \in DOMAIN v[2] |-> WriteValue(v[2][i], indent, depth + 1)],
                   RBRACKET, indent, depth)
    [] v[1] = "object" ->
         Bracketed(LBRACE, [i \in DOMAIN v[2] |-> WriteField(v[2][i], indent, depth)],
                   RBRACE, indent, depth)

\* A function within a list or an object is null, but the switch on the value
\* that stringify is called with knows only arrays and other objects.
WriteTop(v, indent) ==
  IF v[1] = "function" THEN <<LBRACE, RBRACE>> ELSE WriteValue(v, indent, 0)

IndentMax == 16
JsonStringify(v, wanted) ==
  LET indent == CASE wanted < 0 -> 0
                  [] wanted > IndentMax -> IndentMax
                  [] OTHER -> wanted
  IN  WriteTop(v, indent) \o (IF indent > 0 THEN <<LF>> ELSE <<>>)
=============================================================================
