------------------------------- MODULE MCTexts -------------------------------
EXTENDS Texts

Sequences(S, n) == UNION {[1 .. k -> S] : k \in 0 .. n}
a == 97
Str(s) == <<"string", s>>
Num(n) == <<"number", n, 0>>
Arr(vs) == <<"array", vs>>
Obj(fields) == <<"object", fields>>

(* Values: every byte that JSON treats in a way of its own, alone and in   *)
(* twos, within lists and objects.                                         *)
Odd == {0, 8, 9, 10, 12, 13, 31, QUOTE, SLASH, BACKSLASH, a, 117, 127, 200}
Atoms == {<<"null">>, <<"bool", TRUE>>, <<"bool", FALSE>>, <<"function">>}
         \cup {Num(n) : n \in {0, 7, -12, 10, 100}}
         \cup {<<"number", 15, 1>>, <<"number", -25, 2>>, <<"number", 5, 1>>}
         \cup {Str(s) : s \in Sequences(Odd, 1) \cup {<<BACKSLASH, a>>, <<a, QUOTE>>}}
Some == {<<"null">>, Num(-12), Str(<<QUOTE, COMMA>>), Str(<<LF, 117>>), Arr(<<>>), Obj(<<>>),
         Arr(<<Num(1), Str(<<RBRACKET>>)>>), Obj(<<<<<<a>>, Arr(<<Num(2)>>)>>>>)}
Documents == (Atoms \ {<<"function">>})
  \cup {Str(s) : s \in Sequences(Odd, 2)}
  \cup {Arr(vs) : vs \in [1 .. 1 -> Atoms] \cup Sequences(Some, 2)}
  \cup {Obj(<<<<<<c>>, v>>>>) : c \in Odd, v \in Some}
  \cup {Obj(<<<<<<98>>, v>>, <<<<a, COLON>>, w>>, <<<<>>, Num(3)>>>>) : v \in Some, w \in Some}

Stringified(values) == {[do |-> "json", value |-> v, indent |-> n] :
                          v \in values, n \in {-1, 2, 17}}
JsonTasks == Stringified(Documents)
\* json.stringify of a function is not what lib/json.h says.
FunctionTasks == Stringified({<<"function">>, Arr(<<<<"function">>>>)})

----------------------------------------------------------------------------
(* JSON as others write it.                                                *)

Hex(c1, c2, c3, c4) == <<BACKSLASH, 117, c1, c2, c3, c4>>
Quoted(s) == <<QUOTE>> \o s \o <<QUOTE>>
Word(tag) == (CHOOSE l \in Literals : l[2] = tag)[1]

Spellings ==
  {<<Quoted(Hex(48, 48, 55, 70)), Str(<<127>>)>>,
   <<Quoted(Hex(48, 48, 56, 48)), Str(<<194, 128>>)>>,
   <<Quoted(Hex(48, 55, 102, 102)), Str(<<223, 191>>)>>,
   <<Quoted(Hex(48, 56, 48, 48)), Str(<<224, 160, 128>>)>>,
   <<Quoted(Hex(70, 70, 70, 70)), Str(<<239, 191, 191>>)>>,
   <<Quoted(Hex(68, 56, 48, 48) \o Hex(68, 67, 48, 48)), Str(<<240, 144, 128, 128>>)>>,
   <<Quoted(Hex(100, 56, 51, 100) \o Hex(100, 101, 48, 48)), Str(<<240, 159, 152, 128>>)>>,
   <<Quoted(Hex(68, 66, 70, 70) \o Hex(68, 70, 70, 70) \o <<a>>), Str(<<244, 143, 191, 191, a>>)>>,
   <<Quoted(<<BACKSLASH, SLASH, SLASH>>), Str(<<SLASH, SLASH>>)>>,
   <<<<49, 101, 50>>, Num(100)>>, <<<<49, 46, 53, 69, 43, 49>>, Num(15)>>,
   <<<<45, 53, 48, 69, 45, 50>>, <<"number", -5, 1>>>>, <<<<48, 46, 53, 48>>, <<"number", 5, 1>>>>,
   <<<<45, 48>>, Num(0)>>, <<<<49, 46, 48>>, Num(1)>>,
   <<<<LBRACE>> \o Quoted(<<a>>) \o <<COLON, 49, COMMA>> \o Quoted(<<98>>) \o <<COLON, 50, COMMA>>
       \o Quoted(Hex(48, 48, 54, 49)) \o <<COLON, 51, RBRACE>>,
     Obj(<<<<<<a>>, Num(3)>>, <<<<98>>, Num(2)>>>>)>>}

\* The parts of a list or an object with blanks between any two of them.
Parts == <<<<LBRACKET>>, <<LBRACE>>, Quoted(<<a>>), <<COLON>>, Word(<<"null">>), <<RBRACE>>, <<COMMA>>,
           <<LBRACKET>>, <<RBRACKET>>, <<COMMA>>, <<55>>, <<RBRACKET>>>>
Spaced(blank, at) ==
  Joined([i \in 1 .. Len(Parts) + 1 |->
            (IF i \in at THEN blank ELSE <<>>) \o (IF i <= Len(Parts) THEN Parts[i] ELSE <<>>)], <<>>)
SpacedTexts ==
  {<<Spaced(blank, at), Arr(<<Obj(<<<<<<a>>, <<"null">>>>>>), Arr(<<>>), Num(7)>>)>> :
     blank \in {<<SPACE>>, <<TAB, CR, LF>>}, at \in SUBSET (1 .. 5) \cup SUBSET (6 .. 13)}

Malformed ==
  {<<>>, <<SPACE>>, <<COMMA>>, <<LBRACKET, COMMA, RBRACKET>>, <<LBRACKET, 49, COMMA, RBRACKET>>,
   <<LBRACKET, 48, 49, RBRACKET>>, <<LBRACKET, 49, SPACE, 50, RBRACKET>>, <<LBRACE, COMMA, RBRACE>>,
   <<LBRACE, a, COLON, 49, RBRACE>>, <<LBRACE>> \o Quoted(<<a>>) \o <<RBRACE>>,
   <<LBRACE>> \o Quoted(<<a>>) \o <<COLON, RBRACE>>, <<LBRACE>> \o Quoted(<<a>>) \o <<COLON, 49, COMMA, RBRACE>>,
   <<110, 117, 108>>, <<116, 114, 117, 69>>, <<MINUS>>, <<MINUS, a>>, <<DOT, 53>>, <<49, DOT>>, <<49, 101>>,
   <<49, 101, PLUS>>, Quoted(<<LF>>), Quoted(<<BACKSLASH, a>>), Quoted(<<BACKSLASH, 117, 48, 48>>),
   Quoted(Hex(48, 48, 71, 48)), Quoted(Hex(68, 56, 48, 48)), Quoted(Hex(68, 56, 48, 48) \o Hex(48, 48, 52, 49)),
   Quoted(Hex(68, 56, 48, 48) \o <<BACKSLASH, 110>>), [i \in 1 .. 64 |-> 49]}

ReadTasks == {[do |-> "read", text |-> s[1], value |-> s[2]] : s \in Spellings \cup SpacedTexts}
             \cup {[do |-> "read", text |-> s, value |-> <<"refused">>] : s \in Malformed}

----------------------------------------------------------------------------
(* Tables                                                                  *)

Special == {a, COMMA, SEMICOLON, QUOTE, CR, LF}
Cells == {Str(s) : s \in Sequences(Special, 2)}
Few == {Str(<<>>), Str(<<a>>), Str(<<QUOTE, COMMA>>), Str(<<CR>>), Num(-12), <<"number", 5, 1>>,
        <<"bool", TRUE>>, <<"null">>, Arr(<<>>)}
Table1 == {<<Arr(cells)>> : cells \in [1 .. 2 -> Cells]}
          \cup {<<Arr(<<c>>), Arr(<<d>>)>> : c \in Cells, d \in Few}
          \cup {<<Arr(<<c, d>>), Num(4), Arr(<<>>), Arr(<<d>>)>> : c \in Few, d \in Few}
Row(c, d) == Obj(<<<<<<a>>, c>>, <<<<COMMA, 98>>, d>>>>)
Table2 == {<<Row(c, d), Arr(<<>>), Row(d, c), Obj(<<<<<<98>>, c>>, <<<<a>>, d>>>>)>> : c \in Few, d \in Few}
CsvTasks ==
  {[do |-> "csv", value |-> t, delim |-> d, given |-> FALSE, names |-> <<>>] :
     t \in Table1 \cup Table2 \cup {<<>>}, d \in {COMMA, SEMICOLON}}
  \cup {[do |-> "csv", value |-> t, delim |-> TAB, given |-> TRUE, names |-> <<<<COMMA, 98>>, <<LF>>>>] :
     t \in Table2}

----------------------------------------------------------------------------
(* Programs: everything that can be written with a few characters.         *)

Alphabets ==
  {<<{SLASH, STAR, LF, a, SPACE}, 5>>, <<{QUOTE, BACKSLASH, LF, APOSTROPHE, a}, 5>>,
   <<{BACKTICK, DOLLAR, LBRACE, RBRACE, BACKSLASH}, 5>>, <<{49, DOT, a, UNDERSCORE, SPACE}, 5>>,
   <<{LESS, MINUS, EQUALS, GREATER, TILDE, BANG, DOT, BAR, AMPERSAND, PLUS, COLON}, 3>>,
   <<{CARET, PERCENT, STAR, SLASH, EQUALS, LPAREN, RBRACKET, SEMICOLON, HASH, 200}, 3>>,
   <<{73, 70, 105, 102, 49}, 3>>}
ScanTasks == {[do |-> "scan", source |-> s] : s \in UNION {Sequences(A[1], A[2]) : A \in Alphabets}}

IfAndOf == {<<73, 70>>, <<79, 70>>}
----------------------------------------------------------------------------
(* Messages                                                                *)

Urls ==   \* <<text, hint, host, path>>; no path where it is refused
  {<<<<SCHEME_HTTP, COLON, SLASH, SLASH, a>> \o u[1], u[2], <<a>> \o u[3], u[4]>> : u \in
     {<<<<>>, FALSE, <<>>, <<SLASH>>>>, <<<<SLASH>>, TRUE, <<COLON, 56, 48>>, <<SLASH>>>>,
      <<<<COLON, 56, 48, SLASH, a>>, FALSE, <<>>, <<SLASH, a>>>>,
      <<<<COLON, 52, 52, 51>>, TRUE, <<>>, <<SLASH>>>>,
      <<<<COLON, 52, 52, 51>>, FALSE, <<COLON, 52, 52, 51>>, <<SLASH>>>>,
      <<<<SLASH, COLON, QUESTION, a, QUESTION, EQUALS, HASH, a>>, FALSE, <<>>,
        <<SLASH, COLON, QUESTION, a, QUESTION, EQUALS>>>>,
      <<<<COLON, SLASH>>, FALSE, <<>>, <<>>>>, <<<<COLON, 48>>, FALSE, <<>>, <<>>>>}}
  \cup {<<<<SCHEME_HTTPS + 1, COLON, SLASH, SLASH, a, SLASH, a>>, FALSE, <<a>>, <<SLASH, a>>>>,
        <<<<SCHEME_HTTP, COLON, SLASH, SLASH, SLASH, a>>, FALSE, <<>>, <<>>>>,
        <<<<a, COLON, SLASH, SLASH, a>>, FALSE, <<>>, <<>>>>, <<<<a, SLASH, SLASH>>, FALSE, <<>>, <<>>>>}

Bodies == {<<>>, <<a>>, <<CR, LF, CR, LF>>, <<48, CR, LF, a, CR, LF, COLON, 0, 200, a>>}
HeaderNames == {<<65>>, Capitalised(HOST), <<ACCEPT>>, Capitalised(CONNECTION), <<CONTENT_TYPE>>}
HeaderValues == {<<>>, <<SPACE, a, SPACE, COLON, a, TAB>>, Capitalised(CLOSE)}
Headers == {<<>>} \cup {<<<<n, v>>>> : n \in HeaderNames, v \in HeaderValues}
           \cup {<<<<<<65>>, v>>, <<n, w>>, <<<<a>>, w>>>> : n \in HeaderNames, v \in HeaderValues, w \in HeaderValues}
RequestTasks ==
  {[do |-> "request", url |-> u[1], hint |-> u[2], host |-> u[3], path |-> u[4], method |-> <<POST>>,
    headers |-> h, body |-> b] :
     u \in Urls, h \in {<<>>, <<<<<<HOST>>, <<a>>>>, <<<<a>>, <<a>>>>>>}, b \in {<<>>, <<CR, LF, a>>}}
  \cup {[do |-> "request", url |-> <<SCHEME_HTTP, COLON, SLASH, SLASH, a>>, hint |-> FALSE, host |-> <<a>>,
        path |-> <<SLASH>>, method |-> <<GET>>, headers |-> h, body |-> b] : h \in Headers, b \in Bodies}
ResponseTasks ==
  {[do |-> "response", status |-> s, headers |-> h, body |-> b] :
     s \in {200, 404, 299}, h \in Headers, b \in Bodies}

HeadLine(name, value) == Capitalised(name) \o <<COLON>> \o value \o CRLF
StatusLine(code) == Version \o <<SPACE>> \o Decimal(code) \o <<SPACE, StatusText(code)>> \o CRLF
Chunk(size, part) == size \o CRLF \o part \o CRLF
ChunkedBodies ==
  {<<Chunk(<<48>>, <<>>), <<>>>>,
   <<Chunk(<<51>>, <<a, CR, LF>>) \o Chunk(<<48>>, <<>>), <<a, CR, LF>>>>,
   <<Chunk(<<48, 49, SEMICOLON, EQUALS>>, <<LF>>) \o Chunk(<<49, 65>>, [i \in 1 .. 26 |-> a])
       \o <<48, 48, SEMICOLON, a>> \o CRLF \o <<a, COLON, a>> \o CRLF \o CRLF,
     <<LF>> \o [i \in 1 .. 26 |-> a]>>}
Message(kind, txt, value, open) ==
  [do |-> "message", kind |-> kind, text |-> txt, value |-> value, open |-> open]
MessageTasks ==
  {Message("response", StatusLine(s) \o HeadLine(TRANSFER_ENCODING, <<CHUNKED + 1>>) \o CRLF \o b[1],
           <<"response", s, {<<<<TRANSFER_ENCODING>>, <<CHUNKED + 1>>>>}, b[2]>>, FALSE) :
     s \in {200, 404}, b \in ChunkedBodies}
  \cup {Message("request", <<POST, SPACE, SLASH, SPACE>> \o Version \o CRLF \o <<a>> \o CRLF
                 \o HeadLine(TRANSFER_ENCODING, <<SPACE, CHUNKED, SPACE>>) \o CRLF \o b[1],
               <<"request", <<POST>>, <<SLASH>>, <<SLASH>>, <<>>, Tail(Version),
                 {<<<<TRANSFER_ENCODING>>, <<CHUNKED>>>>}, b[2]>>, FALSE) : b \in ChunkedBodies}
  \cup {Message("response", StatusLine(s) \o HeadLine(CONNECTION, <<CLOSE>>) \o CRLF \o b,
               <<"response", s, {<<<<CONNECTION>>, <<CLOSE>>>>}, b>>, TRUE) : s \in {200, 404}, b \in Bodies}

----------------------------------------------------------------------------
(* Calls: every text of a few bytes, with words that overlap          *)
(* themselves, and patterns.                                               *)

Words == {<<>>, <<a>>, <<a, a>>, <<98>>, <<a, 98>>, <<PERCENT>>, <<a, 98, a>>}
Patterns == {{<<a>>, <<a, a>>}, {<<a, 98>>, <<98>>, <<a>>}, {<<>>, <<a>>, <<a, a>>}}
CallTasks ==
  UNION {{[do |-> "call", text |-> s, word |-> w, words |-> p, by |-> r] : p \in Patterns \cup {{w}}} :
     s \in Sequences({a, 98, PERCENT, SPACE}, 3) \cup Sequences({a, 98}, 5), w \in Words,
     r \in {<<>>, <<a, 99>>}}

AllTasks == CallTasks \cup  RequestTasks \cup ResponseTasks \cup MessageTasks \cup JsonTasks \cup ReadTasks \cup CsvTasks \cup ScanTasks
=============================================================================
