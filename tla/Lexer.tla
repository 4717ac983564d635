-------------------------------- MODULE Lexer --------------------------------
(***************************************************************************)
(* The scanner of source/parser/lexer.c: cando_lexer_next as an action on  *)
(* the cursor, its line and the start of that line.                        *)
(***************************************************************************)
EXTENDS Bytes, FiniteSets

CONSTANT Keywords      \* KEYWORDS, in capitals

VARIABLES
  source,
  pos, line, line_start,
  tokens               \* returned so far: [type, from, to, line, col], to excluded

lexer == <<source, pos, line, line_start, tokens>>

Whitespace == {TAB, LF, 11, 12, CR, SPACE}
WordBytes  == Letters \cup Digits \cup {UNDERSCORE}

Token(type, from, to) == [type |-> type, from |-> from, to |-> to]

----------------------------------------------------------------------------
(* Between tokens                                                          *)

\* The first pair of bytes from i on, or the end of the source.
PairAt(s, i, pair) ==
  LET hits == {j \in i .. Len(s) : StartsAt(s, j, pair)}
  IN  IF hits = {} THEN Len(s) + 1 ELSE CHOOSE j \in hits : \A k \in hits : j <= k

\* Past whitespace and comments; a comment that is not closed is an error.
RECURSIVE SkipBlank(_, _)
Closed(s, from, close) ==
  IF close > Len(s) THEN Token("ERROR", from, Len(s) + 1) ELSE SkipBlank(s, close + 2)
AtText(s, i) ==
  CASE StartsAt(s, i, <<SLASH, SLASH>>) -> SkipBlank(s, Find(s, i + 2, {LF}))
    [] StartsAt(s, i, <<SLASH, STAR>>) ->
         Closed(s, i, PairAt(s, i + 2, <<STAR, SLASH>>))
    [] OTHER -> Token("TEXT", i, i)
SkipBlank(s, i) == AtText(s, Scan(s, i, Whitespace))

----------------------------------------------------------------------------
(* Tokens                                                                  *)

\* In the order in which cando_lexer_next tries them.
Operators ==
  << <<"LPAREN", <<LPAREN>>>>, <<"RPAREN", <<RPAREN>>>>, <<"LBRACE", <<LBRACE>>>>,
     <<"RBRACE", <<RBRACE>>>>, <<"LBRACKET", <<LBRACKET>>>>, <<"RBRACKET", <<RBRACKET>>>>,
     <<"SEMI", <<SEMICOLON>>>>, <<"COMMA", <<COMMA>>>>, <<"HASH", <<HASH>>>>,
     <<"CARET_ASSIGN", <<CARET, EQUALS>>>>, <<"CARET", <<CARET>>>>,
     <<"PERCENT_ASSIGN", <<PERCENT, EQUALS>>>>, <<"PERCENT", <<PERCENT>>>>,
     <<"STAR_ASSIGN", <<STAR, EQUALS>>>>, <<"STAR", <<STAR>>>>,
     <<"SLASH_ASSIGN", <<SLASH, EQUALS>>>>, <<"SLASH", <<SLASH>>>>,
     <<"INCR", <<PLUS, PLUS>>>>, <<"PLUS_ASSIGN", <<PLUS, EQUALS>>>>, <<"PLUS", <<PLUS>>>>,
     <<"DECR", <<MINUS, MINUS>>>>, <<"MINUS_ASSIGN", <<MINUS, EQUALS>>>>,
     <<"RANGE_ASC", <<MINUS, GREATER>>>>, <<"MINUS", <<MINUS>>>>,
     <<"LEQ", <<LESS, EQUALS>>>>, <<"LSHIFT", <<LESS, LESS>>>>,
     <<"RANGE_DESC", <<LESS, MINUS>>>>, <<"LT", <<LESS>>>>,
     <<"GEQ", <<GREATER, EQUALS>>>>, <<"RSHIFT", <<GREATER, GREATER>>>>, <<"GT", <<GREATER>>>>,
     <<"EQ", <<EQUALS, EQUALS>>>>, <<"FAT_ARROW", <<EQUALS, GREATER>>>>, <<"ASSIGN", <<EQUALS>>>>,
     <<"NEQ", <<BANG, EQUALS>>>>, <<"BANG", <<BANG>>>>,
     <<"AND", <<AMPERSAND, AMPERSAND>>>>, <<"AMP", <<AMPERSAND>>>>,
     <<"OR", <<BAR, BAR>>>>, <<"BITXOR", <<BAR, AMPERSAND>>>>, <<"BITOR", <<BAR>>>>,
     <<"FLUENT", <<COLON, COLON>>>>, <<"COLON", <<COLON>>>>,
     <<"VARARG", <<DOT, DOT, DOT>>>>, <<"DOT", <<DOT>>>>,
     <<"FILTER_OP", <<TILDE, BANG, GREATER>>>>, <<"PIPE_OP", <<TILDE, GREATER>>>>,
     <<"TILDE", <<TILDE>>>> >>

OperatorsAt(s, i) == {k \in DOMAIN Operators : StartsAt(s, i, Operators[k][2])}
Tried(s, i) == Operators[CHOOSE k \in OperatorsAt(s, i) : \A j \in OperatorsAt(s, i) : k <= j]

\* Variant: the last one that fits.
OperatorTokenLast(s, i) ==
  LET k == CHOOSE k \in OperatorsAt(s, i) : \A j \in OperatorsAt(s, i) : k >= j
  IN  Token(Operators[k][1], i, i + Len(Operators[k][2]))

OperatorToken(s, i) == Token(Tried(s, i)[1], i, i + Len(Tried(s, i)[2]))

\* 0 if the source ends first.
RECURSIVE BracesEnd(_, _, _)
BracesEnd(s, i, depth) ==
  CASE depth = 0 -> i
    [] depth > 0 /\ i > Len(s) -> 0
    [] OTHER -> BracesEnd(s, i + 1, depth + (CASE s[i] = LBRACE -> 1
                                               [] s[i] = RBRACE -> -1
                                               [] OTHER -> 0))

\* The position after the closing quote, with i inside of the string.
RECURSIVE StringEnd(_, _, _)
AfterInterpolation(s, i, quote) == IF i = 0 THEN 0 ELSE StringEnd(s, i, quote)
StringEnd(s, i, quote) ==
  CASE i > Len(s) -> 0
    [] i <= Len(s) /\ s[i] = quote -> i + 1
    [] i <= Len(s) /\ s[i] = BACKSLASH -> StringEnd(s, i + 2, quote)
    [] OTHER -> IF quote = BACKTICK /\ StartsAt(s, i, <<DOLLAR, LBRACE>>)
                THEN AfterInterpolation(s, BracesEnd(s, i + 2, 1), quote)
                ELSE StringEnd(s, i + 1, quote)

Quotes == {<<QUOTE, "STRING_DQ">>, <<APOSTROPHE, "STRING_SQ">>, <<BACKTICK, "STRING_BT">>}
StringToken(s, i, end) ==
  IF end = 0 THEN Token("ERROR", i, Len(s) + 1)
  ELSE Token((CHOOSE q \in Quotes : q[1] = s[i])[2], i, end)

\* A point belongs to a number only with a digit after it.
NumberEnd(s, whole) ==
  IF ByteAt(s, whole) = DOT /\ ByteAt(s, whole + 1) \in Digits
  THEN Scan(s, whole + 1, Digits) ELSE whole

\* Keywords are all in capitals or all in small letters.
Capital(c) == IF c \in Lower THEN c - 32 ELSE c
Mixed(word) == /\ \E i \in DOMAIN word : word[i] \in Upper
               /\ \E i \in DOMAIN word : word[i] \in Lower
WordType(word) ==
  IF ~Mixed(word) /\ [i \in DOMAIN word |-> Capital(word[i])] \in Keywords
  THEN "KEYWORD" ELSE "IDENT"

WordToken(s, i, end) == Token(WordType(SubSeq(s, i, end - 1)), i, end)

TextToken(s, i) ==
  CASE i > Len(s) -> Token("EOF", i, i)
    [] OperatorsAt(s, i) # {} -> OperatorToken(s, i)
    [] ByteAt(s, i) \in {QUOTE, APOSTROPHE, BACKTICK} ->
         StringToken(s, i, StringEnd(s, i + 1, s[i]))
    [] ByteAt(s, i) \in Digits -> Token("NUMBER", i, NumberEnd(s, Scan(s, i, Digits)))
    [] ByteAt(s, i) \in Letters \cup {UNDERSCORE} -> WordToken(s, i, Scan(s, i, WordBytes))
    [] OTHER -> Token("ERROR", i, i + 1)

FromText(s, t) == IF t.type = "ERROR" THEN t ELSE TextToken(s, t.from)
TokenFrom(s, i) == FromText(s, SkipBlank(s, i))

\* The cursor moves over the bytes up to j; line ends on the way count.
LineEnds(s, i, j) == {k \in i .. j - 1 : s[k] = LF}
LineAt(i) == line + Cardinality(LineEnds(source, pos, i))

\* Variant: the first line end on the way, not the last one.
StartOfFirstLine(i) ==
  LET ends == LineEnds(source, pos, i)
  IN  IF ends = {} THEN line_start ELSE 1 + CHOOSE k \in ends : \A j \in ends : k <= j

StartOfLineAt(i) ==
  LET ends == LineEnds(source, pos, i)
  IN  IF ends = {} THEN line_start ELSE 1 + CHOOSE k \in ends : \A j \in ends : j <= k

LexerInit == pos = 1 /\ line = 1 /\ line_start = 1 /\ tokens = <<>>

LexerNext ==
  LET t == TokenFrom(source, pos)
  IN  /\ tokens' = Append(tokens, [type |-> t.type, from |-> t.from, to |-> t.to,
                                   line |-> LineAt(t.from),
                                   col |-> t.from - StartOfLineAt(t.from) + 1])
      /\ pos' = t.to
      /\ line' = LineAt(t.to)
      /\ line_start' = StartOfLineAt(t.to)
      /\ UNCHANGED source

----------------------------------------------------------------------------
(* Properties                                                              *)

Scanned == tokens # <<>> /\ tokens[Len(tokens)].type = "EOF"

\* The types of the tokens of a whole source, without a cursor.
RECURSIVE TypesFrom(_, _)
TypesAfter(s, t) == IF t.type = "EOF" THEN <<"EOF">> ELSE <<t.type>> \o TypesFrom(s, t.to)
TypesFrom(s, i) == TypesAfter(s, TokenFrom(s, i))

Written(t) == SubSeq(source, t.from, t.to - 1)

(* A token is as long as it can be, and blanks mean nothing: the texts of  *)
(* the tokens with one space between them are the same program.  Escapes,  *)
(* the braces of an interpolation and quotes within comments must all end  *)
(* where the scanner ends them.                                            *)
TokensStandAlone ==
  /\ \A i \in DOMAIN tokens :
       LET t == tokens[i]
           longer == {k \in OperatorsAt(source, t.from) : Len(Operators[k][2]) > t.to - t.from}
       IN  t.type \notin {"ERROR", "EOF"} =>
             /\ longer = {}
             /\ t.type \in {"IDENT", "KEYWORD"} => ByteAt(source, t.to) \notin WordBytes
  /\ (Scanned /\ \A i \in DOMAIN tokens : tokens[i].type # "ERROR") =>
       TypesFrom(Joined([i \in DOMAIN tokens |-> Written(tokens[i])], <<SPACE>>), 1)
         = [i \in DOMAIN tokens |-> tokens[i].type]

(* Error messages point at the line and column where the token starts,     *)
(* whatever line ends strings and comments before it contain; and tokens    *)
(* never overlap.                                                          *)
PositionsAreRight ==
  \A i \in DOMAIN tokens :
    LET t == tokens[i]
        ends == {k \in 1 .. t.from - 1 : source[k] = LF}
    IN  /\ t.line = 1 + Cardinality(ends)
        /\ SubSeq(source, t.from - t.col + 1, t.from - 1)
             = SelectSeq(SubSeq(source, t.from - t.col + 1, t.from - 1), LAMBDA c : c # LF)
        /\ t.from - t.col \in ends \cup {0}
        /\ i > 1 => tokens[i - 1].to <= t.from
=============================================================================
