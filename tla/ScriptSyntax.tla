---------------------------- MODULE ScriptSyntax ----------------------------
(***************************************************************************)
(* Scripts as trees, and the tokens they are written with: parentheses only *)
(* where C's precedence asks for them, as docs/language-reference.md says.  *)
(* An expression is <<kind, ...>>:                                         *)
(*   <<"num", n>> <<"str", s>> <<"lit", "TRUE">> <<"name", x>>             *)
(*   <<"set", x, e>> <<"update", op, x, e>> <<"post", op, x>>              *)
(*   <<"un", op, e>> <<"bin", op, e, e>> <<"cmp", op, e, es>>              *)
(*   <<"between", incl, min, e, incl, max>> <<"and", e, e>> <<"or", e, e>> *)
(*   <<"array", es>> <<"unpack", e>> <<"object", <<<<key, e>>, ...>> >>    *)
(*   <<"get", e, key>> <<"put", e, key, e>> <<"at", e, e>> <<"putat", e, e, e>> *)
(*   <<"call", e, es>> <<"method", colon?, e, name, es>> <<"fn", params, body>> *)
(*   <<"pipe", filter?, e, body>> <<"mask", bits, es>> <<"range", up?, e, e>> *)
(* and a statement                                                         *)
(*   <<"expr", e>> <<"var", const?, names, es>> <<"if", e, body, body>>    *)
(*   <<"while", e, body>> <<"for", "IN" or "OF", x, e, body>>              *)
(*   <<"over", names, es, body>> <<"try", body, names, body, body>>        *)
(*   <<"function", x, params, body>> <<"class", x, methods>> <<"block", body>> *)
(*   <<"return", es>> <<"throw", es>> <<"break">> <<"continue">>           *)
(***************************************************************************)
LOCAL INSTANCE Integers
LOCAL INSTANCE Sequences
LOCAL INSTANCE SequencesExt

Sign == [OR |-> "OR", AND |-> "AND", BIT_OR |-> "BITOR", BIT_XOR |-> "BITXOR",
         BIT_AND |-> "AMP", EQ |-> "EQ", NEQ |-> "NEQ", LT |-> "LT", GT |-> "GT",
         LEQ |-> "LEQ", GEQ |-> "GEQ", LSHIFT |-> "LSHIFT", RSHIFT |-> "RSHIFT",
         ADD |-> "PLUS", SUB |-> "MINUS", MUL |-> "STAR", DIV |-> "SLASH",
         MOD |-> "PERCENT", POW |-> "CARET", NEG |-> "MINUS", NOT |-> "BANG",
         LEN |-> "HASH"]

\* How tightly operators bind; ^ is right-associative.
Tightness == [OR |-> 2, AND |-> 3, BIT_OR |-> 4, BIT_XOR |-> 5, BIT_AND |-> 6,
              EQ |-> 7, NEQ |-> 7, LT |-> 8, GT |-> 8, LEQ |-> 8, GEQ |-> 8,
              LSHIFT |-> 10, RSHIFT |-> 10, ADD |-> 11, SUB |-> 11, MUL |-> 12,
              DIV |-> 12, MOD |-> 12, POW |-> 13]
RangeTight == 9
UnaryTight == 15
CallTight  == 16

\* What ends on the right in an expression of any kind binds least.
Tight(e) ==
  CASE e[1] \in {"set", "update", "post", "put", "putat", "pipe", "mask"} -> 1
    [] e[1] = "and" -> Tightness.AND
    [] e[1] = "or" -> Tightness.OR
    [] e[1] = "cmp" /\ Len(e[4]) > 1 -> 0
    [] e[1] = "bin" \/ (e[1] = "cmp" /\ Len(e[4]) = 1) -> Tightness[e[2]]
    [] e[1] = "between" -> Tightness.LT
    [] e[1] = "range" -> RangeTight
    [] e[1] \in {"un", "unpack"} -> UnaryTight
    [] OTHER -> CallTight

T(t) == <<<<t, "">>>>
Id(x) == <<<<"IDENT", x>>>>

RECURSIVE Joined(_)
Joined(tss) == IF Len(tss) <= 1 THEN FlattenSeq(tss)
               ELSE Head(tss) \o T("COMMA") \o Joined(Tail(tss))

Idents(xs) == Joined([i \in DOMAIN xs |-> Id(xs[i])])

RECURSIVE Tokens(_), Body(_), Statement(_)

\* e where something at least this tight is needed.
In(e, tight) == IF Tight(e) < tight THEN T("LPAREN") \o Tokens(e) \o T("RPAREN")
                ELSE Tokens(e)

List(es) == Joined([i \in DOMAIN es |-> In(es[i], 1)])
Operands(es, tight) == Joined([i \in DOMAIN es |-> In(es[i], tight)])
Block(body) == T("LBRACE") \o Body(body) \o T("RBRACE")
Parens(ts) == T("LPAREN") \o ts \o T("RPAREN")

Tokens(e) ==
  LET t == Tight(e) IN
  CASE e[1] = "num" -> <<<<"NUMBER", e[2]>>>>
    [] e[1] = "str" -> <<<<"STRING", e[2]>>>>
    [] e[1] = "lit" -> T(e[2])
    [] e[1] = "name" -> IF e[2] = "pipe" THEN <<<<"PIPE_KW", "pipe">>>> ELSE Id(e[2])
    [] e[1] = "set" -> Id(e[2]) \o T("ASSIGN") \o In(e[3], 1)
    [] e[1] = "update" -> Id(e[3]) \o T(Sign[e[2]] \o "_ASSIGN") \o In(e[4], 1)
    [] e[1] = "post" -> Id(e[3]) \o T(IF e[2] = "ADD" THEN "INCR" ELSE "DECR")
    [] e[1] = "un" -> T(Sign[e[2]]) \o In(e[3], t)
    [] e[1] = "bin" ->
         IF e[2] = "POW" THEN In(e[3], t + 1) \o T("CARET") \o In(e[4], t)
         ELSE In(e[3], t) \o T(Sign[e[2]]) \o In(e[4], t + 1)
    [] e[1] = "cmp" ->
         LET level == Tightness[e[2]]
         IN  In(e[3], IF level = 8 THEN 9 ELSE level) \o T(Sign[e[2]])
               \o Operands(e[4], level + 1)
    [] e[1] = "between" -> In(e[3], 9) \o T(IF e[2] THEN "GEQ" ELSE "GT")
                             \o In(e[4], 9) \o T(IF e[5] THEN "LEQ" ELSE "LT")
                             \o In(e[6], 9)
    [] e[1] = "and" -> In(e[2], t) \o T("AND") \o In(e[3], t)
    [] e[1] = "or" -> In(e[2], t) \o T("OR") \o In(e[3], t)
    [] e[1] = "array" -> T("LBRACKET") \o List(e[2]) \o T("RBRACKET")
    [] e[1] = "unpack" -> T("VARARG") \o In(e[2], t)
    [] e[1] = "object" ->
         T("LBRACE") \o Joined([i \in DOMAIN e[2] |->
             <<<<"STRING", e[2][i][1]>>>> \o T("COLON") \o In(e[2][i][2], 1)])
           \o T("RBRACE")
    [] e[1] = "get" -> In(e[2], t) \o T("DOT") \o Id(e[3])
    [] e[1] = "put" -> In(e[2], CallTight) \o T("DOT") \o Id(e[3]) \o T("ASSIGN")
                         \o In(e[4], 1)
    [] e[1] = "at" -> In(e[2], t) \o T("LBRACKET") \o Tokens(e[3]) \o T("RBRACKET")
    [] e[1] = "putat" -> In(e[2], CallTight) \o T("LBRACKET") \o Tokens(e[3])
                           \o T("RBRACKET") \o T("ASSIGN") \o In(e[4], 1)
    [] e[1] = "call" -> In(e[2], t) \o Parens(List(e[3]))
    [] e[1] = "method" -> In(e[3], t) \o T(IF e[2] THEN "COLON" ELSE "FLUENT")
                            \o Id(e[4]) \o Parens(List(e[5]))
    [] e[1] = "fn" -> T("FUNCTION") \o Parens(Idents(e[2])) \o Block(e[3])
    [] e[1] = "pipe" -> In(e[3], 14) \o T(IF e[2] THEN "FILTER_OP" ELSE "PIPE_OP")
                          \o (IF e[4][1] = "block" THEN Block(e[4][2]) ELSE In(e[4][2], 1))
    [] e[1] = "mask" -> Parens(FlattenSeq([i \in DOMAIN e[2] |->
                                             T(IF e[2][i] THEN "TILDE" ELSE "DOT")]))
                          \o List(e[3])
    [] e[1] = "range" -> In(e[3], t) \o T(IF e[2] THEN "RANGE_ASC" ELSE "RANGE_DESC")
                           \o In(e[4], t + 1)

Function(x, params, body) ==
  T("FUNCTION") \o Id(x) \o Parens(Idents(params)) \o Block(body)

Statement(s) ==
  CASE s[1] = "expr" -> Tokens(s[2]) \o T("SEMI")
    [] s[1] = "var" -> T(IF s[2] THEN "CONST" ELSE "VAR") \o Idents(s[3])
                         \o (IF s[4] = <<>> THEN <<>> ELSE T("ASSIGN") \o List(s[4]))
                         \o T("SEMI")
    [] s[1] = "if" -> T("IF") \o Tokens(s[2]) \o Block(s[3])
                        \o (IF s[4] = <<>> THEN <<>>
                            ELSE T("ELSE") \o IF s[4][1][1] = "if" /\ Len(s[4]) = 1
                                              THEN Statement(s[4][1]) ELSE Block(s[4]))
    [] s[1] = "while" -> T("WHILE") \o Tokens(s[2]) \o Block(s[3])
    [] s[1] = "for" -> T("FOR") \o Id(s[3]) \o T(s[2]) \o Tokens(s[4]) \o Block(s[5])
    [] s[1] = "over" -> T("FOR") \o Idents(s[2]) \o T("OVER") \o List(s[3]) \o Block(s[4])
    [] s[1] = "try" -> T("TRY") \o Block(s[2]) \o T("CATCH") \o Parens(Idents(s[3]))
                         \o Block(s[4])
                         \o (IF s[5] = <<>> THEN <<>> ELSE T("FINALY") \o Block(s[5]))
    [] s[1] = "function" -> Function(s[2], s[3], s[4])
    [] s[1] = "class" -> T("CLASS") \o Id(s[2]) \o T("LBRACE")
                           \o FlattenSeq([i \in DOMAIN s[3] |->
                                Function(s[3][i][1], s[3][i][2], s[3][i][3])])
                           \o T("RBRACE")
    [] s[1] = "block" -> Block(s[2])
    [] s[1] \in {"return", "throw"} ->
         T(IF s[1] = "return" THEN "RETURN" ELSE "THROW") \o List(s[2]) \o T("SEMI")
    [] s[1] = "break" -> T("BREAK") \o T("SEMI")
    [] s[1] = "continue" -> T("CONTINUE") \o T("SEMI")

Body(ss) == FlattenSeq([i \in DOMAIN ss |-> Statement(ss[i])])
=============================================================================
