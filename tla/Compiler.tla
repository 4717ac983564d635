------------------------------ MODULE Compiler ------------------------------
(***************************************************************************)
(* The one-pass compiler of source/parser/parser.c: a Pratt parser for     *)
(* expressions and a recursive descent for statements that emit bytecode   *)
(* as they consume tokens.                                                 *)
(*                                                                         *)
(* A parser state p is a record, and every parse function of the code is   *)
(* an operator from the state before to the state after:                   *)
(*   toks       the tokens not yet consumed, the last one always EOF       *)
(*   prev       the token consumed last                                    *)
(*   code       the instructions emitted, each <<opcode, A, B>>            *)
(*   depth, locals   the scope depth and the names that own local slots,   *)
(*              each <<name, depth, constant>>; a slot is a position - 1   *)
(*   nlocals    the largest number of locals, which sizes every frame      *)
(*   callDepth  how many comma lists the parser is inside of               *)
(*   wasCall, unpack, multi   what the last expression was: a call, an     *)
(*              unpacking, a mask that leaves so many values               *)
(*   inPipe, exits, nexits   inside a pipe body, and the jumps of its      *)
(*              RETURNs: the array pipe_exits and how many count           *)
(*   err        an error was reported                                      *)
(*                                                                         *)
(* A token is <<type, value>>.  Operands hold values and names themselves  *)
(* where the code holds indices into the constant pool.  Positions count   *)
(* instructions where the code counts bytes; jumps are relative to the     *)
(* following instruction, as in the code.  After an error the code goes on *)
(* to collect no further message (panic mode) and discards what it emits;  *)
(* here an error consumes the rest of the input.                           *)
(***************************************************************************)
EXTENDS Integers, Sequences

CONSTANTS LocalMax,     \* CANDO_LOCAL_MAX
          PipeExitMax   \* RETURNs in one pipe body

Unpatched == 32767      \* 0x7FFF, the offset of a jump nobody has patched

EOF == <<"EOF", "">>

CompilerInit(toks) ==
  [toks |-> Append(toks, EOF), prev |-> EOF, code |-> <<>>, depth |-> 0,
   locals |-> <<>>, nlocals |-> 0, callDepth |-> 0, wasCall |-> FALSE,
   unpack |-> FALSE, multi |-> 1, inPipe |-> FALSE, exits |-> <<>>,
   nexits |-> 0, err |-> FALSE]

----------------------------------------------------------------------------
(* Tokens                                                                  *)

Current(p) == Head(p.toks)
Check(p, t) == Current(p)[1] = t
Error(p) == [p EXCEPT !.err = TRUE, !.toks = <<EOF>>]
Advance(p) == [p EXCEPT !.prev = Current(p),
                        !.toks = IF Len(@) > 1 THEN Tail(@) ELSE @]
Consume(p, t) == IF Check(p, t) THEN Advance(p) ELSE Error(p)
Skip(p, t) == IF Check(p, t) THEN Advance(p) ELSE p

(* Emission                                                                *)

Here(p) == Len(p.code) + 1
EmitAB(p, op, a, b) == [p EXCEPT !.code = Append(@, <<op, a, b>>)]
EmitA(p, op, a) == EmitAB(p, op, a, 0)
Emit(p, op) == EmitAB(p, op, 0, 0)
EmitIf(cond, p, op) == IF cond THEN Emit(p, op) ELSE p
EmitJump(p, op) == EmitA(p, op, Unpatched)


PatchJump(p, at) == [p EXCEPT !.code[at][2] = Here(p) - (at + 1)]
EmitLoop(p, start) == EmitA(p, "LOOP", Here(p) + 1 - start)
EmitLoopMark(p, start, type) ==
  EmitAB(p, "LOOP_MARK", 0, <<Here(p) + 1 - start, type>>)
PatchLoopMark(p, at) == [p EXCEPT !.code[at][2] = Here(p) - (at + 1)]

(* Scopes                                                                  *)

ScopeBegin(p) == [p EXCEPT !.depth = @ + 1]

ScopeEnd(p) ==
  [p EXCEPT !.depth = @ - 1,
            !.locals = SelectSeq(@, LAMBDA l : l[2] < p.depth)]

Resolve(p, name) ==
  LET hits == {i \in DOMAIN p.locals : p.locals[i][1] = name}
  IN  IF hits = {} THEN -1
      ELSE (CHOOSE i \in hits : \A j \in hits : j <= i) - 1

Declare(p, name, const) ==
  IF Len(p.locals) >= LocalMax THEN Error(p)
  ELSE LET ls == Append(p.locals, <<name, p.depth, const>>)
       IN  [p EXCEPT !.locals = ls,
                     !.nlocals = IF Len(ls) > @ THEN Len(ls) ELSE @]

Bind(p, name, op, const) ==
  EmitA(Declare(p, name, const), op, Len(p.locals))

EmitLoad(p, name) ==
  IF Resolve(p, name) >= 0 THEN EmitA(p, "LOAD_LOCAL", Resolve(p, name))
  ELSE EmitA(p, "LOAD_GLOBAL", name)

EmitStore(p, name) ==
  IF Resolve(p, name) >= 0 THEN EmitA(p, "STORE_LOCAL", Resolve(p, name))
  ELSE EmitA(p, "STORE_GLOBAL", name)

----------------------------------------------------------------------------
(* Expressions                                                             *)

\* The levels of enum Precedence that tokens or calls name.
NoPrec == 0          AssignPrec == 1      OrPrec == 2         AndPrec == 3
ComparisonPrec == 8  UnaryPrec == 15

\* The precedence column of RULES.
Levels ==
  << {}, {"OR"}, {"AND"}, {"BITOR"}, {"BITXOR"}, {"AMP"}, {"EQ", "NEQ"},
     {"LT", "GT", "LEQ", "GEQ"}, {"RANGE_ASC", "RANGE_DESC"},
     {"LSHIFT", "RSHIFT"}, {"PLUS", "MINUS"}, {"STAR", "SLASH", "PERCENT"},
     {"CARET"}, {"PIPE_OP", "FILTER_OP"}, {},
     {"LPAREN", "LBRACKET", "DOT", "FLUENT", "COLON"} >>

PrecedenceOf(t) ==
  LET at == {i \in DOMAIN Levels : t \in Levels[i]}
  IN  IF at = {} THEN NoPrec ELSE CHOOSE i \in at : TRUE

RECURSIVE ParsePrecedence(_, _), ParseBlock(_), ParseStatement(_),
          FunctionExpr(_)

ParseExpression(p) == ParsePrecedence(p, AssignPrec)

\* What a comma list does before each of its elements.
Fresh(p) == [p EXCEPT !.wasCall = FALSE, !.unpack = FALSE, !.multi = 1]
Plain(p) == [p EXCEPT !.wasCall = FALSE, !.unpack = FALSE]
Deeper(p) == [p EXCEPT !.callDepth = @ + 1]
Shallower(p) == [p EXCEPT !.callDepth = @ - 1]

(* Masks: (~.~) e1, e2, e3 keeps the values under a ~.                     *)

RECURSIVE MaskBits(_, _)
MaskBits(p, bits) ==
  CASE Check(p, "TILDE")  -> MaskBits(Advance(p), Append(bits, TRUE))
    [] Check(p, "DOT")    -> MaskBits(Advance(p), Append(bits, FALSE))
    [] Check(p, "VARARG") -> MaskBits(Advance(p), bits \o <<FALSE, FALSE, FALSE>>)
    [] OTHER              -> [p |-> Consume(p, "RPAREN"), bits |-> bits]

MaskValue(m, keep) == [p |-> Emit(m.p, IF keep THEN "MASK_PASS" ELSE "MASK_SKIP"),
                       pass |-> m.pass + (IF keep THEN 1 ELSE 0)]

\* The listed values from bit i on; pure is whether all bits are equal.
RECURSIVE MaskList(_, _, _, _)
MaskList(m, bits, i, pure) ==
  LET keep == IF i <= Len(bits) THEN bits[i] ELSE ~bits[1]
  IN  CASE Check(m.p, "COMMA") /\ (i <= Len(bits) \/ pure) ->
             MaskList(MaskValue([m EXCEPT !.p = ParseExpression(Advance(@))], keep),
                      bits, i + 1, pure)
        [] ~Check(m.p, "COMMA") /\ i <= Len(bits) -> [m EXCEPT !.p = Error(@)]
        [] OTHER -> m

MaskEnd(m, isCall) == [Shallower(m.p) EXCEPT !.multi = m.pass, !.unpack = FALSE,
                                             !.wasCall = isCall]

\* q: after the first value.
MaskedList(p, q, bits) ==
  CASE q.wasCall /\ (p.callDepth > 0 \/ ~Check(q, "COMMA")) ->
         MaskEnd([p |-> EmitAB(q, "MASK_APPLY", Len(bits), {i \in DOMAIN bits : bits[i]}),
                  pass |-> Len(SelectSeq(bits, LAMBDA b : b))], TRUE)
    [] OTHER ->
         MaskEnd(IF Check(q, "COMMA")
                 THEN MaskList(MaskValue([p |-> q, pass |-> 0], bits[1]), bits, 2,
                               \A i \in DOMAIN bits : bits[i] = bits[1])
                 ELSE MaskValue([p |-> q, pass |-> 0], bits[1]),
                 FALSE)

MaskEmit(p, bits) ==
  MaskedList(p, ParseExpression([Deeper(p) EXCEPT !.wasCall = FALSE]), bits)

Grouping(p) ==
  IF Current(p)[1] \in {"TILDE", "DOT", "VARARG"}
  THEN LET m == MaskBits(p, <<>>) IN MaskEmit(m.p, m.bits)
  ELSE LET q == ParseExpression([p EXCEPT !.callDepth = 0])
       IN  Consume([q EXCEPT !.callDepth = p.callDepth], "RPAREN")

(* Prefix forms                                                            *)

UnaryOp == [MINUS |-> "NEG", BANG |-> "NOT", HASH |-> "LEN"]
Unary(p) == [Emit(ParsePrecedence(p, UnaryPrec), UnaryOp[p.prev[1]])
               EXCEPT !.wasCall = FALSE]

CompoundOp == [PLUS_ASSIGN |-> "ADD", MINUS_ASSIGN |-> "SUB",
               STAR_ASSIGN |-> "MUL", SLASH_ASSIGN |-> "DIV",
               PERCENT_ASSIGN |-> "MOD", CARET_ASSIGN |-> "POW"]
PostfixOp  == [INCR |-> "ADD", DECR |-> "SUB"]

\* x++ leaves the old value: the new one is stored and dropped again.
Postfix(p, name, op) ==
  LET loaded == Emit(EmitLoad(p, name), "DUP")
      added  == Emit(EmitA(loaded, "CONST", <<"num", 1>>), op)
  IN  Emit(EmitStore(added, name), "POP")

Variable(p, canAssign) ==
  LET name == p.prev[2]
      t    == Current(p)[1]
  IN  CASE canAssign /\ t \in DOMAIN CompoundOp ->
             EmitStore(Emit(ParseExpression(EmitLoad(Advance(p), name)),
                            CompoundOp[t]), name)
        [] canAssign /\ t = "ASSIGN" ->
             EmitStore(ParseExpression(Advance(p)), name)
        [] canAssign /\ t \in DOMAIN PostfixOp ->
             Postfix(Advance(p), name, PostfixOp[t])
        [] OTHER -> EmitLoad(p, name)

\* A list parsed so far: the state, and how many values it leaves.
Counted(q, n) == [p |-> q, n |-> n + q.multi]
Nothing(p) == [p |-> p, n |-> 0]
EmitCounted(m, op) == EmitA(m.p, op, m.n)

RECURSIVE ArrayItems(_)
MoreItems(m, comma) == IF comma THEN ArrayItems([m EXCEPT !.p = Advance(@)]) ELSE m
ArrayItem(q, n) ==
  MoreItems(IF q.unpack
            THEN [p |-> Emit(Emit(q, "UNPACK"), "ARRAY_SPREAD"), n |-> n + 1]
            ELSE Counted(q, n),
            Check(q, "COMMA"))
ArrayItems(m) == IF Check(m.p, "RBRACKET") THEN m
                 ELSE ArrayItem(ParseExpression(Fresh(m.p)), m.n)

ArrayLiteral(p) ==
  LET close(m) == [m EXCEPT !.p = Consume(Shallower(@), "RBRACKET")]
  IN  EmitCounted(close(ArrayItems(Nothing(Deeper(p)))), "NEW_ARRAY")

RECURSIVE ObjectFields(_)
MoreFields(q) == IF Check(q, "COMMA") THEN ObjectFields(Advance(q)) ELSE q
ObjectFields(p) ==
  CASE Check(p, "RBRACE") -> p
    [] ~Check(p, "RBRACE") /\ Current(p)[1] \notin {"IDENT", "STRING"} -> Error(p)
    [] OTHER -> MoreFields(EmitA(ParseExpression(Consume(Advance(p), "COLON")),
                                 "SET_FIELD", Current(p)[2]))

ObjectLiteral(p) ==
  Consume(Shallower(ObjectFields(Deeper(Emit(p, "NEW_OBJECT")))), "RBRACE")

Unpack(p) == [ParsePrecedence(p, UnaryPrec) EXCEPT !.unpack = TRUE]

Prefixes == {"NUMBER", "STRING", "IDENT", "PIPE_KW", "NULL", "TRUE", "FALSE",
             "LPAREN", "LBRACKET", "LBRACE", "FUNCTION", "MINUS", "BANG",
             "HASH", "VARARG"}

Prefix(p, canAssign) ==
  LET t == p.prev[1]
  IN  CASE t = "NUMBER" -> EmitA(p, "CONST", <<"num", p.prev[2]>>)
        [] t = "STRING" -> EmitA(p, "CONST", <<"str", p.prev[2]>>)
        [] t \in {"IDENT", "PIPE_KW"} -> Variable(p, canAssign)
        [] t \in {"NULL", "TRUE", "FALSE"} -> Emit(p, t)
        [] t = "LPAREN" -> Grouping(p)
        [] t = "LBRACKET" -> ArrayLiteral(p)
        [] t = "LBRACE" -> ObjectLiteral(p)
        [] t = "FUNCTION" -> FunctionExpr(p)
        [] t \in DOMAIN UnaryOp -> Unary(p)
        [] t = "VARARG" -> Unpack(p)

(* Infix forms                                                             *)

BinaryOp == [PLUS |-> "ADD", MINUS |-> "SUB", STAR |-> "MUL", SLASH |-> "DIV",
             PERCENT |-> "MOD", CARET |-> "POW", AMP |-> "BIT_AND",
             BITOR |-> "BIT_OR", BITXOR |-> "BIT_XOR", LSHIFT |-> "LSHIFT",
             RSHIFT |-> "RSHIFT", RANGE_ASC |-> "RANGE_ASC",
             RANGE_DESC |-> "RANGE_DESC"]
\* Each comparison has a plain, a _STACK and a _SPREAD opcode.
CompareOps == {"EQ", "NEQ", "LT", "GT", "LEQ", "GEQ"}

Truncated(p) == EmitIf(p.wasCall /\ ~p.unpack, p, "TRUNCATE_RET")

\* The rest of a comma list on the right of a comparison.
RECURSIVE CompareList(_, _)
CompareList(m, next) ==
  IF Check(m.p, "COMMA")
  THEN CompareList(Counted(Truncated(ParsePrecedence(Fresh(Advance(m.p)), next)), m.n),
                   next)
  ELSE m

EmitStack(m, op) == EmitAB(m.p, "COMPARE_STACK", op, m.n)

\* min > val < max, and min >= val <= max: one check of a range.
RangeCheck(p, op) ==
  LET right == Current(p)[1]
      q     == Truncated(ParsePrecedence(Fresh(Advance(Truncated(p))),
                                         ComparisonPrec + 1))
  IN  EmitA(q, "RANGE_CHECK", [left |-> op = "GEQ", right |-> right = "LEQ"])

\* p: after the first right operand; cleared is p without the unpack flag.
Comparison(p, op, next) ==
  LET right   == Current(p)[1]
      cleared == [p EXCEPT !.unpack = FALSE]
      inList  == p.callDepth = 0 /\ right = "COMMA"
      n       == IF p.multi > 1 THEN p.multi ELSE 1
      first   == [p |-> EmitIf(n = 1 /\ p.wasCall, cleared, "TRUNCATE_RET"), n |-> n]
      plain   == EmitA(EmitIf(p.wasCall, cleared, "TRUNCATE_RET"), "COMPARE", op)
  IN  CASE op \in {"GT", "GEQ"} /\ right \in {"LT", "LEQ"} -> RangeCheck(p, op)
        [] OTHER ->
           CASE p.unpack -> EmitA(cleared, "COMPARE_SPREAD", op)
             [] ~p.unpack /\ p.multi > 1 /\ ~inList ->
                  EmitAB(cleared, "COMPARE_STACK", op, p.multi)
             [] ~p.unpack /\ inList -> EmitStack(CompareList(first, next), op)
             [] OTHER -> IF op \in {"GT", "GEQ"} /\ right \in {"GT", "GEQ"}
                         THEN Error(plain) ELSE plain

Operator(rhs, op, next) ==
  IF op \in CompareOps THEN Comparison(rhs, op, next) ELSE Emit(rhs, BinaryOp[op])

Binary(p) ==
  LET op   == p.prev[1]
      next == PrecedenceOf(op) + (IF op = "CARET" THEN 0 ELSE 1)
  IN  Plain(Operator(ParsePrecedence([p EXCEPT !.multi = 1, !.unpack = FALSE], next),
                     op, next))

\* The left value stays if it decides; otherwise it is dropped.
ShortCircuit(p, jump, prec) ==
  PatchJump(ParsePrecedence(Emit(EmitJump(p, jump), "POP"), prec), Here(p))

Assignable(p, canAssign, set, get, name) ==
  IF canAssign /\ Check(p, "ASSIGN")
  THEN EmitA(ParseExpression(Advance(p)), set, name)
  ELSE EmitA(p, get, name)

Dot(p, canAssign) ==
  IF ~Check(p, "IDENT") THEN Error(p)
  ELSE Assignable(Advance(p), canAssign, "SET_FIELD", "GET_FIELD", Current(p)[2])

Subscript(p, canAssign) ==
  Assignable(Consume(ParseExpression(p), "RBRACKET"), canAssign,
             "SET_INDEX", "GET_INDEX", 0)

\* The arguments of a call; method and fluent calls count one for each.
RECURSIVE Arguments(_, _)
Argument(q, n, isCall) ==
  LET m == [p |-> EmitIf(q.wasCall, q, "SPREAD_RET"),
            n |-> n + (IF isCall /\ ~q.wasCall THEN q.multi ELSE 1)]
  IN  IF Check(q, "COMMA") THEN Arguments([m EXCEPT !.p = Advance(@)], isCall) ELSE m
Arguments(m, isCall) ==
  IF Check(m.p, "RPAREN") THEN m
  ELSE Argument(ParseExpression(IF isCall THEN Fresh(m.p) ELSE Plain(m.p)), m.n, isCall)

ArgumentList(p, isCall) ==
  LET close(m) == [m EXCEPT !.p = Consume(Shallower(@), "RPAREN")]
  IN  close(Arguments(Nothing(Deeper(p)), isCall))

Call(p) == [EmitCounted(ArgumentList(p, TRUE), "CALL") EXCEPT !.wasCall = TRUE]

EmitMethod(m, op, name) == [EmitAB(m.p, op, name, m.n) EXCEPT !.wasCall = TRUE]
MethodCall(p, op) ==
  EmitMethod(ArgumentList(Consume(Consume(p, "IDENT"), "LPAREN"), FALSE), op,
             Current(p)[2])

RECURSIVE PatchAll(_, _)
PatchAll(p, exits) ==
  IF exits = <<>> THEN p ELSE PatchAll(PatchJump(p, Head(exits)), Tail(exits))

\* The block after ~> or ~!>: falling off its end yields NULL, RETURN jumps
\* past that NULL with its own value.  Of the exits of a pipe around this one
\* only the number is put back.
PipeBlock(p) ==
  LET end(body) == PatchAll(Emit(body, "NULL"), SubSeq(body.exits, 1, body.nexits))
  IN  [end(ParseBlock([p EXCEPT !.inPipe = TRUE, !.nexits = 0]))
         EXCEPT !.inPipe = p.inPipe, !.nexits = p.nexits]

Pipe(p, next, collect) ==
  LET bound == Bind(Emit(ScopeBegin(EmitA(p, "PIPE_INIT", 1)), "NULL"),
                    "pipe", "DEF_LOCAL", FALSE)
      head  == EmitA(EmitJump(bound, next), "DEF_LOCAL", Resolve(bound, "pipe"))
      body  == IF Check(head, "LBRACE") THEN PipeBlock(Advance(head))
               ELSE ParseExpression(head)
      back  == EmitLoop(Emit(body, collect), Here(bound))
  IN  Emit(ScopeEnd(PatchJump(back, Here(bound))), "PIPE_END")

Infix(p, canAssign) ==
  LET t == p.prev[1]
  IN  CASE t \in (DOMAIN BinaryOp) \cup CompareOps -> Binary(p)
        [] t = "AND" -> ShortCircuit(p, "AND_JUMP", AndPrec)
        [] t = "OR" -> ShortCircuit(p, "OR_JUMP", OrPrec)
        [] t = "DOT" -> Dot(p, canAssign)
        [] t = "LBRACKET" -> Subscript(p, canAssign)
        [] t = "LPAREN" -> Call(p)
        [] t = "COLON" -> MethodCall(p, "METHOD_CALL")
        [] t = "FLUENT" -> MethodCall(p, "FLUENT_CALL")
        [] t = "PIPE_OP" -> Pipe(p, "PIPE_NEXT", "PIPE_COLLECT")
        [] t = "FILTER_OP" -> Pipe(p, "FILTER_NEXT", "FILTER_COLLECT")

RECURSIVE Infixes(_, _, _)
Infixes(p, min, canAssign) ==
  IF PrecedenceOf(Current(p)[1]) < min THEN p
  ELSE Infixes(Infix(Advance(p), canAssign), min, canAssign)

\* A = that nothing took is an invalid target.
NoTarget(p, canAssign) == IF canAssign /\ Check(p, "ASSIGN") THEN Error(p) ELSE p

ParsePrecedence(p, min) ==
  LET canAssign == min <= AssignPrec
      q         == Advance([p EXCEPT !.wasCall = FALSE])
  IN  IF q.prev[1] \notin Prefixes THEN Error(q)
      ELSE NoTarget(Infixes(Prefix(q, canAssign), min, canAssign), canAssign)

----------------------------------------------------------------------------
(* Functions and classes                                                   *)

\* Names separated by commas, up to what cannot continue the list.
RECURSIVE Names(_, _)
Names(p, acc) ==
  LET q == Consume(p, "IDENT")
  IN  IF Check(q, "COMMA") THEN Names(Advance(q), Append(acc, q.prev[2]))
      ELSE [p |-> q, names |-> Append(acc, q.prev[2])]

\* A trailing comma or ... ends the parameters.
RECURSIVE Parameters(_, _)
Parameters(p, acc) ==
  CASE Check(p, "RPAREN") -> [p |-> Advance(p), names |-> acc]
    [] Check(p, "VARARG") -> [p |-> Consume(Advance(p), "RPAREN"), names |-> acc]
    [] OTHER ->
       LET q == Consume(p, "IDENT")
           a == Append(acc, q.prev[2])
       IN  IF Check(q, "COMMA") THEN Parameters(Advance(q), a)
           ELSE [p |-> Consume(q, "RPAREN"), names |-> a]

RECURSIVE DeclareAll(_, _)
DeclareAll(p, names) ==
  IF names = <<>> THEN p
  ELSE DeclareAll(Declare(p, Head(names), FALSE), Tail(names))

\* Parameters and body, with a scope of their own and a jump around them;
\* result: the state and the position where the function starts.
FunctionBody(p) ==
  LET ps    == Parameters(Consume(p, "LPAREN"), <<>>)
      start == EmitJump(Consume(ps.p, "LBRACE"), "JUMP")
      inner == DeclareAll([start EXCEPT !.depth = 1, !.locals = <<>>],
                          <<"">> \o ps.names)
      body  == EmitA(Emit(ParseBlock(inner), "NULL"), "RETURN", 1)
      outer == [body EXCEPT !.depth = p.depth, !.locals = p.locals]
  IN  [p |-> PatchJump(outer, Here(start) - 1), start |-> Here(start)]

EmitClosure(f) == EmitA(f.p, "CLOSURE", f.start)

FunctionExpr(p) == Fresh(EmitClosure(FunctionBody(p)))

FunctionDecl(p) == EmitA(EmitClosure(FunctionBody(Consume(p, "IDENT"))),
                         "DEF_GLOBAL", Current(p)[2])

RECURSIVE ClassMembers(_)
BindMethod(f, name) ==
  EmitA(EmitA(f.p, "CONST", <<"num", f.start>>), "BIND_METHOD", name)
ClassMembers(p) ==
  LET name == Consume(Advance(p), "IDENT")
  IN  CASE Current(p)[1] \in {"RBRACE", "EOF"} -> p
        [] Check(p, "FUNCTION") -> ClassMembers(BindMethod(FunctionBody(name), name.prev[2]))
        [] OTHER -> ClassMembers(Advance(p))

ClassDecl(p) ==
  LET name == Current(p)[2]
      head == EmitA(Consume(Consume(p, "IDENT"), "LBRACE"), "NEW_CLASS", name)
  IN  EmitA(Consume(ClassMembers(head), "RBRACE"), "DEF_GLOBAL", name)

----------------------------------------------------------------------------
(* Statements                                                              *)

ParseBlock(p) ==
  IF Current(p)[1] \in {"RBRACE", "EOF"} THEN Consume(p, "RBRACE")
  ELSE ParseBlock(ParseStatement(p))

ScopedBlock(p) == ScopeEnd(ParseBlock(ScopeBegin(Consume(p, "LBRACE"))))

RECURSIVE Initialisers(_)
Initialiser(q, n) ==
  LET m == Counted(EmitIf(q.wasCall, q, "SPREAD_RET"), n)
  IN  IF Check(q, "COMMA") THEN Initialisers([m EXCEPT !.p = Advance(@)]) ELSE m
Initialisers(m) ==
  Initialiser(ParseExpression([m.p EXCEPT !.wasCall = FALSE, !.multi = 1]), m.n)

RECURSIVE EmitTimes(_, _, _)
EmitTimes(p, op, n) == IF n <= 0 THEN p ELSE EmitTimes(Emit(p, op), op, n - 1)

\* The last name takes the top of the stack.
RECURSIVE Define(_, _, _)
Define(p, names, const) ==
  IF names = <<>> THEN p
  ELSE LET name == names[Len(names)]
           rest == SubSeq(names, 1, Len(names) - 1)
       IN  Define(IF p.depth > 0
                  THEN Bind(p, name, "DEF_LOCAL", const)
                  ELSE EmitA(p, IF const THEN "DEF_CONST_GLOBAL" ELSE "DEF_GLOBAL",
                             name),
                  rest, const)

\* Names without a value get NULL, unless a call gives an unknown number.
Filled(m, n) == EmitTimes(Shallower(m.p), "NULL", IF m.p.wasCall THEN 0 ELSE n - m.n)

VarDecl(p, const) ==
  LET vs   == Names(p, <<>>)
      n    == Len(vs.names)
      init == IF Check(vs.p, "ASSIGN")
              THEN Filled(Initialisers(Nothing(Deeper(Advance(vs.p)))), n)
              ELSE EmitTimes(vs.p, "NULL", n)
  IN  Define(Consume(init, "SEMI"), vs.names, const)

RECURSIVE If(_)
Else(p) ==
  CASE ~Check(p, "ELSE") -> p
    [] Check(p, "ELSE") /\ Check(Advance(p), "IF") -> If(Advance(Advance(p)))
    [] OTHER -> ScopedBlock(Advance(p))

\* The states after the condition, and after the block that it guards.
AfterThen(cond, then) ==
  PatchJump(Else(Emit(PatchJump(EmitJump(then, "JUMP"), Here(cond)), "POP")), Here(then))
AfterCondition(cond) ==
  AfterThen(cond, ScopedBlock(Emit(EmitJump(cond, "JUMP_IF_FALSE"), "POP")))
If(p) == AfterCondition(ParseExpression(p))

\* The end of a loop body: the jump back, and where exhaustion and BREAK land.
CloseLoop(p, start, exit) == PatchJump(EmitLoop(Emit(p, "LOOP_END"), start), exit)

\* cond: after the condition, which starts at start.
WhileBody(cond, start) ==
  LET test == Emit(EmitJump(cond, "JUMP_IF_FALSE"), "POP")
      body == ScopedBlock(EmitLoopMark(test, start, "WHILE"))
  IN  PatchLoopMark(Emit(CloseLoop(body, start, Here(cond)), "POP"), Here(test))

While(p) == WhileBody(ParseExpression(p), Here(p))

\* The values after OVER, three at most.
RECURSIVE OverValues(_)
OverValue(q, n) ==
  LET m == Counted(EmitIf(q.wasCall, q, "SPREAD_RET"), n)
  IN  IF m.n < 3 /\ Check(q, "COMMA") THEN OverValues([m EXCEPT !.p = Advance(@)]) ELSE m
OverValues(m) ==
  OverValue(ParseExpression([m.p EXCEPT !.wasCall = FALSE, !.multi = 1]), m.n)

RECURSIVE BindAll(_, _)
BindAll(p, names) ==
  IF names = <<>> THEN p
  ELSE BindAll(Bind(p, names[Len(names)], "DEF_LOCAL", FALSE),
               SubSeq(names, 1, Len(names) - 1))

\* From the iterator's initialisation, which has just been emitted, on.
ForBody(init, next, names, type) ==
  LET vars == BindAll(ScopeBegin(EmitJump(init, next)), names)
      mark == EmitLoopMark(vars, Here(init), type)
      body == ScopeEnd(ParseBlock(mark))
  IN  PatchLoopMark(CloseLoop(body, Here(init), Here(init)), Here(vars))

ForOver(m, names) ==
  ForBody(EmitAB(Consume(Shallower(m.p), "LBRACE"), "FOR_OVER_INIT", Len(names),
                 <<m.n, m.p.wasCall>>),
          "FOR_OVER_NEXT", names, "FOR_OVER")

\* IN over a range means its values.
ForIn(iter, names, kind) ==
  LET keys == kind = "IN" /\ iter.code[Len(iter.code)][1] \notin {"RANGE_ASC", "RANGE_DESC"}
  IN  IF iter.err THEN iter
      ELSE ForBody(EmitA(iter, "FOR_INIT", IF keys THEN 1 ELSE 0), "FOR_NEXT", names, "FOR")

For(p) ==
  LET vs   == Names(p, <<>>)
      kind == Current(vs.p)[1]
  IN  CASE kind = "OVER" ->
             ForOver(OverValues(Nothing(Deeper(Advance(vs.p)))), vs.names)
        [] kind \in {"IN", "OF"} /\ Len(vs.names) = 1 ->
             ForIn(Consume(ParseExpression(Advance(vs.p)), "LBRACE"), vs.names, kind)
        [] OTHER -> Error(vs.p)

RECURSIVE BindInOrder(_, _)
BindInOrder(p, names) ==
  IF names = <<>> THEN p
  ELSE BindInOrder(Bind(p, Head(names), "DEF_LOCAL", FALSE), Tail(names))

Try(p) ==
  LET body  == Emit(ScopedBlock(EmitJump(p, "TRY_BEGIN")), "TRY_END")
      hdlr  == PatchJump(EmitJump(body, "JUMP"), Here(p))
      ns    == Names(Consume(Consume(hdlr, "CATCH"), "LPAREN"), <<>>)
      open  == Consume(Consume(ns.p, "RPAREN"), "LBRACE")
      bound == BindInOrder(EmitA(ScopeBegin(open), "CATCH_BEGIN", Len(ns.names)),
                           ns.names)
      catch == PatchJump(ScopeEnd(ParseBlock(bound)), Here(body))
  IN  IF Check(catch, "FINALY") THEN ScopedBlock(Advance(catch)) ELSE catch

RECURSIVE ExprList(_)
ListItem(q, n) == IF Check(q, "COMMA") THEN ExprList([p |-> Advance(q), n |-> n])
                  ELSE [p |-> Shallower(q), n |-> n]
ExprList(m) == ListItem(ParseExpression(m.p), m.n + 1)

\* In a pipe body RETURN yields the value of the element.
PipeReturn(p) ==
  IF p.nexits >= PipeExitMax THEN Error(p)
  ELSE [EmitJump(p, "JUMP") EXCEPT
          !.exits = SubSeq(@, 1, p.nexits) \o <<Here(p)>> \o SubSeq(@, p.nexits + 2, Len(@)),
          !.nexits = @ + 1]

Return(p) ==
  LET none   == Current(p)[1] \in {"SEMI", "RBRACE", "EOF"}
      ret(m) == EmitA(Skip(m.p, "SEMI"), "RETURN", m.n)
  IN  CASE p.inPipe -> PipeReturn(Skip(IF none THEN Emit(p, "NULL") ELSE ParseExpression(p),
                                       "SEMI"))
        [] OTHER -> ret(IF none THEN [p |-> Emit(p, "NULL"), n |-> 1]
                        ELSE ExprList(Nothing(Deeper(p))))

Throw(p) ==
  LET throw(m) == EmitA(Consume(m.p, "SEMI"), "THROW", m.n)
  IN  throw(ExprList(Nothing(Deeper(p))))

ExprStmt(p) == Emit(Consume(p, "SEMI"), "POP")

ParseStatement(p) ==
  LET t == Current(p)[1]
      q == Advance(p)
  IN  CASE t = "VAR" -> VarDecl(q, FALSE)
        [] t = "CONST" -> VarDecl(q, TRUE)
        [] t = "IF" -> If(q)
        [] t = "WHILE" -> While(q)
        [] t = "FOR" -> For(q)
        [] t = "TRY" -> Try(q)
        [] t = "FUNCTION" -> IF Check(q, "LPAREN") THEN ExprStmt(FunctionExpr(q))
                             ELSE FunctionDecl(q)
        [] t = "CLASS" -> ClassDecl(q)
        [] t = "RETURN" -> Return(q)
        [] t = "THROW" -> Throw(q)
        [] t = "BREAK" -> EmitA(Skip(q, "SEMI"), "BREAK", 0)
        [] t = "CONTINUE" -> EmitA(Skip(q, "SEMI"), "CONTINUE", 0)
        [] t = "LBRACE" -> ScopeEnd(ParseBlock(ScopeBegin(q)))
        [] t = "SEMI" -> q
        [] OTHER -> ExprStmt(ParseExpression(p))

RECURSIVE Program(_)
Program(p) ==
  IF Check(p, "EOF") THEN Emit(p, "HALT") ELSE Program(ParseStatement(p))

\* cando_parse on a whole script.
Compile(toks) == Program(CompilerInit(toks))
=============================================================================
