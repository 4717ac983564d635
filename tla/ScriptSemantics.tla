--------------------------- MODULE ScriptSemantics ---------------------------
(***************************************************************************)
(* What a script means, without a compiler or a stack: the reference the   *)
(* modules Compiler and Interpreter are checked against.  It follows       *)
(* docs/language-reference.md and docs/metamethods.md.                     *)
(*                                                                         *)
(* m is the state of the script: globals and locals, objects, what was     *)
(* thrown, how deep calls are and how deep the current text is in blocks.  *)
(* Evaluating gives [m, vs, sig]: vs the values, sig how it ended ("ok",   *)
(* "throw", and for statements "return", "break", "continue").             *)
(***************************************************************************)
EXTENDS ScriptValues
LOCAL INSTANCE SequencesExt

CONSTANT CallMax     \* how deep calls nest

Start == [globals |-> <<>>, locals |-> <<>>, heap |-> <<>>, err |-> <<>>,
          depth |-> 0, nest |-> 0]

Done(m, vs) == [m |-> m, vs |-> vs, sig |-> "ok"]
One(m, v) == Done(m, <<v>>)
Thrown(m, vs) == [m |-> [m EXCEPT !.err = vs], vs |-> <<>>, sig |-> "throw"]
Fault(m, what) == Thrown(m, <<Str(what)>>)
Signal(m, vs, sig) == [m |-> m, vs |-> vs, sig |-> sig]

\* What follows, unless something else than going on was asked for.
Then(r, Next(_)) == IF r.sig = "ok" THEN Next(r) ELSE r
First(r) == IF r.vs = <<>> THEN Null ELSE r.vs[1]

(* Names                                                                   *)

LocalAt(m, x) == {i \in DOMAIN m.locals : m.locals[i][1] = x}
Newest(s) == CHOOSE i \in s : \A j \in s : j <= i

Read(m, x) ==
  CASE LocalAt(m, x) # {} -> One(m, m.locals[Newest(LocalAt(m, x))][2])
    [] LocalAt(m, x) = {} /\ x \in DOMAIN m.globals -> One(m, m.globals[x][1])
    [] OTHER -> Fault(m, "undefined")

SetGlobal(m, x, v, const) ==
  [m EXCEPT !.globals = [n \in DOMAIN @ \cup {x} |->
                           IF n = x THEN <<v, const>> ELSE m.globals[n]]]

Assigned(m, x, v) ==
  CASE LocalAt(m, x) # {} ->
         One([m EXCEPT !.locals[Newest(LocalAt(m, x))] = <<x, v>>], v)
    [] LocalAt(m, x) = {} /\ x \in DOMAIN m.globals /\ m.globals[x][2] -> Fault(m, "constant")
    [] OTHER -> One(SetGlobal(m, x, v, FALSE), v)

AddLocal(m, x, v) == [m EXCEPT !.locals = Append(@, <<x, v>>)]
AddLocals(m, xs, vs) ==
  [m EXCEPT !.locals = @ \o [i \in DOMAIN xs |->
                               <<xs[i], IF i <= Len(vs) THEN vs[i] ELSE Null>>]]

(* Objects: an array has items, an object fields, a function its text.     *)

New(m, object) == One([m EXCEPT !.heap = Append(@, object)],
                      <<"obj", Len(m.heap) + 1>>)
ArrayValue(vs) == [kind |-> "array", items |-> vs, fields |-> <<>>, fn |-> <<>>]
ObjectValue(fields) == [kind |-> "object", items |-> <<>>, fields |-> fields, fn |-> <<>>]
FunctionValue(params, body) ==
  [kind |-> "function", items |-> <<>>, fields |-> <<>>, fn |-> <<params, body>>]

IsObj(v) == v[1] = "obj"
Kind(m, v) == IF IsObj(v) THEN m.heap[v[2]].kind ELSE v[1]

RawField(m, v, k) ==
  LET fs == m.heap[v[2]].fields
      at == {i \in DOMAIN fs : fs[i][1] = k}
  IN  IF at = {} THEN <<>> ELSE <<fs[CHOOSE i \in at : TRUE][2]>>

\* The field itself, or the prototype's.
RECURSIVE Field(_, _, _)
Field(m, v, k) ==
  LET up == RawField(m, v, "__index")
  IN  CASE RawField(m, v, k) # <<>> -> RawField(m, v, k)
        [] RawField(m, v, k) = <<>> /\ up # <<>> -> Field(m, up[1], k)
        [] OTHER -> <<>>

WithField(m, v, k, w) ==
  LET fs == m.heap[v[2]].fields
  IN  [m EXCEPT !.heap[v[2]].fields =
         IF RawField(m, v, k) = <<>> THEN Append(fs, <<k, w>>)
         ELSE [i \in DOMAIN fs |-> IF fs[i][1] = k THEN <<k, w>> ELSE fs[i]]]

Extended(items, n, v) ==
  [i \in 1 .. (IF n > Len(items) THEN n ELSE Len(items)) |->
     IF i = n THEN v ELSE IF i <= Len(items) THEN items[i] ELSE Null]

\* Into a block, and out of it again: its locals are gone.
Into(m) == [m EXCEPT !.nest = @ + 1]
OutTo(m, r) == [r EXCEPT !.m.locals = SubSeq(@, 1, Len(m.locals)), !.m.nest = m.nest]

----------------------------------------------------------------------------
(* Expressions                                                             *)

RECURSIVE Eval(_, _), EvalAll(_, _, _), Exec(_, _), Run(_, _), Repeat(_, _, _),
          Iterate(_, _, _, _), OverLoop(_, _, _, _, _, _), Each(_, _, _, _, _)

Value(e, m) == Then(Eval(e, m), LAMBDA r : One(r.m, First(r)))

\* The values of a list in order; expressions of these kinds stand for all
\* their values, the others for one.
EvalAll(es, kinds, m) ==
  IF es = <<>> THEN Done(m, <<>>)
  ELSE Then(IF Head(es)[1] \in kinds THEN Eval(Head(es), m) ELSE Value(Head(es), m),
            LAMBDA r : Then(EvalAll(Tail(es), kinds, r.m),
                            LAMBDA t : Done(t.m, r.vs \o t.vs)))

Values(es, m) == EvalAll(es, {}, m)
Calls == {"call", "method", "mask", "unpack"}

\* A function sees its parameters and the globals.
Returned(r, m) ==
  LET back == [r.m EXCEPT !.locals = m.locals, !.depth = m.depth, !.nest = m.nest]
  IN  CASE r.sig = "throw" -> [r EXCEPT !.m = back]
        [] r.sig = "return" -> Done(back, r.vs)
        [] OTHER -> One(back, Null)

Apply(f, args, m) ==
  LET fn    == m.heap[f[2]].fn
      inner == AddLocals([m EXCEPT !.locals = <<>>, !.depth = @ + 1, !.nest = 1],
                         fn[1], args)
  IN  CASE Kind(m, f) # "function" -> Fault(m, "callee")
        [] Kind(m, f) = "function" /\ m.depth >= CallMax -> Fault(m, "overflow")
        [] OTHER -> Returned(Run(fn[2], inner), m)

\* The meta-method k of the left operand if it is an object, or of the right.
Meta(m, v, w, k) ==
  CASE IsObj(v) -> Field(m, v, k)
    [] ~IsObj(v) /\ IsObj(w) -> Field(m, w, k)
    [] OTHER -> <<>>

ViaMeta(f, args, m) == Then(Apply(f, args, m), LAMBDA r : One(r.m, First(r)))

MetaName == [ADD |-> "__add", SUB |-> "__sub", MUL |-> "__mul", DIV |-> "__div",
             MOD |-> "__mod", POW |-> "__pow"]

Operate(op, v, w, m) ==
  LET f == IF op \in ArithOps THEN Meta(m, v, w, MetaName[op]) ELSE <<>>
  IN  CASE f # <<>> -> ViaMeta(f[1], <<v, w>>, m)
        [] f = <<>> /\ ArithFault(op, v, w) # "" -> Fault(m, ArithFault(op, v, w))
        [] OTHER -> One(m, Arith(op, v, w))

\* One value against another: a > b is __lt(b, a).
Against(op, v, w, m) ==
  LET key  == CASE op \in {"EQ", "NEQ"} -> "__eq"
                [] op \in {"LT", "GT"} -> "__lt"
                [] op \in {"LEQ", "GEQ"} -> "__le"
      f    == Meta(m, v, w, key)
      args == IF op \in {"GT", "GEQ"} THEN <<w, v>> ELSE <<v, w>>
  IN  CASE f # <<>> -> Then(ViaMeta(f[1], args, m),
                            LAMBDA r : One(r.m, IF op = "NEQ"
                                                THEN Bool(~Truthy(r.vs[1])) ELSE r.vs[1]))
        [] f = <<>> /\ op \notin {"EQ", "NEQ"} /\ ~(IsNum(v) /\ IsNum(w)) ->
             Fault(m, "compare")
        [] OTHER -> One(m, Bool(Compare(op, v, w)))

\* A list of alternatives, or the results of ...f(): == holds against any of
\* them, != against none of them, and an ordering against all.
AgainstAll(op, v, ws, m) ==
  One(m, Bool(IF op = "EQ" THEN CompareAny(op, v, ws) ELSE CompareAll(op, v, ws)))

AgainstList(op, e, alts, m) ==
  Then(Value(e, m), LAMBDA r :
    IF alts[1][1] = "unpack"
    THEN Then(Eval(alts[1][2], r.m), LAMBDA t : AgainstAll(op, r.vs[1], t.vs, t.m))
    ELSE Then(Values(alts, r.m), LAMBDA t :
           IF Len(alts) = 1 THEN Against(op, r.vs[1], t.vs[1], t.m)
           ELSE AgainstAll(op, r.vs[1], t.vs, t.m)))

UnaryOf(op, v, m) ==
  LET f == IF IsObj(v) /\ op # "NOT"
           THEN Field(m, v, IF op = "NEG" THEN "__unm" ELSE "__len") ELSE <<>>
  IN  CASE f # <<>> -> ViaMeta(f[1], <<v>>, m)
        [] f = <<>> /\ op = "NOT" -> One(m, Bool(~Truthy(v)))
        [] f = <<>> /\ op = "NEG" -> IF IsNum(v) THEN One(m, Num(-v[2])) ELSE Fault(m, "negate")
        [] f = <<>> /\ op = "LEN" ->
             CASE IsStr(v) -> One(m, Num(Len(v[2])))
               [] Kind(m, v) = "array" -> One(m, Num(Len(m.heap[v[2]].items)))
               [] IsObj(v) /\ Kind(m, v) # "array" -> One(m, Num(Len(m.heap[v[2]].fields)))
               [] OTHER -> Fault(m, "length")

GetOf(v, k, m) ==
  CASE IsStr(v) -> One(m, Null)
    [] IsObj(v) -> One(m, IF Field(m, v, k) = <<>> THEN Null ELSE Field(m, v, k)[1])
    [] OTHER -> Fault(m, "field")

PutOf(v, k, w, m) ==
  LET f == IF IsObj(v) /\ RawField(m, v, k) = <<>> THEN Field(m, v, "__newindex") ELSE <<>>
  IN  CASE ~IsObj(v) -> Fault(m, "assign")
        [] IsObj(v) /\ f # <<>> -> ViaMeta(f[1], <<v, Str(k), w>>, m)
        [] OTHER -> One(WithField(m, v, k, w), v)

AtOf(v, i, m) ==
  LET items == m.heap[v[2]].items
  IN  CASE ~IsObj(v) -> Fault(m, "index")
        [] IsObj(v) /\ IsStr(i) -> One(m, IF RawField(m, v, i[2]) = <<>> THEN Null
                                          ELSE RawField(m, v, i[2])[1])
        [] IsObj(v) /\ IsNum(i) -> One(m, IF i[2] \in 0 .. Len(items) - 1
                                          THEN items[i[2] + 1] ELSE Null)
        [] OTHER -> Fault(m, "key")

PutAtOf(v, i, w, m) ==
  CASE ~IsObj(v) -> Fault(m, "assign")
    [] IsObj(v) /\ IsStr(i) -> PutOf(v, i[2], w, m)
    [] IsObj(v) /\ IsNum(i) ->
         One([m EXCEPT !.heap[v[2]].items = Extended(@, i[2] + 1, w)], v)
    [] OTHER -> Fault(m, "key")

\* The receiver is the first argument; :: results in the receiver.
Invoke(colon, v, name, args, m) ==
  LET f == IF IsObj(v) THEN Field(m, v, name) ELSE <<>>
  IN  CASE f # <<>> /\ Kind(m, f[1]) = "function" ->
             Then(Apply(f[1], <<v>> \o args, m),
                  LAMBDA r : IF colon THEN r ELSE One(r.m, v))
        [] OTHER -> Fault(m, IF IsObj(v) \/ IsStr(v) THEN "method" ELSE "receiver")

\* ~> applies the body to each element; ~!> drops the null results.
Yielded(r, isExpr) ==
  CASE r.sig = "throw" -> r
    [] r.sig = "return" \/ isExpr -> One(r.m, First(r))
    [] OTHER -> One(r.m, Null)

PipeBody(body, v, m) ==
  LET inner == AddLocal(Into(m), "pipe", v)
  IN  Yielded(OutTo(m, IF body[1] = "expr" THEN Value(body[2], inner)
                       ELSE Run(body[2], inner)),
              body[1] = "expr")

Each(filter, body, vs, acc, m) ==
  IF vs = <<>> THEN New(m, ArrayValue(acc))
  ELSE Then(PipeBody(body, Head(vs), m), LAMBDA r :
         Each(filter, body, Tail(vs),
              IF filter /\ r.vs[1] = Null THEN acc ELSE Append(acc, r.vs[1]), r.m))

Counting(up, from, to) ==
  IF up THEN [i \in 1 .. to - from + 1 |-> Num(from + i - 1)]
  ELSE [i \in 1 .. from - to + 1 |-> Num(from - i + 1)]

\* The kept positions; past a mask that only skips everything is kept.
Masked(bits, vs) ==
  LET at == SelectSeq([i \in DOMAIN vs |-> i],
                      LAMBDA i : IF i <= Len(bits) THEN bits[i] ELSE \A k \in DOMAIN bits : ~bits[k])
  IN  [i \in DOMAIN at |-> vs[at[i]]]

Eval(e, m) ==
  CASE e[1] = "num" -> One(m, Num(e[2]))
    [] e[1] = "str" -> One(m, Str(e[2]))
    [] e[1] = "lit" -> One(m, IF e[2] = "NULL" THEN Null ELSE Bool(e[2] = "TRUE"))
    [] e[1] = "name" -> Read(m, e[2])
    [] e[1] = "set" -> Then(Value(e[3], m), LAMBDA r : Assigned(r.m, e[2], r.vs[1]))
    [] e[1] = "update" ->
         Then(Read(m, e[3]), LAMBDA r :
         Then(Value(e[4], r.m), LAMBDA t :
         Then(Operate(e[2], r.vs[1], t.vs[1], t.m), LAMBDA u :
              Assigned(u.m, e[3], u.vs[1]))))
    [] e[1] = "post" ->
         Then(Read(m, e[3]), LAMBDA r :
         Then(Operate(e[2], r.vs[1], Num(1), r.m), LAMBDA t :
         Then(Assigned(t.m, e[3], t.vs[1]), LAMBDA u : One(u.m, r.vs[1]))))
    [] e[1] = "un" -> Then(Value(e[3], m), LAMBDA r : UnaryOf(e[2], r.vs[1], r.m))
    [] e[1] = "bin" -> Then(Values(<<e[3], e[4]>>, m),
                            LAMBDA r : Operate(e[2], r.vs[1], r.vs[2], r.m))
    [] e[1] = "cmp" -> AgainstList(e[2], e[3], e[4], m)
    [] e[1] = "between" ->
         Then(Values(<<e[3], e[4], e[6]>>, m), LAMBDA r :
              IF \A i \in 1 .. 3 : IsNum(r.vs[i])
              THEN One(r.m, Bool(Within(r.vs[1][2], r.vs[2][2], r.vs[3][2],
                                        [left |-> e[2], right |-> e[5]])))
              ELSE Fault(r.m, "range check"))
    [] e[1] = "and" -> Then(Value(e[2], m), LAMBDA r :
                            IF Truthy(r.vs[1]) THEN Value(e[3], r.m) ELSE r)
    [] e[1] = "or" -> Then(Value(e[2], m), LAMBDA r :
                           IF Truthy(r.vs[1]) THEN r ELSE Value(e[3], r.m))
    [] e[1] = "array" ->
         Then(EvalAll(e[2], {"mask", "unpack"}, m), LAMBDA r : New(r.m, ArrayValue(r.vs)))
    [] e[1] = "unpack" ->
         Then(Value(e[2], m), LAMBDA r :
              IF Kind(r.m, r.vs[1]) = "array" THEN Done(r.m, r.m.heap[r.vs[1][2]].items) ELSE r)
    [] e[1] = "object" ->
         Then(Values([i \in DOMAIN e[2] |-> e[2][i][2]], m), LAMBDA r :
              LET made == New(r.m, ObjectValue(<<>>))
                  put(s, i) == WithField(s, made.vs[1], e[2][i][1], r.vs[i])
              IN  Done(FoldLeft(put, made.m, [i \in DOMAIN e[2] |-> i]), made.vs))
    [] e[1] = "get" -> Then(Value(e[2], m), LAMBDA r : GetOf(r.vs[1], e[3], r.m))
    [] e[1] = "put" -> Then(Values(<<e[2], e[4]>>, m),
                            LAMBDA r : PutOf(r.vs[1], e[3], r.vs[2], r.m))
    [] e[1] = "at" -> Then(Values(<<e[2], e[3]>>, m),
                           LAMBDA r : AtOf(r.vs[1], r.vs[2], r.m))
    [] e[1] = "putat" -> Then(Values(<<e[2], e[3], e[4]>>, m),
                              LAMBDA r : PutAtOf(r.vs[1], r.vs[2], r.vs[3], r.m))
    [] e[1] = "call" -> Then(Value(e[2], m), LAMBDA r :
                        Then(EvalAll(e[3], Calls, r.m), LAMBDA t : Apply(r.vs[1], t.vs, t.m)))
    [] e[1] = "method" -> Then(Value(e[3], m), LAMBDA r :
                          Then(EvalAll(e[5], Calls, r.m), LAMBDA t :
                               Invoke(e[2], r.vs[1], e[4], t.vs, t.m)))
    [] e[1] = "fn" -> New(m, FunctionValue(e[2], e[3]))
    [] e[1] = "pipe" -> Then(Value(e[3], m), LAMBDA r :
                             IF Kind(r.m, r.vs[1]) = "array"
                             THEN Each(e[2], e[4], r.m.heap[r.vs[1][2]].items, <<>>, r.m)
                             ELSE Fault(r.m, "pipe"))
    [] e[1] = "mask" -> Then(EvalAll(e[3], Calls, m), LAMBDA r : Done(r.m, Masked(e[2], r.vs)))
    [] e[1] = "range" -> Then(Values(<<e[3], e[4]>>, m), LAMBDA r :
                              IF IsNum(r.vs[1]) /\ IsNum(r.vs[2])
                              THEN New(r.m, ArrayValue(Counting(e[2], r.vs[1][2], r.vs[2][2])))
                              ELSE Fault(r.m, "range"))

----------------------------------------------------------------------------
(* Statements                                                              *)

Scoped(body, m) == OutTo(m, Run(body, Into(m)))

Run(ss, m) == IF ss = <<>> THEN Done(m, <<>>)
              ELSE Then(Exec(Head(ss), m), LAMBDA r : Run(Tail(ss), r.m))

\* What a loop makes of its body's end, Next being the next iteration.
Looping(r, Next(_)) ==
  CASE r.sig \in {"ok", "continue"} -> Next(r.m)
    [] r.sig = "break" -> Done(r.m, <<>>)
    [] OTHER -> r

Repeat(cond, body, m) ==
  Then(Value(cond, m), LAMBDA r :
    IF Truthy(r.vs[1]) THEN Looping(Scoped(body, r.m), LAMBDA n : Repeat(cond, body, n))
    ELSE Done(r.m, <<>>))

\* In a scope of its own a name is a local, at the top level a global.
DefineGlobal(m, x, v, const) ==
  IF x \in DOMAIN m.globals /\ m.globals[x][2] THEN m ELSE SetGlobal(m, x, v, const)
Declare(m, x, v, const) ==
  IF m.nest > 0 THEN AddLocal(m, x, v) ELSE DefineGlobal(m, x, v, const)

Iterate(x, vs, body, m) ==
  IF vs = <<>> THEN Done(m, <<>>)
  ELSE Looping(OutTo(m, Run(body, AddLocal(Into(m), x, Head(vs)))),
               LAMBDA k : Iterate(x, Tail(vs), body, k))

Elements(kind, v, m) ==
  LET o == m.heap[v[2]]
  IN  CASE ~IsObj(v) -> <<v>>
        [] IsObj(v) /\ o.kind = "array" ->
             IF kind = "IN" THEN [i \in DOMAIN o.items |-> Num(i - 1)] ELSE o.items
        [] OTHER -> [i \in DOMAIN o.fields |->
                       IF kind = "IN" THEN Str(o.fields[i][1]) ELSE o.fields[i][2]]

\* The iterator is called with the state and the control value.
OverLoop(names, f, state, c, body, m) ==
  IF Kind(m, f) # "function" THEN Done(m, <<>>)
  ELSE Then(Apply(f, <<state, c>>, m), LAMBDA r :
         IF First(r) = Null THEN Done(r.m, <<>>)
         ELSE Looping(OutTo(r.m, Run(body, AddLocals(Into(r.m), names, Tail(r.vs)))),
                      LAMBDA k : OverLoop(names, f, state, r.vs[1], body, k)))

Exec(s, m) ==
  CASE s[1] = "expr" -> Then(Eval(s[2], m), LAMBDA r : Done(r.m, <<>>))
    [] s[1] = "var" ->
         Then(EvalAll(s[4], Calls, m), LAMBDA r :
           LET declare(n, i) ==
                 Declare(n, s[3][i], IF i <= Len(r.vs) THEN r.vs[i] ELSE Null, s[2])
           IN  Done(FoldLeft(declare, r.m, [i \in DOMAIN s[3] |-> i]), <<>>))
    [] s[1] = "if" -> Then(Value(s[2], m), LAMBDA r :
                           Scoped(IF Truthy(r.vs[1]) THEN s[3] ELSE s[4], r.m))
    [] s[1] = "while" -> Repeat(s[2], s[3], m)
    [] s[1] = "for" -> Then(Value(s[4], m), LAMBDA r :
         Iterate(s[3], Elements(IF s[4][1] = "range" THEN "OF" ELSE s[2], r.vs[1], r.m),
                 s[5], r.m))
    [] s[1] = "over" -> Then(EvalAll(s[3], Calls, m), LAMBDA r :
         LET v(i) == IF i <= Len(r.vs) THEN r.vs[i] ELSE Null
         IN  OverLoop(s[2], v(1), v(2), v(3), s[4], r.m))
    [] s[1] = "try" ->
         LET handler(e) == AddLocals(Into([e EXCEPT !.err = <<>>]), s[3], e.err)
             caught(r) == IF r.sig = "throw" THEN OutTo(m, Run(s[4], handler(r.m))) ELSE r
         IN  Then(caught(Scoped(s[2], m)), LAMBDA k : Scoped(s[5], k.m))
    [] s[1] = "function" ->
         LET f == New(m, FunctionValue(s[3], s[4]))
         IN  Done(DefineGlobal(f.m, s[2], f.vs[1], FALSE), <<>>)
    [] s[1] = "class" ->
         LET cls == New(m, ObjectValue(<<<<"__type", Str(s[2])>>>>))
             add(n, i) == LET f == New(n, FunctionValue(s[3][i][2], s[3][i][3]))
                          IN  WithField(f.m, cls.vs[1], s[3][i][1], f.vs[1])
             all == FoldLeft(add, cls.m, [i \in DOMAIN s[3] |-> i])
         IN  Done(DefineGlobal(all, s[2], cls.vs[1], FALSE), <<>>)
    [] s[1] = "block" -> Scoped(s[2], m)
    [] s[1] = "return" ->
         Then(IF s[2] = <<>> THEN One(m, Null) ELSE Values(s[2], m),
              LAMBDA r : Signal(r.m, r.vs, "return"))
    [] s[1] = "throw" -> Then(Values(s[2], m), LAMBDA r : Thrown(r.m, r.vs))
    [] s[1] \in {"break", "continue"} -> Signal(m, <<>>, s[1])
=============================================================================
