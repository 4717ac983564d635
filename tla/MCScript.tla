------------------------------ MODULE MCScript ------------------------------
EXTENDS Script

N(n) == <<"num", n>>
S(s) == <<"str", s>>
V(x) == <<"name", x>>
Do(e) == <<"expr", e>>
Var(x, e) == <<"var", FALSE, <<x>>, <<e>>>>
Bin(op, e, f) == <<"bin", op, e, f>>
Cmp(op, e, f) == <<"cmp", op, e, <<f>>>>
CallOf(f, es) == <<"call", f, es>>
Fn(xs, body) == <<"fn", xs, body>>
Ret(e) == <<"return", <<e>>>>
Set(x, e) == Do(<<"set", x, e>>)
Method(x, e, name, es) == <<"method", x, e, name, es>>
Get(e, key) == <<"get", e, key>>
At2(e, i) == <<"at", e, i>>
Put(e, key, f) == Do(<<"put", e, key, f>>)
Arr(es) == <<"array", es>>
Obj(fields) == <<"object", fields>>
NullLit == <<"lit", "NULL">>
TrueLit == <<"lit", "TRUE">>
Log(c) == Do(<<"update", "ADD", "s", S(c)>>)

----------------------------------------------------------------------------
(* Every two operators, nested on either side: 48 op1 (4 op2 2) and        *)
(* (48 op1 4) op2 2, with operands that keep divisions exact.              *)

Op2(op, e, f) == CASE op \in {"AND", "OR"} -> <<IF op = "AND" THEN "and" ELSE "or", e, f>>
                   [] op \in CompareOps -> Cmp(op, e, f)
                   [] OTHER -> Bin(op, e, f)
AllOps == ArithOps \cup BitOps \cup CompareOps \cup {"AND", "OR"}

\* Bits of a truth value, and a remainder by zero, are not defined.
Sensible(op1, op2) == ~(op1 \in BitOps /\ op2 \in CompareOps)
RightNested(op1, op2) ==
  <<Var("r", Op2(op1, N(IF op1 = "POW" THEN 2 ELSE 48), Op2(op2, N(4), N(2))))>>
LeftNested(op1, op2) ==
  <<Var("r", Op2(op1, Op2(op2, N(IF op2 = "POW" THEN 2 ELSE 48), N(4)), N(2)))>>

OperatorPrograms ==
  {RightNested(p[1], p[2]) : p \in {q \in AllOps \X AllOps :
     Sensible(q[1], q[2]) /\ ~(q[1] = "MOD" /\ q[2] \in {"MOD", "BIT_AND"})}}
  \cup {LeftNested(p[1], p[2]) : p \in {q \in AllOps \X AllOps : Sensible(q[1], q[2])}}

----------------------------------------------------------------------------
(* Every statement within every other, with every way of leaving it.       *)

Two == <<"array", <<N(1), N(2)>>>>
Counter == Var("next", Fn(<<"max", "at">>, <<
  <<"if", Cmp("LT", V("at"), V("max")), <<<<"return", <<Bin("ADD", V("at"), N(1)), V("at")>>>>>>, <<>>>>,
  Ret(<<"lit", "NULL">>)>>))

Wrap(kind, body) ==
  CASE kind = "while" -> <<"block", <<Var("i", N(0)),
         <<"while", Cmp("LT", V("i"), N(2)),
           <<Do(<<"update", "ADD", "i", N(1)>>), Log("w")>> \o body \o <<Log("W")>>>>>>>>
    [] kind = "of" -> <<"for", "OF", "v", Two, <<Log("o")>> \o body \o <<Log("O")>>>>
    [] kind = "in" -> <<"for", "IN", "k", <<"object", <<<<"a", N(1)>>, <<"b", N(2)>>>>>>,
                        <<Do(<<"update", "ADD", "s", V("k")>>)>> \o body>>
    [] kind = "range" -> <<"for", "IN", "n", <<"range", TRUE, N(1), N(2)>>, <<Log("r")>> \o body>>
    [] kind = "over" -> <<"over", <<"x", "y">>, <<V("next"), N(2), N(0)>>,
                          <<Log("v")>> \o body \o <<Do(<<"set", "z", V("x")>>)>>>>
    [] kind = "if" -> <<"if", Cmp("EQ", V("s"), S("")), <<Log("i")>> \o body, <<Log("e")>> \o body>>
    [] kind = "try" -> <<"try", <<Log("t")>> \o body \o <<Log("T")>>, <<"e">>,
                         <<Do(<<"update", "ADD", "s", V("e")>>)>>, <<Log("f")>>>>
    [] kind = "catch" -> <<"try", <<<<"throw", <<S("q"), N(1)>>>>>>, <<"e", "d">>,
                           <<Do(<<"update", "ADD", "s", V("e")>>)>> \o body, <<>>>>
    [] kind = "function" -> <<"block", <<Var("f", Fn(<<"a">>, <<Log("(")>> \o body \o <<Log(")")>>)),
                                         Do(CallOf(V("f"), <<N(1)>>)), Log("/")>>>>
    [] kind = "pipe" -> Do(<<"set", "z", <<"pipe", TRUE, Two,
                              <<"block", <<Log("p")>> \o body \o <<Ret(V("pipe"))>>>>>>>>)

Kinds == {"while", "of", "in", "range", "over", "if", "try", "catch", "function", "pipe"}
Loops == {"while", "of", "in", "range", "over"}
Leaf(leaf) == CASE leaf \in {"break", "continue"} -> <<<<leaf>>>>
                [] leaf = "return" -> <<Ret(S("x"))>>
                [] leaf = "throw" -> <<<<"throw", <<S("x")>>>>>>
                [] leaf = "none" -> <<Log(".")>>

\* BREAK, CONTINUE and RETURN leave only what they clean up: what happens
\* otherwise is in ReturnInLoop, and in VMControl for TRY.
Passing(kinds) == kinds \subseteq {"if", "catch"}
Allowed(leaf, path) ==
  CASE leaf \in {"break", "continue"} ->
         \E i \in DOMAIN path : path[i] \in Loops /\ Passing({path[j] : j \in i + 1 .. Len(path)})
    [] leaf = "return" ->
         \E i \in DOMAIN path : path[i] \in {"function", "pipe"}
                                /\ Passing({path[j] : j \in i + 1 .. Len(path)})
                                /\ (path[i] = "function" => \A j \in 1 .. i - 1 : path[j] # "pipe")
    [] OTHER -> TRUE

RECURSIVE Wrapped(_, _)
Wrapped(path, body) ==
  IF path = <<>> THEN body ELSE <<Wrap(Head(path), Wrapped(Tail(path), body))>>

Leaves == {"break", "continue", "return", "throw", "none"}
NestedPrograms(paths) ==
  {<<Var("s", S("")), Var("z", N(0)), Counter>> \o Wrapped(q[1], Leaf(q[2])) \o <<Log("!")>> :
     q \in {p \in paths \X Leaves : Allowed(p[2], p[1])}}
----------------------------------------------------------------------------
(* One program for each thing the language does besides.                   *)

DataPrograms == {
  <<Var("a", Arr(<<N(10), Arr(<<N(1), S("x")>>)>>)), Do(<<"putat", V("a"), N(3), N(7)>>),
    Do(<<"putat", At2(V("a"), N(1)), N(0), N(6)>>),
    Var("r", Bin("ADD", At2(V("a"), N(3)), <<"un", "LEN", V("a")>>)),
    Var("u", At2(V("a"), N(2))), Var("x", At2(V("a"), N(9))),
    Do(<<"putat", V("a"), S("k"), N(5)>>),
    Var("b", Arr(<<<<"unpack", Arr(<<N(1), V("a")>>)>>, N(3), <<"unpack", N(4)>>>>))>>,
  <<Var("o", Obj(<<<<"p", N(1)>>, <<"q", Obj(<<<<"r", N(2)>>>>)>>>>)),
    Put(V("o"), "p", Bin("ADD", Get(Get(V("o"), "q"), "r"), N(1))),
    Do(<<"putat", V("o"), S("z"), N(3)>>), Var("n", <<"un", "LEN", V("o")>>),
    Var("none", Get(V("o"), "none")), Var("q", Get(V("o"), "q")), Put(V("q"), "r", N(5)),
    Var("r", Get(Get(V("o"), "q"), "r")), Var("s", Get(S("abc"), "x")),
    Var("t", At2(V("o"), S("z"))), Var("l", <<"un", "LEN", S("abc")>>)>>,
  <<Var("x", N(3))>> \o [i \in 1 .. 6 |->
     Do(<<"update", <<"ADD", "MUL", "SUB", "DIV", "POW", "MOD">>[i], "x",
          N(<<5, 4, 2, 3, 2, 7>>[i])>>)]
    \o <<Var("y", Arr(<<<<"post", "ADD", "x">>, V("x"), <<"post", "SUB", "x">>, V("x")>>)),
         Set("z", <<"and", V("x"), <<"or", NullLit, S("")>>>>),
         Var("w", Arr([i \in 1 .. 4 |-> <<"un", "NOT", <<N(0), S(""), NullLit, TrueLit>>[i]>>]))>>,
  <<Var("r", Arr([i \in 1 .. 12 |->
      LET x == N(1 + (i % 3)) y == i \div 6 z == (i \div 3) % 2
      IN  <<"between", y = 0, N(1), x, z = 0, N(3)>>]))>>,
  <<<<"var", TRUE, <<"c">>, <<N(1)>>>>, Var("c", N(2)), Var("r", V("c")),
    <<"var", FALSE, <<"d", "e">>, <<>>>>, <<"var", FALSE, <<"f", "g">>, <<N(1), N(2)>>>>,
    <<"block", <<<<"var", FALSE, <<"f", "h">>, <<N(5)>>>>, Set("g", V("f")),
                 <<"block", <<Var("f", N(6)), Set("g", Bin("ADD", V("f"), V("g")))>>>>,
                 Set("g", Bin("ADD", V("g"), V("f")))>>>>>>,
  <<Var("up", <<"range", TRUE, N(1), N(3)>>), Var("down", <<"range", FALSE, N(2), N(0)>>),
    Var("empty", <<"range", TRUE, N(2), N(1)>>)>> }

Pair == Var("pair", Fn(<<"x">>, <<<<"return", <<V("x"), Bin("ADD", V("x"), N(1))>>>>>>))
Sum  == <<"function", "sum", <<"x", "y", "z">>,
          <<Ret(Bin("ADD", Bin("MUL", V("x"), N(10)), V("y")))>>>>

\* x op a, b, and x op the results of a call.  Lists that x equals some but
\* not all of are in SomeEqual.
ListPrograms ==
  LET left(op, n) == N(IF op = "EQ" /\ n # 2 THEN 5 ELSE 2)
  IN  {<<Pair, Set("r", <<"cmp", op, left(op, n), <<N(2), N(n)>>>>),
         Set("u", <<"cmp", op, N(2), <<<<"unpack", CallOf(V("pair"), <<N(n)>>)>>>>>>),
         Set("v", <<"cmp", op, left(op, 0), <<N(n), S("x"), N(2)>>>>)>> :
          op \in CompareOps, n \in 0 .. 3}

CallPrograms == {
  <<Pair, Sum, <<"var", FALSE, <<"a", "b">>, <<CallOf(V("pair"), <<N(4)>>)>>>>,
    Var("c", CallOf(V("sum"), <<CallOf(V("pair"), <<N(1)>>)>>)),
    Var("d", CallOf(V("sum"), <<N(7), CallOf(V("pair"), <<N(1)>>)>>)),
    Var("e", Bin("ADD", CallOf(V("sum"), <<N(1), N(2), N(3), N(4)>>), N(1))),
    Var("f", CallOf(Fn(<<"g">>, <<Ret(CallOf(V("g"), <<N(3), N(4)>>))>>), <<V("sum")>>))>>,
  <<Pair, Set("a", Cmp("EQ", N(1), CallOf(V("pair"), <<N(1)>>))),
    Set("b", <<"cmp", "LT", N(1), <<CallOf(V("pair"), <<N(1)>>), CallOf(V("pair"), <<N(2)>>)>>>>),
    Set("c", <<"between", FALSE, N(1), CallOf(V("pair"), <<N(2)>>), TRUE, CallOf(V("pair"), <<N(2)>>)>>)>>,
  <<Pair, <<"var", FALSE, <<"a", "b">>, <<<<"mask", <<TRUE, FALSE, TRUE>>, <<N(1), N(2), N(3)>>>>>>>>,
    Var("c", <<"mask", <<FALSE, TRUE>>, <<CallOf(V("pair"), <<N(4)>>)>>>>),
    Var("d", Arr(<<<<"mask", <<FALSE, TRUE>>, <<S("a"), S("b")>>>>, N(5)>>)),
    Var("e", Arr(<<<<"mask", <<TRUE>>, <<N(1)>>>>>>)),
    Set("f", <<"cmp", "EQ", N(4), <<<<"mask", <<TRUE, FALSE>>, <<N(4), N(5)>>>>>>>>)>>,
  <<<<"function", "fact", <<"n">>,
      <<<<"if", Cmp("LT", V("n"), N(2)), <<Ret(N(1))>>, <<>>>>,
        Ret(Bin("MUL", V("n"), CallOf(V("fact"), <<Bin("SUB", V("n"), N(1))>>)))>>>>,
    Var("r", CallOf(V("fact"), <<N(3)>>)),
    <<"try", <<Var("l", N(1)), Set("r", Bin("ADD", N(1), CallOf(V("fact"), <<N(9)>>)))>>,
      <<"e">>, <<Set("t", V("e"))>>, <<Set("f", N(1))>>>>,
    Set("r", CallOf(V("fact"), <<N(9)>>))>>,
  <<Var("o", Obj(<<<<"n", N(1)>>,
      <<"add", Fn(<<"self", "k">>, <<Put(V("self"), "n", Bin("ADD", Get(V("self"), "n"), V("k"))),
                                     Ret(Get(V("self"), "n"))>>)>>>>)),
    Var("p", Obj(<<<<"n", N(10)>>, <<"__index", V("o")>>>>)),
    Var("q", Obj(<<<<"__index", V("p")>>>>)),
    Var("a", Method(TRUE, V("o"), "add", <<N(2)>>)),
    Var("b", Get(Method(FALSE, Method(FALSE, V("p"), "add", <<N(5)>>), "add", <<N(5)>>), "n")),
    Var("c", Method(TRUE, V("q"), "add", <<Method(TRUE, V("o"), "add", <<N(1)>>)>>)),
    Var("d", Get(V("q"), "none"))>>,
  <<<<"class", "P", <<<<"get", <<"self", "k">>, <<Ret(Bin("ADD", Get(V("self"), "x"), V("k")))>>>>,
                      <<"__add", <<"v", "w">>, <<Ret(Bin("ADD", Get(V("v"), "x"), V("w")))>>>>>>>>,
    Var("p", Obj(<<<<"x", N(5)>>, <<"__index", V("P")>>>>)),
    Var("a", Method(TRUE, V("p"), "get", <<N(1)>>)), Var("b", Bin("ADD", V("p"), N(3))),
    Var("t", Get(V("p"), "__type"))>> }

Metas == <<"__add", "__sub", "__mul", "__div", "__mod", "__pow", "__eq", "__lt", "__le">>
MetaPrograms == {
  <<Var("o", Obj([i \in DOMAIN Metas |-> <<Metas[i], Fn(<<"x", "y">>,
      <<Set("seen", V("x")), Ret(IF i > 6 THEN Cmp("EQ", V("y"), NullLit) ELSE V("y"))>>)>>]
      \o <<<<"__unm", Fn(<<"x">>, <<Ret(S("neg"))>>)>>, <<"__len", Fn(<<"x">>, <<Ret(N(42))>>)>>>>))>>
    \o [i \in 1 .. 12 |-> Var(<<"a", "b", "c", "d", "e", "f", "g", "h", "i", "j", "k", "l">>[i],
          Op2(<<"ADD", "SUB", "MUL", "DIV", "MOD", "POW", "EQ", "NEQ", "LT", "GT", "LEQ", "GEQ">>[i],
              IF side THEN V("o") ELSE NullLit, IF side THEN NullLit ELSE V("o")))]
    \o <<Var("m", <<"un", "NEG", V("o")>>), Var("n", <<"un", "LEN", V("o")>>)>> :
  side \in BOOLEAN }

LoopPrograms == {
  <<Var("s", N(0)), <<"for", kind, "x", e, <<Set("s", V("x"))>>>>>> :
    kind \in {"IN", "OF"}, e \in {N(4), S("a"), NullLit, Arr(<<>>), Arr(<<N(7), N(8)>>), Obj(<<>>)}}
  \cup {
  <<Var("s", N(0)), Counter, <<"over", <<"x">>, es, <<Set("s", V("x"))>>>>>> :
    es \in {<<N(4)>>, <<V("next"), N(2), N(0)>>, <<V("next"), N(2), N(2)>>, <<V("next"), N(0), N(0)>>}}
  \cup {
  <<Var("s", N(0)), Counter,
    <<"function", "upto", <<"n">>, <<<<"return", <<V("next"), V("n"), N(0)>>>>>>>>,
    <<"over", <<"x", "y", "z">>, <<CallOf(V("upto"), <<N(2)>>)>>, <<Set("s", V("y"))>>>>>>,
  <<Var("a", <<"pipe", FALSE, Arr(<<N(1), N(2)>>), <<"expr", Bin("MUL", V("pipe"), N(3))>>>>),
    Var("b", <<"pipe", TRUE, V("a"), <<"block", <<
       <<"if", Cmp("EQ", V("pipe"), N(3)), <<Ret(NullLit)>>, <<>>>>, Ret(V("pipe"))>>>>>>),
    Var("c", <<"pipe", FALSE, V("a"), <<"block", <<Set("d", V("pipe"))>>>>>>),
    Var("e", <<"pipe", FALSE, <<"pipe", FALSE, V("a"), <<"expr", Bin("ADD", V("pipe"), N(1))>>>>,
       <<"block", <<Var("t", <<"pipe", FALSE, Arr(<<V("pipe"), N(1)>>), <<"expr", V("pipe")>>>>),
                    Ret(V("t"))>>>>>>)>> }

Faults == {
  Do(V("undefined")), Do(Bin("ADD", N(1), S("a"))), Do(Bin("DIV", N(1), N(0))),
  Do(Cmp("LT", N(1), S("a"))), Do(<<"un", "NEG", S("a")>>), Do(<<"un", "LEN", N(1)>>),
  Do(Get(NullLit, "x")), Put(NullLit, "x", N(1)), Do(At2(NullLit, N(0))),
  Do(At2(Arr(<<N(1)>>), NullLit)), Do(<<"putat", NullLit, N(0), N(1)>>),
  Do(<<"putat", Arr(<<>>), NullLit, N(1)>>), Do(CallOf(S("a"), <<N(1), N(2)>>)),
  Do(Method(TRUE, V("ob"), "m", <<N(1)>>)), Do(Method(TRUE, N(1), "m", <<>>)),
  Do(Method(FALSE, S("a"), "m", <<>>)), Set("k", N(2)), Do(<<"pipe", TRUE, N(1), <<"expr", N(1)>>>>),
  Do(<<"range", TRUE, N(1), S("a")>>), Do(<<"between", TRUE, N(1), S("a"), TRUE, N(2)>>),
  <<"throw", <<N(1), S("b"), NullLit>>>>, Do(CallOf(V("thrower"), <<N(5)>>)),
  Do(Bin("ADD", N(1), CallOf(V("thrower"), <<N(5)>>))) }

\* Caught with operands pending and from a loop, thrown again, and uncaught.
FaultPrograms == {
  <<<<"var", TRUE, <<"k">>, <<N(1)>>>>, Var("ob", Obj(<<>>)),
    <<"function", "thrower", <<"v">>, <<Var("w", N(8)), <<"throw", <<V("v")>>>>>>>>,
    <<"for", "OF", "i", Arr(<<N(1), N(2)>>), <<
      <<"try", <<Var("x", N(3)), fault>>, <<"e", "f">>, <<Set("r", V("e")), Set("q", V("f"))>>,
        <<Set("n", V("i"))>>>>>>>>,
    <<"try", <<<<"try", <<fault>>, <<"e">>, <<<<"throw", <<V("e"), N(1)>>>>>>, <<>>>>>>,
      <<"e", "f">>, <<Set("u", Arr(<<V("e"), V("f")>>))>>, <<>>>>,
    fault, Set("after", N(1))>> : fault \in Faults }

FeaturePrograms == DataPrograms \cup ListPrograms \cup CallPrograms \cup MetaPrograms
                   \cup LoopPrograms \cup FaultPrograms

Paths == {<<a>> : a \in Kinds} \cup (Kinds \X Kinds)
         \cup ({"of", "try", "function", "pipe"} \X Kinds \X {"over", "while", "try", "catch"})

Everything ==
  Prepared(OperatorPrograms \cup NestedPrograms(Paths) \cup FeaturePrograms)

----------------------------------------------------------------------------
(* Programs that do not do what the documents say, one kind for each run.  *)

\* x == a, b where x is one of them.
SomeEqual == Prepared(
  {<<Set("r", <<"cmp", "EQ", N(2), <<N(2), N(n)>>>>)>> : n \in 0 .. 5})

\* RETURN in a pipe body in front of another pipe that has one of its own.
NestedPipes == Prepared(
  {<<Set("r", <<"pipe", filter, Two, <<"block", <<
        <<"if", Cmp("EQ", V("pipe"), N(n)), <<Ret(N(50))>>, <<>>>>,
        Var("x", <<"pipe", FALSE, Two, <<"block", <<Ret(V("pipe"))>>>>>>),
        Ret(V("pipe"))>>>>>>)>> : filter \in BOOLEAN, n \in 0 .. 2})

\* A function returns from its loop, and a loop that calls it BREAKs.
ReturnInLoop == Prepared(
  {<<Var("s", S("")), Var("f", Fn(<<>>, <<Wrap(kind, <<Ret(N(1))>>), Ret(N(2))>>)), Counter,
     Var("z", N(0)),
     <<"for", "OF", "v", Two, <<Log("a"), Do(CallOf(V("f"), <<>>)), <<"break">>>>>>, Log("!")>> :
   kind \in {"while", "of", "range"}})

\* A method with locals of its own.
WithClassLocals == Prepared(
  {<<<<"class", "P", <<<<"go", <<"self", "a">>, <<Var("x", N(1)), Var("y", Bin("ADD", V("a"), V("x"))),
        Ret(Bin("ADD", Bin("MUL", V("y"), N(10)), V("x")))>>>>>>>>,
     Var("p", Obj(<<<<"__index", V("P")>>>>)), Var("r", Method(TRUE, V("p"), "go", <<N(n)>>))>> :
   n \in 0 .. 5})
=============================================================================
