---------------------------- MODULE ScriptValues ----------------------------
(***************************************************************************)
(* The values of a script and the operations vm.c applies to them.  A      *)
(* value is <<type, payload>>; an object is <<"ref", handle>> on the value  *)
(* stack and <<"obj", index>> inside an object.  Numbers are integers: the  *)
(* programs checked divide exactly and stay within 32 bits.                 *)
(***************************************************************************)
EXTENDS Integers, Sequences, Bitwise

Null    == <<"null", 0>>
Bool(b) == <<"bool", b>>
Num(n)  == <<"num", n>>
Str(s)  == <<"str", s>>

IsNum(v) == v[1] = "num"
IsStr(v) == v[1] = "str"
IsRef(v) == v[1] = "ref"

Truthy(v) == v # Null /\ v # Bool(FALSE)

RECURSIVE Power(_, _)
Power(n, e) == IF e <= 0 THEN 1 ELSE n * Power(n, e - 1)

ArithOps   == {"ADD", "SUB", "MUL", "DIV", "MOD", "POW"}
BitOps     == {"BIT_AND", "BIT_OR", "BIT_XOR", "LSHIFT", "RSHIFT"}
CompareOps == {"EQ", "NEQ", "LT", "GT", "LEQ", "GEQ"}

\* C's fmod takes the sign of the dividend.
Remainder(m, n) == IF m < 0 THEN -((-m) % n) ELSE m % n

\* The number op makes of m and n.
Number(op, m, n) ==
  CASE op = "ADD" -> m + n
    [] op = "SUB" -> m - n
    [] op = "MUL" -> m * n
    [] op = "DIV" -> m \div n
    [] op = "MOD" -> Remainder(m, n)
    [] op = "POW" -> Power(m, n)
    [] op = "BIT_AND" -> m & n
    [] op = "BIT_OR" -> m | n
    [] op = "BIT_XOR" -> m ^^ n
    [] op = "LSHIFT" -> m * 2 ^ n
    [] op = "RSHIFT" -> m \div 2 ^ n

\* What is wrong with the operands, or "" if nothing is.
ArithFault(op, v, w) ==
  CASE op = "ADD" /\ IsStr(v) /\ IsStr(w) -> ""
    [] ~(IsNum(v) /\ IsNum(w)) /\ ~(op = "ADD" /\ IsStr(v) /\ IsStr(w)) -> "numbers"
    [] OTHER -> IF op = "DIV" /\ w[2] = 0 THEN "zero" ELSE ""

Arith(op, v, w) ==
  IF IsStr(v) THEN Str(v[2] \o w[2]) ELSE Num(Number(op, v[2], w[2]))

Ordered(op, m, n) ==
  CASE op = "LT" -> m < n
    [] op = "GT" -> m > n
    [] op = "LEQ" -> m <= n
    [] op = "GEQ" -> m >= n

Compare(op, v, w) ==
  CASE op = "EQ" -> v = w
    [] op = "NEQ" -> v # w
    [] OTHER -> Ordered(op, v[2], w[2])

\* In a list an ordering of other things than numbers is false, not an error.
Holds(op, v, w) ==
  (op \in {"EQ", "NEQ"} \/ (IsNum(v) /\ IsNum(w))) /\ Compare(op, v, w)

CompareAll(op, v, ws) == \A i \in DOMAIN ws : Holds(op, v, ws[i])
CompareAny(op, v, ws) == \E i \in DOMAIN ws : Holds(op, v, ws[i])

Within(min, val, max, flags) ==
  /\ IF flags.left THEN min <= val ELSE min < val
  /\ IF flags.right THEN val <= max ELSE val < max
=============================================================================
