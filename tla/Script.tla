------------------------------- MODULE Script -------------------------------
(***************************************************************************)
(* A script from its text to its end: the tokens of a program tree are     *)
(* compiled (Compiler) and executed (Interpreter), and what the execution  *)
(* leaves is compared with the meaning of the tree (ScriptSemantics).      *)
(***************************************************************************)
EXTENDS Interpreter

CONSTANTS Programs,               \* the scripts, as Prepared makes them
          LocalMax, PipeExitMax   \* of Compiler

Parser    == INSTANCE Compiler
Syntax    == INSTANCE ScriptSyntax
Reference == INSTANCE ScriptSemantics WITH CallMax <- FramesMax - 1

Init == prog \in Programs /\ Fresh

Parse == status = "idle" /\ Load(prog.chunk)

Next == Parse \/ Step

Spec == Init /\ [][Next]_vars

----------------------------------------------------------------------------
(* What can be seen of a value: functions look alike, and a CLASS keeps    *)
(* its methods as numbers.                                                 *)

RECURSIVE Seen(_, _)
Seen(h, v) ==
  IF v[1] # "obj" THEN v
  ELSE LET o == h[v[2]]
           class == FieldAt(o, "__type") # {}
           field(f) == IF class /\ f[1] # "__type" THEN f[1] ELSE <<f[1], Seen(h, f[2])>>
       IN  <<o.kind, [i \in DOMAIN o.items |-> Seen(h, o.items[i])],
             [i \in DOMAIN o.fields |-> field(o.fields[i])]>>

SeenAll(h, vs) == [i \in DOMAIN vs |-> Seen(h, vs[i])]

Outcome ==
  [end |-> status,
   globals |-> [x \in DOMAIN globals |-> <<Seen(heap, ToCdo(globals[x].val)), globals[x].const>>],
   thrown |-> IF status = "halt" THEN <<>>
              ELSE SeenAll(heap, [i \in DOMAIN errs |-> ToCdo(errs[i])])]

Told(r) ==
  [end |-> IF r.sig = "throw" THEN "error" ELSE "halt",
   globals |-> [x \in DOMAIN r.m.globals |->
                  <<Seen(r.m.heap, r.m.globals[x][1]), r.m.globals[x][2]>>],
   thrown |-> IF r.sig = "throw" THEN SeenAll(r.m.heap, r.m.err) ELSE <<>>]
Meaning(p) == Told(Reference!Run(p, Reference!Start))

\* Scripts with the tokens they are written with, and with the chunk those
\* are compiled to and what the script means.
Written(trees) == {[tree |-> t, text |-> Syntax!Body(t)] : t \in trees}
Prepared(trees) ==
  {[tree |-> s.tree, chunk |-> Parser!Compile(s.text), meaning |-> Meaning(s.tree)] :
     s \in Written(trees)}

Ended == status \notin {"idle", "run"}


(* A program that ends by itself leaves nothing behind: neither values of  *)
(* an iterator or an unfinished expression, nor loop or TRY entries, nor   *)
(* counts of results that a later call would take for its own.             *)
NothingIsLeft ==
  (status = "halt" /\ frames # <<>>) =>
    /\ top = (IF nlocals > 1 THEN nlocals ELSE 1)
    /\ Len(frames) = 1 /\ loops = <<>> /\ trys = <<>>
    /\ counts.spread = 0 /\ counts.array = 0

(* "so the expression evaluation stack always sits above the local variable *)
(* area" (vm.c:680): no value is pushed into the cell of a local.          *)
EvaluationAboveLocals ==
  status = "run" => top >= Last(frames).slots + nlocals - 1
=============================================================================
