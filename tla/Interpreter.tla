----------------------------- MODULE Interpreter -----------------------------
(***************************************************************************)
(* The dispatch loop vm_run of source/vm/vm.c on the instructions the      *)
(* module Compiler emits: one action per opcode, or per group of opcodes   *)
(* that differ in an operator only.                                        *)
(*                                                                         *)
(* The value stack is memory: cells above the top keep what was last in    *)
(* them, and a local slot may lie there.  A vm_run that another handler    *)
(* calls (an iterator of FOR OVER, a meta-method) is a frame whose "then"  *)
(* says what the caller does with the results.  No library is loaded, so   *)
(* there are no native functions and no prototypes of strings and arrays.  *)
(* An error message is the word that tells it from the others.  Threads,   *)
(* AWAIT and upvalues (which the compiler never emits) are left out.       *)
(***************************************************************************)
EXTENDS ScriptValues, SequencesExt, FiniteSets

CONSTANTS FramesMax,  \* CANDO_FRAMES_MAX
          ThrowMax,   \* CANDO_MAX_THROW_ARGS
          ProtoMax    \* CANDO_PROTO_DEPTH_MAX

VARIABLES
  prog,               \* what the chunk was compiled from; no step looks at it
  code, nlocals,      \* the chunk and its local_count
  stack, top,         \* the cells of the value stack, and how many are in use
  frames,             \* [ret, slots, fluent, then]
  ip, loops, trys,
  globals,            \* name -> [val, const]
  heap,               \* objects: [kind, items, fields, static, pc]
  handles,            \* handle -> index in heap
  counts,             \* last_ret_count, spread_extra, array_extra
  errs,               \* error_vals
  status              \* "idle", "run"; at the end "halt", "error", "rejected",
                      \* "abort" (a failed assertion), "escaped", "astray"
                      \* (executes what is not in the chunk)

chunk   == <<prog, code, nlocals>>
control == <<frames, loops, trys, errs, status>>
store   == <<globals, heap, handles>>
vars    == <<prog, code, nlocals, stack, top, frames, ip, loops, trys, globals,
             heap, handles, counts, errs, status>>

Live     == SubSeq(stack, 1, top)
Drop(n)  == SubSeq(stack, 1, top - n)
Peek(n)  == stack[top - n]
Upper(n) == SubSeq(stack, top - n + 1, top)
A == code[ip][2]
B == code[ip][3]
At(ops) == status = "run" /\ code[ip][1] \in ops

\* The stack holds the values s; the cells above keep their contents.
Lay(s) == /\ stack' = s \o SubSeq(stack, Len(s) + 1, Len(stack))
          /\ top' = Len(s)

Goto(target) == ip' = target
FallThrough == Goto(ip + 1)

\* An instruction that only works on the stack.
Leave(s) == Lay(s) /\ FallThrough /\ UNCHANGED <<chunk, control, store, counts>>
Push(v) == Leave(Append(Live, v))
Replace(n, v) == Leave(Append(Drop(n), v))

----------------------------------------------------------------------------
(* Errors                                                                  *)

\* To the newest TRY: frames, values and loops above its marks are dropped.
\* A TRY outside of the innermost nested vm_run is VMControl's subject.
Unwind(s) ==
  LET t == Last(trys)
  IN  IF trys = <<>>
      THEN /\ status' = "error"
           /\ Lay(s)
           /\ UNCHANGED <<frames, loops, trys, ip>>
      ELSE /\ status' = IF \E i \in t.frames + 1 .. Len(frames) : frames[i].then # "none"
                        THEN "escaped" ELSE status
           /\ frames' = SubSeq(frames, 1, t.frames)
           /\ loops' = SubSeq(loops, 1, t.loops)
           /\ trys' = Front(trys)
           /\ Lay(IF Len(s) > t.top THEN SubSeq(s, 1, t.top) ELSE s)
           /\ Goto(t.catch)

Raise(what, s) ==
  errs' = <<Str(what)>> /\ Unwind(s) /\ UNCHANGED <<chunk, store, counts>>

TryBegin ==
  /\ At({"TRY_BEGIN"})
  /\ trys' = Append(trys, [catch |-> ip + 1 + A, top |-> top,
                           frames |-> Len(frames), loops |-> Len(loops)])
  /\ FallThrough
  /\ UNCHANGED <<chunk, stack, top, frames, loops, errs, status, store, counts>>

TryEnd ==
  /\ At({"TRY_END"})
  /\ trys' = IF trys = <<>> THEN trys ELSE Front(trys)
  /\ FallThrough
  /\ UNCHANGED <<chunk, stack, top, frames, loops, errs, status, store, counts>>

\* The first value thrown ends up on top.
CatchBegin ==
  /\ At({"CATCH_BEGIN"})
  /\ Lay(Live \o [i \in 1 .. A |-> IF A - i + 1 <= Len(errs)
                                   THEN errs[A - i + 1] ELSE Null])
  /\ errs' = <<>>
  /\ FallThrough
  /\ UNCHANGED <<chunk, frames, loops, trys, status, store, counts>>

Throw ==
  /\ At({"THROW"})
  /\ errs' = Upper(A)
  /\ Unwind(Drop(A))
  /\ UNCHANGED <<chunk, store, counts>>

----------------------------------------------------------------------------
(* Objects, and the bridge between stack values and object fields          *)

Object(kind) == [kind |-> kind, items |-> <<>>, fields |-> <<>>, static |-> {}, pc |-> 0]
ArrayOf(items) == [Object("array") EXCEPT !.items = items]

ToCdo(v) == IF IsRef(v) THEN <<"obj", handles[v[2]]>> ELSE v

\* Each object read from an object gets a handle of its own.
Objects(vs) == SelectSeq(vs, LAMBDA v : v[1] = "obj")
ToCando(hs, vs) ==
  [i \in DOMAIN vs |-> IF vs[i][1] = "obj"
                       THEN <<"ref", Len(hs) + Len(Objects(SubSeq(vs, 1, i)))>>
                       ELSE vs[i]]
Imported(hs, vs) == hs \o [i \in DOMAIN Objects(vs) |-> Objects(vs)[i][2]]

Resolve(v) == heap[handles[v[2]]]
NewRef == <<"ref", Len(handles) + 1>>
Allocate(object) == /\ heap' = Append(heap, object)
                    /\ handles' = Append(handles, Len(heap) + 1)
                    /\ UNCHANGED globals

FieldAt(o, key) == {i \in DOMAIN o.fields : o.fields[i][1] = key}
\* Only plain objects are searched: what is stored in an array by name stays
\* out of sight.
HasField(o, key) == o.kind = "object" /\ FieldAt(o, key) # {}
RawGet(o, key) == o.fields[CHOOSE i \in FieldAt(o, key) : TRUE][2]
RawSet(o, key, v) ==
  CASE key \in o.static /\ FieldAt(o, key) # {} -> o
    [] FieldAt(o, key) # {} /\ key \notin o.static ->
         [o EXCEPT !.fields[CHOOSE i \in FieldAt(o, key) : TRUE] = <<key, v>>]
    [] OTHER -> [o EXCEPT !.fields = Append(@, <<key, v>>)]

\* <<>> or the value found along the __index chain.
RECURSIVE Find(_, _, _)
Find(i, key, depth) ==
  LET o    == heap[i]
      next == IF HasField(o, "__index") THEN RawGet(o, "__index") ELSE Null
  IN  CASE depth = 0 -> <<>>
        [] depth > 0 /\ HasField(o, key) -> <<RawGet(o, key)>>
        [] OTHER -> IF next[1] = "obj" /\ next[2] # i
                    THEN Find(next[2], key, depth - 1) ELSE <<>>

Lookup(v, key) == Find(handles[v[2]], key, ProtoMax)

----------------------------------------------------------------------------
(* Calls                                                                   *)

\* Nulls up to the cells of n locals of a frame that starts at base.
PaddedTo(s, base, n) == s \o [i \in 1 .. (base + n - 1) - Len(s) |-> Null]

\* Variant: only what the caller pushed.
Unpadded(s, base) == s

Padded(s, base) == PaddedTo(s, base, nlocals)

Frame(base, fluent, then) ==
  [ret |-> ip + 1, slots |-> base, fluent |-> fluent, then |-> then]

Enter(pc, s, frame) ==
  /\ frames' = Append(frames, frame)
  /\ Lay(s)
  /\ Goto(pc)
  /\ UNCHANGED <<chunk, loops, trys, errs, status, store>>

IsFunction(v) == IsRef(v) /\ Resolve(v).kind = "function"

Full == Len(frames) >= FramesMax

Call ==
  /\ At({"CALL"})
  /\ LET n      == IF A + counts.spread < 0 THEN 0 ELSE A + counts.spread
         callee == Peek(n)
         enter(pc) == Enter(pc, Padded(Live, top - n), Frame(top - n, FALSE, "none"))
     IN  /\ counts' = [counts EXCEPT !.spread = 0]
         /\ \/ /\ IsNum(callee) /\ callee[2] >= 0 /\ ~Full
               /\ enter(callee[2])
            \/ /\ IsFunction(callee) /\ ~Full
               /\ enter(Resolve(callee).pc)
            \/ /\ Full \/ ~(IsFunction(callee) \/ (IsNum(callee) /\ callee[2] >= 0))
               /\ errs' = <<Str(IF IsFunction(callee) \/ IsNum(callee)
                                THEN "overflow" ELSE "callee")>>
               /\ Unwind(Live)
               /\ UNCHANGED <<chunk, store>>

\* The method goes below the receiver, which is its first argument.  A method
\* of a CLASS is a number, and its call reserves no cells for its locals.
MethodCall ==
  /\ At({"METHOD_CALL", "FLUENT_CALL"})
  /\ LET n        == B
         base     == top - n
         receiver == Peek(n)
         found    == IF IsRef(receiver) THEN Lookup(receiver, A) ELSE <<>>
         method   == IF found = <<>> THEN Null ELSE found[1]
         isFn     == method[1] = "obj" /\ heap[method[2]].kind = "function"
         value    == ToCando(handles, <<method>>)[1]
         shifted  == SubSeq(stack, 1, base - 1) \o <<value>> \o Upper(n + 1)
         frame    == Frame(base, code[ip][1] = "FLUENT_CALL", "none")
     IN  \/ /\ (isFn \/ IsNum(method)) /\ ~Full
            /\ frames' = Append(frames, frame)
            /\ handles' = Imported(handles, <<method>>)
            /\ IF isFn THEN Lay(Padded(shifted, base)) /\ Goto(heap[method[2]].pc)
               ELSE Lay(shifted) /\ Goto(method[2])
            /\ UNCHANGED <<chunk, loops, trys, errs, status, globals, heap, counts>>
         \/ /\ (isFn \/ IsNum(method)) /\ Full
            /\ Raise("overflow", shifted)
         \/ /\ ~(isFn \/ IsNum(method))
            /\ Raise(IF IsRef(receiver) \/ IsStr(receiver) THEN "method" ELSE "receiver",
                     Live)

\* vm_run is called by a handler that left s on the stack.
Nested(pc, s, args, then) ==
  Enter(pc, Padded(s \o <<Null>> \o args, Len(s) + 1), Frame(Len(s) + 1, FALSE, then))

\* What meta-method applies, <<>> if none: the left operand's unless only the
\* right one is an object.
MetaOf(v, w, key) ==
  CASE IsRef(v) -> Lookup(v, key)
    [] ~IsRef(v) /\ IsRef(w) -> Lookup(w, key)
    [] OTHER -> <<>>

\* A method given as a number yields its first result, a function its last.
CallMeta(method, s, args, then) ==
  LET isFn == method[1] = "obj" /\ heap[method[2]].kind = "function"
  IN  CASE isFn /\ ~Full ->
             Nested(heap[method[2]].pc, s, args, then \o "_last") /\ UNCHANGED counts
        [] IsNum(method) /\ ~Full ->
             Nested(method[2], s, args, then \o "_first") /\ UNCHANGED counts
        [] isFn /\ Full -> Leave(Append(s, IF then = "not" THEN Bool(TRUE) ELSE Null))
        [] IsNum(method) /\ Full -> Raise("overflow", s)
        [] OTHER -> Raise("meta", s)

\* The iterator of FOR OVER has returned rets to the instruction at: a null
\* first value ends the loop, otherwise it is the next control value.
OverStep(at, s, rets) ==
  LET n    == Len(s)
      nvar == s[n][2]
  IN  IF rets = <<>> \/ rets[1] = Null
      THEN Lay(SubSeq(s, 1, n - 4)) /\ Goto(at + 1 + code[at][2])
      ELSE /\ Lay([s EXCEPT ![n - 1] = rets[1]]
                    \o [i \in 1 .. nvar |-> IF i < Len(rets) THEN rets[i + 1] ELSE Null])
           /\ Goto(at + 1)

Return ==
  /\ At({"RETURN"})
  /\ LET f     == Last(frames)
         below == SubSeq(stack, 1, f.slots - 1)
         rets  == Upper(A)
         some  == SubSeq(rets, 1, IF A < ThrowMax THEN A ELSE ThrowMax)
         meta  == IF f.then \in {"meta_last", "not_last"} THEN Last(some) ELSE some[1]
     IN  /\ counts' = [counts EXCEPT !.ret = IF f.fluent THEN 1 ELSE A,
                                     !.spread = IF f.then = "over" THEN 0 ELSE @]
         /\ \/ /\ f.then = "over"
               /\ OverStep(f.ret - 1, below, some)
               /\ frames' = Front(frames)
               /\ UNCHANGED status
            \/ /\ f.then \in {"meta_first", "meta_last"}
               /\ Lay(Append(below, meta))
               /\ Goto(f.ret)
               /\ frames' = Front(frames)
               /\ UNCHANGED status
            \/ /\ f.then \in {"not_first", "not_last"}
               /\ Lay(Append(below, Bool(~Truthy(meta))))
               /\ Goto(f.ret)
               /\ frames' = Front(frames)
               /\ UNCHANGED status
            \/ /\ f.then = "none" /\ Len(frames) > 1
               /\ Lay(below \o (IF f.fluent THEN <<stack[f.slots + 1]>> ELSE rets))
               /\ Goto(f.ret)
               /\ frames' = Front(frames)
               /\ UNCHANGED status
            \/ /\ f.then = "none" /\ Len(frames) = 1
               /\ status' = "halt"
               /\ Lay(<<>>)
               /\ frames' = <<>>
               /\ UNCHANGED ip
  /\ UNCHANGED <<chunk, loops, trys, errs, store>>

Closure ==
  /\ At({"CLOSURE"})
  /\ Allocate([Object("function") EXCEPT !.pc = A])
  /\ Lay(Append(Live, NewRef))
  /\ FallThrough
  /\ UNCHANGED <<chunk, control, counts>>

----------------------------------------------------------------------------
(* Stack, locals, globals                                                  *)

Const == At({"CONST"}) /\ Push(A)
Literal == /\ At({"NULL", "TRUE", "FALSE"})
           /\ Push([NULL |-> Null, TRUE |-> Bool(TRUE), FALSE |-> Bool(FALSE)][code[ip][1]])
Pop == At({"POP", "MASK_SKIP"}) /\ Leave(Drop(1))
Dup == At({"DUP"}) /\ Push(Peek(0))
MaskPass == At({"MASK_PASS"}) /\ Leave(Live)

Cell(i) == IF i <= Len(stack) THEN stack[i] ELSE Null
SlotCell(k) == Last(frames).slots + k
Write(i, v) ==
  stack' = [j \in 1 .. (IF i > Len(stack) THEN i ELSE Len(stack)) |->
              IF j = i THEN v ELSE Cell(j)]

LoadLocal == At({"LOAD_LOCAL"}) /\ Push(Cell(SlotCell(A)))

StoreLocal ==
  /\ At({"STORE_LOCAL"})
  /\ Write(SlotCell(A), Peek(0))
  /\ FallThrough
  /\ UNCHANGED <<top, chunk, control, store, counts>>

DefLocal ==
  /\ At({"DEF_LOCAL"})
  /\ Write(SlotCell(A), Peek(0))
  /\ top' = top - 1
  /\ counts' = [counts EXCEPT !.spread = 0]
  /\ FallThrough
  /\ UNCHANGED <<chunk, control, store>>

IsConst(name) == name \in DOMAIN globals /\ globals[name].const

\* A constant keeps its value, whoever defines or assigns it again.
SetGlobal(name, v, const) ==
  globals' = IF IsConst(name) THEN globals
             ELSE [n \in DOMAIN globals \cup {name} |->
                     IF n = name THEN [val |-> v, const |-> const] ELSE globals[n]]

LoadGlobal ==
  /\ At({"LOAD_GLOBAL"})
  /\ IF A \in DOMAIN globals THEN Push(globals[A].val) ELSE Raise("undefined", Live)

StoreGlobal ==
  /\ At({"STORE_GLOBAL"})
  /\ \/ IsConst(A) /\ Raise("constant", Live)
     \/ /\ ~IsConst(A)
        /\ SetGlobal(A, Peek(0), FALSE)
        /\ FallThrough
        /\ UNCHANGED <<stack, top, chunk, control, heap, handles, counts>>

DefGlobal ==
  /\ At({"DEF_GLOBAL", "DEF_CONST_GLOBAL"})
  /\ SetGlobal(A, Peek(0), code[ip][1] = "DEF_CONST_GLOBAL")
  /\ Lay(Drop(1))
  /\ counts' = [counts EXCEPT !.spread = 0]
  /\ FallThrough
  /\ UNCHANGED <<chunk, control, heap, handles>>

----------------------------------------------------------------------------
(* Operators                                                               *)

MetaKey == [ADD |-> "__add", SUB |-> "__sub", MUL |-> "__mul", DIV |-> "__div",
            MOD |-> "__mod", POW |-> "__pow", EQ |-> "__eq", NEQ |-> "__eq",
            LT |-> "__lt", GT |-> "__lt", LEQ |-> "__le", GEQ |-> "__le"]

ArithOp ==
  /\ At(ArithOps)
  /\ LET op == code[ip][1]
         v  == Peek(1)
         w  == Peek(0)
         m  == MetaOf(v, w, MetaKey[op])
         fault == ArithFault(op, v, w)
     IN  \/ m # <<>> /\ CallMeta(m[1], Drop(2), <<v, w>>, "meta")
         \/ m = <<>> /\ fault # "" /\ Raise(fault, Drop(2))
         \/ m = <<>> /\ fault = "" /\ Replace(2, Arith(op, v, w))

BitOp == /\ At(BitOps)
         /\ Replace(2, Num(Number(code[ip][1], Peek(1)[2], Peek(0)[2])))

\* a > b is __lt(b, a).
CompareOp ==
  /\ At({"COMPARE"})
  /\ LET v    == Peek(1)
         w    == Peek(0)
         m    == MetaOf(v, w, MetaKey[A])
         args == IF A \in {"GT", "GEQ"} THEN <<w, v>> ELSE <<v, w>>
         ok   == A \in {"EQ", "NEQ"} \/ (IsNum(v) /\ IsNum(w))
     IN  \/ m # <<>> /\ CallMeta(m[1], Drop(2), args, IF A = "NEQ" THEN "not" ELSE "meta")
         \/ m = <<>> /\ ~ok /\ Raise("compare", Drop(2))
         \/ m = <<>> /\ ok /\ Replace(2, Bool(Compare(A, v, w)))

CompareStack == /\ At({"COMPARE_STACK"})
                /\ Replace(B + 1, Bool(CompareAll(A, Peek(B), Upper(B))))

\* Against the results of a call or an unpacking: equal to any of them.
CompareSpread ==
  /\ At({"COMPARE_SPREAD"})
  /\ LET n == counts.ret
         v == Peek(n)
     IN  Replace(n + 1, Bool(IF A = "EQ" THEN CompareAny(A, v, Upper(n))
                             ELSE CompareAll(A, v, Upper(n))))

RangeCheck ==
  /\ At({"RANGE_CHECK"})
  /\ LET ok == \A i \in 0 .. 2 : IsNum(Peek(i))
     IN  \/ ok /\ Replace(3, Bool(Within(Peek(2)[2], Peek(1)[2], Peek(0)[2], A)))
         \/ ~ok /\ Raise("range check", Drop(3))

Negation == At({"NOT"}) /\ Replace(1, Bool(~Truthy(Peek(0))))

Neg ==
  /\ At({"NEG"})
  /\ LET v == Peek(0)
         m == MetaOf(v, Null, "__unm")
     IN  \/ m # <<>> /\ CallMeta(m[1], Drop(1), <<v>>, "meta")
         \/ m = <<>> /\ ~IsNum(v) /\ Raise("negate", Drop(1))
         \/ m = <<>> /\ IsNum(v) /\ Replace(1, Num(-v[2]))

Length ==
  /\ At({"LEN"})
  /\ LET v == Peek(0)
         m == MetaOf(v, Null, "__len")
         o == Resolve(v)
     IN  \/ m # <<>> /\ CallMeta(m[1], Drop(1), <<v>>, "meta")
         \/ m = <<>> /\ IsStr(v) /\ Replace(1, Num(Len(v[2])))
         \/ /\ m = <<>> /\ IsRef(v)
            /\ Replace(1, Num(IF o.kind = "array" THEN Len(o.items) ELSE Len(o.fields)))
         \/ m = <<>> /\ ~IsStr(v) /\ ~IsRef(v) /\ Raise("length", Drop(1))

Jump(taken) == /\ Goto(ip + 1 + (IF taken THEN A ELSE 0))
               /\ UNCHANGED <<stack, top, chunk, control, store, counts>>

\* A jump that was never patched leaves the chunk.
JumpAlways ==
  /\ At({"JUMP"})
  /\ Goto(ip + 1 + A)
  /\ status' = IF ip + 1 + A \in DOMAIN code THEN status ELSE "astray"
  /\ UNCHANGED <<stack, top, frames, loops, trys, errs, chunk, store, counts>>

JumpIfFalse == At({"JUMP_IF_FALSE", "AND_JUMP"}) /\ Jump(~Truthy(Peek(0)))
JumpIfTrue == At({"OR_JUMP"}) /\ Jump(Truthy(Peek(0)))
JumpBack == /\ At({"LOOP"})
            /\ Goto(ip + 1 - A)
            /\ UNCHANGED <<stack, top, chunk, control, store, counts>>

----------------------------------------------------------------------------
(* Object and array instructions                                           *)

NewObject ==
  /\ At({"NEW_OBJECT", "NEW_CLASS"})
  /\ Allocate(IF code[ip][1] = "NEW_CLASS"
              THEN [Object("object") EXCEPT !.fields = <<<<"__type", Str(A)>>>>,
                                            !.static = {"__type"}]
              ELSE Object("object"))
  /\ Lay(Append(Live, NewRef))
  /\ FallThrough
  /\ UNCHANGED <<chunk, control, counts>>

NewArray ==
  /\ At({"NEW_ARRAY"})
  /\ LET n == IF A + counts.array < 0 THEN 0 ELSE A + counts.array
     IN  /\ Allocate(ArrayOf([i \in 1 .. n |-> ToCdo(Upper(n)[i])]))
         /\ Lay(Append(Drop(n), NewRef))
  /\ counts' = [counts EXCEPT !.array = 0]
  /\ FallThrough
  /\ UNCHANGED <<chunk, control>>

\* The stack becomes s and the field values vs.
Expose(s, vs, after) ==
  /\ Lay(s \o ToCando(handles, vs) \o after)
  /\ handles' = Imported(handles, vs)
  /\ FallThrough
  /\ UNCHANGED <<chunk, control, globals, heap>>

GetField ==
  /\ At({"GET_FIELD"})
  /\ LET v == Peek(0)
     IN  \/ IsStr(v) /\ Replace(1, Null)
         \/ /\ IsRef(v)
            /\ Expose(Drop(1), IF Lookup(v, A) = <<>> THEN <<Null>> ELSE Lookup(v, A), <<>>)
            /\ UNCHANGED counts
         \/ ~IsStr(v) /\ ~IsRef(v) /\ Raise("field", Drop(1))

\* v.key = w with v on top of s afterwards; a result of __newindex stays too.
Assign(s, v, key, w) ==
  LET m == IF HasField(Resolve(v), key) THEN <<>> ELSE Lookup(v, "__newindex")
  IN  \/ m # <<>> /\ CallMeta(m[1], s, <<v, Str(key), w>>, "meta")
      \/ /\ m = <<>>
         /\ heap' = [heap EXCEPT ![handles[v[2]]] = RawSet(@, key, ToCdo(w))]
         /\ Lay(s)
         /\ FallThrough
         /\ UNCHANGED <<chunk, control, globals, handles, counts>>

SetField ==
  /\ At({"SET_FIELD"})
  /\ \/ IsRef(Peek(1)) /\ Assign(Drop(1), Peek(1), A, Peek(0))
     \/ ~IsRef(Peek(1)) /\ Raise("assign", Drop(1))

BindMethod ==
  /\ At({"BIND_METHOD"})
  /\ heap' = [heap EXCEPT ![handles[Peek(1)[2]]] = RawSet(@, A, ToCdo(Peek(0)))]
  /\ Lay(Drop(1))
  /\ FallThrough
  /\ UNCHANGED <<chunk, control, globals, handles, counts>>

\* An index into what is no array fails an assertion.
Abort == /\ status' = "abort"
         /\ UNCHANGED <<stack, top, frames, ip, loops, trys, errs, chunk, store, counts>>

GetIndex ==
  /\ At({"GET_INDEX"})
  /\ LET v == Peek(1)
         i == Peek(0)
         o == Resolve(v)
         at == IF IsNum(i) /\ i[2] \in 0 .. Len(o.items) - 1 THEN o.items[i[2] + 1]
               ELSE IF IsStr(i) /\ HasField(o, i[2]) THEN RawGet(o, i[2]) ELSE Null
     IN  \/ ~IsRef(v) /\ Raise("index", Drop(2))
         \/ IsRef(v) /\ IsNum(i) /\ o.kind # "array" /\ Abort
         \/ IsRef(v) /\ ~IsNum(i) /\ ~IsStr(i) /\ Raise("key", Drop(2))
         \/ /\ IsRef(v) /\ ((IsNum(i) /\ o.kind = "array") \/ IsStr(i))
            /\ Expose(Drop(2), <<at>>, <<>>)
            /\ UNCHANGED counts

\* An index past the end lengthens the array with nulls.
Lengthened(items, i, v) ==
  [k \in 1 .. (IF i > Len(items) THEN i ELSE Len(items)) |->
     IF k = i THEN v ELSE IF k <= Len(items) THEN items[k] ELSE Null]

SetIndex ==
  /\ At({"SET_INDEX"})
  /\ LET v == Peek(2)
         i == Peek(1)
         o == Resolve(v)
     IN  \/ ~IsRef(v) /\ Raise("assign", Drop(2))
         \/ IsRef(v) /\ IsNum(i) /\ o.kind # "array" /\ Abort
         \/ /\ IsRef(v) /\ IsNum(i) /\ o.kind = "array"
            /\ heap' = [heap EXCEPT ![handles[v[2]]].items =
                          Lengthened(@, i[2] + 1, ToCdo(Peek(0)))]
            /\ Lay(Drop(2))
            /\ FallThrough
            /\ UNCHANGED <<chunk, control, globals, handles, counts>>
         \/ IsRef(v) /\ IsStr(i) /\ Assign(Drop(2), v, i[2], Peek(0))
         \/ IsRef(v) /\ ~IsNum(i) /\ ~IsStr(i) /\ Raise("key", Drop(2))

Unpack ==
  /\ At({"UNPACK"})
  /\ LET v == Peek(0)
         isArray == IsRef(v) /\ Resolve(v).kind = "array"
     IN  /\ IF isArray THEN Expose(Drop(1), Resolve(v).items, <<>>)
            ELSE /\ FallThrough
                 /\ UNCHANGED <<stack, top, chunk, control, store>>
         /\ counts' = [counts EXCEPT !.ret = IF isArray THEN Len(Resolve(v).items) ELSE 1]

MakeRange ==
  /\ At({"RANGE_ASC", "RANGE_DESC"})
  /\ LET ok   == IsNum(Peek(1)) /\ IsNum(Peek(0))
         from == Peek(1)[2]
         to   == Peek(0)[2]
     IN  \/ ~ok /\ Raise("range", Drop(2))
         \/ /\ ok
            /\ Allocate(ArrayOf(IF code[ip][1] = "RANGE_ASC"
                                THEN [i \in 1 .. to - from + 1 |-> Num(from + i - 1)]
                                ELSE [i \in 1 .. from - to + 1 |-> Num(from - i + 1)]))
            /\ Lay(Append(Drop(2), NewRef))
            /\ FallThrough
            /\ UNCHANGED <<chunk, control, counts>>

----------------------------------------------------------------------------
(* Iteration                                                               *)

\* What FOR goes over: keys (A = 1) or values of an array or object, or the
\* one value it is given.
Iterated(v) ==
  LET o == Resolve(v)
  IN  CASE ~IsRef(v) -> <<v>>
        [] IsRef(v) /\ o.kind = "array" ->
             IF A = 1 THEN [i \in DOMAIN o.items |-> Num(i - 1)] ELSE o.items
        [] OTHER -> [i \in DOMAIN o.fields |->
                       IF A = 1 THEN Str(o.fields[i][1]) ELSE o.fields[i][2]]

ForInit ==
  /\ At({"FOR_INIT"})
  /\ LET vs == Iterated(Peek(0))
     IN  Expose(Drop(1), vs, <<Num(Len(vs)), Num(0)>>)
  /\ UNCHANGED counts

\* The index and the count on top, the values below them.
Exhausted == Peek(0)[2] >= Peek(1)[2]
Advanced == LET i == Peek(0)[2]
            IN  Drop(1) \o <<Num(i + 1), Peek(1 + Peek(1)[2] - i)>>

ForNext ==
  /\ At({"FOR_NEXT"})
  /\ \/ /\ Exhausted
        /\ Lay(Drop(2 + Peek(1)[2]))
        /\ Goto(ip + 1 + A)
        /\ UNCHANGED <<chunk, control, store, counts>>
     \/ ~Exhausted /\ Leave(Advanced)

\* The iterator triple, filled with nulls or cut, and the number of variables.
ForOverInit ==
  /\ At({"FOR_OVER_INIT"})
  /\ LET total  == IF B[2] THEN B[1] - 1 + counts.ret ELSE B[1]
         missing == IF total < 1 THEN 3 ELSE 3 - total
     IN  Lay((IF missing < 0 THEN Drop(total - 3)
              ELSE Live \o [i \in 1 .. missing |-> Null]) \o <<Num(A)>>)
  /\ counts' = [counts EXCEPT !.ret = 0]
  /\ FallThrough
  /\ UNCHANGED <<chunk, control, store>>

ForOverNext ==
  /\ At({"FOR_OVER_NEXT"})
  /\ \/ /\ IsFunction(Peek(3)) /\ ~Full
        /\ Nested(Resolve(Peek(3)).pc, Live, <<Peek(2), Peek(1)>>, "over")
        /\ UNCHANGED counts
     \/ /\ ~IsFunction(Peek(3)) \/ Full
        /\ OverStep(ip, Live, <<>>)
        /\ counts' = [counts EXCEPT !.spread = 0]
        /\ UNCHANGED <<chunk, control, store>>

\* The array of results below the source values, the count and the index.
PipeInit ==
  /\ At({"PIPE_INIT"})
  /\ LET v     == Peek(0)
         items == Resolve(v).items
         hs    == Append(handles, Len(heap) + 1)
     IN  \/ /\ ~(IsRef(v) /\ Resolve(v).kind = "array")
            /\ Raise("pipe", Drop(1))
         \/ /\ IsRef(v) /\ Resolve(v).kind = "array"
            /\ heap' = Append(heap, ArrayOf(<<>>))
            /\ handles' = Imported(hs, items)
            /\ Lay(Drop(1) \o <<NewRef>> \o ToCando(hs, items)
                     \o <<Num(Len(items)), Num(0)>>)
            /\ FallThrough
            /\ UNCHANGED <<chunk, control, globals, counts>>

PipeNext ==
  /\ At({"PIPE_NEXT", "FILTER_NEXT"})
  /\ \/ Exhausted /\ Jump(TRUE)
     \/ ~Exhausted /\ Leave(Advanced)

\* A filter drops null results.
PipeCollect ==
  /\ At({"PIPE_COLLECT", "FILTER_COLLECT"})
  /\ LET result == handles[Peek(3 + Peek(2)[2])[2]]
     IN  heap' = IF code[ip][1] = "FILTER_COLLECT" /\ Peek(0) = Null THEN heap
                 ELSE [heap EXCEPT ![result].items = Append(@, ToCdo(Peek(0)))]
  /\ Lay(Drop(1))
  /\ FallThrough
  /\ UNCHANGED <<chunk, control, globals, handles, counts>>

PipeEnd == At({"PIPE_END"}) /\ Leave(Drop(2 + Peek(1)[2]))

LoopMark ==
  /\ At({"LOOP_MARK"})
  /\ loops' = Append(loops, [brk |-> ip + 1 + A, cont |-> ip + 1 - B[1], top |-> top,
                             type |-> B[2]])
  /\ FallThrough
  /\ UNCHANGED <<stack, top, frames, trys, errs, status, chunk, store, counts>>

LoopEnd ==
  /\ At({"LOOP_END"})
  /\ loops' = IF loops = <<>> THEN loops ELSE Front(loops)
  /\ FallThrough
  /\ UNCHANGED <<stack, top, frames, trys, errs, status, chunk, store, counts>>

\* What the loop keeps on the stack below its mark goes with it.
IteratorCells(type, s) ==
  CASE type = "FOR" -> 2 + s[Len(s) - 1][2]
    [] type = "FOR_OVER" -> 4
    [] type = "WHILE" -> 0

\* Variant: the iterator stays.
BreakKeepingIterator ==
  /\ At({"BREAK"})
  /\ \/ loops = <<>> /\ Raise("break", Live)
     \/ /\ loops # <<>>
        /\ LET lf == Last(loops)
           IN  /\ Lay(IF top > lf.top THEN SubSeq(stack, 1, lf.top) ELSE Live)
               /\ Goto(lf.brk)
        /\ loops' = Front(loops)
        /\ counts' = [counts EXCEPT !.spread = 0]
        /\ UNCHANGED <<frames, trys, errs, status, chunk, store>>

Break ==
  /\ At({"BREAK"})
  /\ \/ loops = <<>> /\ Raise("break", Live)
     \/ /\ loops # <<>>
        /\ LET lf == Last(loops)
               s  == IF top > lf.top THEN SubSeq(stack, 1, lf.top) ELSE Live
           IN  /\ Lay(SubSeq(s, 1, Len(s) - IteratorCells(lf.type, s)))
               /\ Goto(lf.brk)
        /\ loops' = Front(loops)
        /\ counts' = [counts EXCEPT !.spread = 0]
        /\ UNCHANGED <<frames, trys, errs, status, chunk, store>>

Continue ==
  /\ At({"CONTINUE"})
  /\ \/ loops = <<>> /\ Raise("continue", Live)
     \/ /\ loops # <<>>
        /\ Goto(Last(loops).cont)
        /\ loops' = Front(loops)
        /\ UNCHANGED <<stack, top, frames, trys, errs, status, chunk, store, counts>>

----------------------------------------------------------------------------
(* Several results                                                         *)

MaskApply ==
  /\ At({"MASK_APPLY"})
  /\ LET n    == counts.ret
         kept == SelectSeq([i \in 1 .. n |-> i], LAMBDA i : i \in B)
     IN  /\ Lay(Drop(n) \o [i \in DOMAIN kept |-> Upper(n)[kept[i]]])
         /\ counts' = [counts EXCEPT !.ret = Len(kept)]
  /\ FallThrough
  /\ UNCHANGED <<chunk, control, store>>

Count(s, c) == /\ Lay(s)
               /\ counts' = c
               /\ FallThrough
               /\ UNCHANGED <<chunk, control, store>>

SpreadRet == /\ At({"SPREAD_RET"})
             /\ Count(Live, [counts EXCEPT !.spread = @ + counts.ret - 1])
ArraySpread == /\ At({"ARRAY_SPREAD"})
               /\ Count(Live, [counts EXCEPT !.array = @ + counts.ret - 1])
TruncateRet == /\ At({"TRUNCATE_RET"})
               /\ Count(IF counts.ret > 1 THEN Drop(counts.ret - 1) ELSE Live,
                        [counts EXCEPT !.ret = 1])

Halt == /\ At({"HALT"})
        /\ status' = "halt"
        /\ UNCHANGED <<stack, top, frames, ip, loops, trys, errs, chunk, store, counts>>

----------------------------------------------------------------------------
(* cando_vm_init, and cando_vm_exec: a placeholder in slot 0 and nulls for  *)
(* the other locals.                                                       *)

Fresh ==
  /\ code = <<>> /\ nlocals = 0
  /\ stack = <<>> /\ top = 0 /\ frames = <<>> /\ ip = 0
  /\ loops = <<>> /\ trys = <<>> /\ errs = <<>>
  /\ globals = <<>> /\ heap = <<>> /\ handles = <<>>
  /\ counts = [ret |-> 0, spread |-> 0, array |-> 0]
  /\ status = "idle"

Load(p) ==
  /\ code' = p.code
  /\ nlocals' = p.nlocals
  /\ Lay(PaddedTo(<<Null>>, 1, p.nlocals))
  /\ frames' = <<[ret |-> 0, slots |-> 1, fluent |-> FALSE, then |-> "none"]>>
  /\ ip' = 1
  /\ status' = IF p.err THEN "rejected" ELSE "run"
  /\ UNCHANGED <<prog, loops, trys, errs, store, counts>>

Step ==
  \/ Const \/ Literal \/ Pop \/ Dup \/ MaskPass
  \/ LoadLocal \/ StoreLocal \/ DefLocal
  \/ LoadGlobal \/ StoreGlobal \/ DefGlobal
  \/ ArithOp \/ BitOp \/ CompareOp \/ CompareStack \/ CompareSpread \/ RangeCheck
  \/ Negation \/ Neg \/ Length
  \/ JumpAlways \/ JumpIfFalse \/ JumpIfTrue \/ JumpBack
  \/ NewObject \/ NewArray \/ GetField \/ SetField \/ GetIndex \/ SetIndex
  \/ BindMethod \/ Unpack \/ MakeRange
  \/ ForInit \/ ForNext \/ ForOverInit \/ ForOverNext
  \/ PipeInit \/ PipeNext \/ PipeCollect \/ PipeEnd
  \/ LoopMark \/ LoopEnd \/ Break \/ Continue
  \/ Closure \/ Call \/ MethodCall \/ Return
  \/ TryBegin \/ TryEnd \/ CatchBegin \/ Throw
  \/ MaskApply \/ SpreadRet \/ ArraySpread \/ TruncateRet
  \/ Halt
=============================================================================
