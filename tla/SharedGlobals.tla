--------------------------- MODULE SharedGlobals ---------------------------
(***************************************************************************)
(* Threads that share a program's global variables, and the strings that   *)
(* move between globals, constants of the chunk and the threads' stacks.   *)
(*                                                                         *)
(* The globals have a read/write lock, which each opcode that touches them *)
(* takes (vm.c:1314-1362).  A string is one heap block with a count of the *)
(* places that refer to it; whoever copies a reference increments the      *)
(* count and whoever drops one decrements it, and the block is freed at    *)
(* zero (core/value.c:36-48).  ref_count is a plain u32, so an increment   *)
(* is a load and a store that another thread's may come between.           *)
(***************************************************************************)
EXTENDS Integers, Sequences, FiniteSets

CONSTANTS
  Threads,       \* the main VM and its child VMs
  Names,         \* global variables
  Strings,       \* heap blocks for strings
  Literals,      \* those in the constants of the chunk that all threads run
  MaxDepth,      \* bound on the references one thread keeps on its stack
  MaxCount,      \* bound on a reference count (refused stores leak for ever)
  AtomicCounts   \* whether retain and release are one step (they are not)

NoString == "no string"
NoThread == "no thread"
NoName == "no name"

VARIABLES
  globals,     \* name -> its string, or NoString, and whether it is constant
  readers,     \* threads that hold the lock of globals for reading
  writer,      \* the thread that holds it for writing, or NoThread
  ref_count,   \* block -> its count
  block,       \* block -> "unused", "live" or "freed"
  stack,       \* thread -> the strings on its value stack, top last
  op,          \* thread -> the opcode it is in the middle of
  refused      \* stores to a constant: the copy made for each is never dropped

vars == <<globals, readers, writer, ref_count, block, stack, op, refused>>

Entry == [string : Strings \cup {NoString}, is_const : BOOLEAN]

(* code: what is being executed; at: "next" between opcodes, "retain" and  *)
(* "release" between the load and the store of string's count, which was n *)
(* when loaded; "set" in cando_vm_set_global with value; "ended" after an  *)
(* error.                                                                  *)
Operation ==
  [code : {"none", "load", "store", "define", "constant", "copy", "pop"},
   at : {"next", "retain", "set", "release", "ended"},
   name : Names \cup {NoName}, string : Strings \cup {NoString},
   value : Strings \cup {NoString}, is_const : BOOLEAN, n : Int]

Idle == [code |-> "none", at |-> "next", name |-> NoName, string |-> NoString,
         value |-> NoString, is_const |-> FALSE, n |-> 0]

Init ==
  /\ globals = [x \in Names |-> [string |-> NoString, is_const |-> FALSE]]
  /\ readers = {}
  /\ writer = NoThread
  /\ ref_count = [s \in Strings |-> IF s \in Literals THEN 1 ELSE 0]
  /\ block = [s \in Strings |-> IF s \in Literals THEN "live" ELSE "unused"]
  /\ stack = [t \in Threads |-> <<>>]
  /\ op = [t \in Threads |-> Idle]
  /\ refused = {}

-----------------------------------------------------------------------------
(* Counts *)

Top(t) == stack[t][Len(stack[t])]
Popped(t) == SubSeq(stack[t], 1, Len(stack[t]) - 1)

(* The count of s is loaded now and will be stored when the opcode goes on. *)
MayCount(s) == AtomicCounts => \A u \in Threads : op[u].at \in {"retain", "release"} => op[u].string # s

Counting(t, o, s) ==
  /\ MayCount(s)
  /\ o.at = "retain" => ref_count[s] < MaxCount
  /\ op' = [op EXCEPT ![t] = [o EXCEPT !.string = s, !.n = ref_count[s]]]

(* s->ref_count++, its store.                                              *)
Retained(t) == ref_count' = [ref_count EXCEPT ![op[t].string] = op[t].n + 1]

(* --s->ref_count, its store, and the free at zero.                        *)
Released(t) ==
  LET s == op[t].string IN
    /\ ref_count' = [ref_count EXCEPT ![s] = op[t].n - 1]
    /\ block' = IF op[t].n = 1 THEN [block EXCEPT ![s] = "freed"] ELSE block

Finish(t) == op' = [op EXCEPT ![t] = Idle]
Push(t, s) == stack' = [stack EXCEPT ![t] = Append(@, s)]

MayStart(t) == op[t].at = "next"
MayPush(t) == Len(stack[t]) < MaxDepth
HasTop(t) == stack[t] # <<>>

-----------------------------------------------------------------------------
(* Strings of a thread's own *)

(* An operator or a native makes a new string and pushes it.               *)
NewString(t, s) ==
  /\ MayStart(t) /\ MayPush(t)
  /\ block[s] = "unused"
  /\ block' = [block EXCEPT ![s] = "live"]
  /\ ref_count' = [ref_count EXCEPT ![s] = 1]
  /\ Push(t, s)
  /\ UNCHANGED <<globals, readers, writer, op, refused>>

(* OP_CONST copies from the constants of the chunk, which every thread     *)
(* that runs the chunk's functions shares.                                 *)
Constant(t, s) ==
  /\ MayStart(t) /\ MayPush(t)
  /\ Counting(t, [Idle EXCEPT !.code = "constant", !.at = "retain"], s)
  /\ UNCHANGED <<globals, readers, writer, ref_count, block, stack, refused>>

(* OP_DUP, OP_LOAD_LOCAL copy a reference that is on the stack already.    *)
Copy(t, i) ==
  /\ MayStart(t) /\ MayPush(t)
  /\ Counting(t, [Idle EXCEPT !.code = "copy", !.at = "retain"], stack[t][i])
  /\ UNCHANGED <<globals, readers, writer, ref_count, block, stack, refused>>

Copied(t) ==
  /\ op[t].at = "retain" /\ op[t].code \in {"constant", "copy"}
  /\ Retained(t)
  /\ Push(t, op[t].string)
  /\ Finish(t)
  /\ UNCHANGED <<globals, readers, writer, block, refused>>

(* OP_POP, and every operator that consumes an operand, drop a reference.  *)
Pop(t) ==
  /\ MayStart(t) /\ HasTop(t)
  /\ Counting(t, [Idle EXCEPT !.code = "pop", !.at = "release"], Top(t))
  /\ stack' = [stack EXCEPT ![t] = Popped(t)]
  /\ UNCHANGED <<globals, readers, writer, ref_count, block, refused>>

Dropped(t) ==
  /\ op[t].at = "release" /\ op[t].code = "pop"
  /\ Released(t)
  /\ Finish(t)
  /\ UNCHANGED <<globals, readers, writer, stack, refused>>

-----------------------------------------------------------------------------
(* Globals *)

(* OP_LOAD_GLOBAL: found and copied under the read lock.                   *)
LoadGlobal(t, x) ==
  /\ MayStart(t) /\ MayPush(t)
  /\ writer = NoThread
  /\ globals[x].string # NoString
  /\ readers' = readers \cup {t}
  /\ Counting(t, [Idle EXCEPT !.code = "load", !.at = "retain", !.name = x], globals[x].string)
  /\ UNCHANGED <<globals, writer, ref_count, block, stack, refused>>

(* It is "undefined variable", which ends the thread's program.            *)
LoadUndefined(t, x) ==
  /\ MayStart(t)
  /\ writer = NoThread
  /\ globals[x].string = NoString
  /\ op' = [op EXCEPT ![t] = [Idle EXCEPT !.at = "ended"]]
  /\ UNCHANGED <<globals, readers, writer, ref_count, block, stack, refused>>

Loaded(t) ==
  /\ op[t].at = "retain" /\ op[t].code = "load"
  /\ Retained(t)
  /\ readers' = readers \ {t}
  /\ Push(t, op[t].string)
  /\ Finish(t)
  /\ UNCHANGED <<globals, writer, block, refused>>

MayWrite == writer = NoThread /\ readers = {}

(* OP_STORE_GLOBAL copies the top of the stack under the write lock.       *)
StoreGlobal(t, x) ==
  /\ MayStart(t) /\ HasTop(t)
  /\ MayWrite
  /\ writer' = t
  /\ Counting(t, [Idle EXCEPT !.code = "store", !.at = "retain", !.name = x,
                          !.value = Top(t)], Top(t))
  /\ UNCHANGED <<globals, readers, ref_count, block, stack, refused>>

StoreCopied(t) ==
  /\ op[t].at = "retain" /\ op[t].code = "store"
  /\ Retained(t)
  /\ op' = [op EXCEPT ![t].at = "set"]
  /\ UNCHANGED <<globals, readers, writer, block, stack, refused>>

(* OP_DEF_GLOBAL and OP_DEF_CONST_GLOBAL give the top of the stack away.   *)
DefineGlobal(t, x, is_const) ==
  /\ MayStart(t) /\ HasTop(t)
  /\ MayWrite
  /\ writer' = t
  /\ op' = [op EXCEPT ![t] = [Idle EXCEPT !.code = "define", !.at = "set", !.name = x,
                                          !.value = Top(t), !.is_const = is_const]]
  /\ stack' = [stack EXCEPT ![t] = Popped(t)]
  /\ UNCHANGED <<globals, readers, ref_count, block, refused>>

(* cando_vm_set_global: a constant refuses, and the value that was copied  *)
(* or popped for it is dropped by nobody.  The error of a store ends the   *)
(* thread's program; a definition does not look at the answer.             *)
SetRefused(t) ==
  /\ op[t].at = "set"
  /\ globals[op[t].name].is_const
  /\ refused' = refused \cup {op[t].value}
  /\ writer' = NoThread
  /\ op' = [op EXCEPT ![t] = IF op[t].code = "store" THEN [Idle EXCEPT !.at = "ended"] ELSE Idle]
  /\ UNCHANGED <<globals, readers, ref_count, block, stack>>

NewEntry(t) == [string |-> op[t].value, is_const |-> op[t].is_const]

SetNew(t) ==
  /\ op[t].at = "set"
  /\ ~globals[op[t].name].is_const
  /\ globals[op[t].name].string = NoString
  /\ globals' = [globals EXCEPT ![op[t].name] = NewEntry(t)]
  /\ writer' = NoThread
  /\ Finish(t)
  /\ UNCHANGED <<readers, ref_count, block, stack, refused>>

(* An entry that is there: its old value is released, the new one put in.  *)
SetExisting(t) ==
  /\ op[t].at = "set"
  /\ ~globals[op[t].name].is_const
  /\ globals[op[t].name].string # NoString
  /\ Counting(t, [op[t] EXCEPT !.at = "release"], globals[op[t].name].string)
  /\ UNCHANGED <<globals, readers, writer, ref_count, block, stack, refused>>

SetDropped(t) ==
  /\ op[t].at = "release" /\ op[t].code \in {"store", "define"}
  /\ Released(t)
  /\ globals' = [globals EXCEPT ![op[t].name] = NewEntry(t)]
  /\ writer' = NoThread
  /\ Finish(t)
  /\ UNCHANGED <<readers, stack, refused>>

-----------------------------------------------------------------------------
Step(t) ==
  \/ \E s \in Strings : NewString(t, s)
  \/ \E s \in Literals : Constant(t, s)
  \/ \E i \in DOMAIN stack[t] : Copy(t, i)
  \/ Copied(t)
  \/ Pop(t)
  \/ Dropped(t)
  \/ \E x \in Names : LoadGlobal(t, x) \/ LoadUndefined(t, x) \/ StoreGlobal(t, x)
  \/ Loaded(t)
  \/ StoreCopied(t)
  \/ \E x \in Names, c \in BOOLEAN : DefineGlobal(t, x, c)
  \/ SetRefused(t) \/ SetNew(t) \/ SetExisting(t) \/ SetDropped(t)

Next == \E t \in Threads : Step(t)

Spec == Init /\ [][Next]_vars

-----------------------------------------------------------------------------
(* Properties *)

(* Where a string is referred to.                                          *)
OnStacks(s) == {<<t, i>> \in Threads \X (1 .. MaxDepth) : i \in DOMAIN stack[t] /\ stack[t][i] = s}
InGlobals(s) == {x \in Names : globals[x].string = s}
OnItsWay(s) ==
  {t \in Threads : /\ op[t].code \in {"store", "define"}
                   /\ op[t].at \in {"set", "release"}
                   /\ op[t].value = s}
References(s) ==
  Cardinality(OnStacks(s)) + Cardinality(InGlobals(s)) + Cardinality(OnItsWay(s))
    + Cardinality({s} \cap Literals)

(* Every variable has its type, and readers and a writer exclude each      *)
(* other.                                                                  *)
TypeOK ==
  /\ globals \in [Names -> Entry]
  /\ readers \subseteq Threads
  /\ writer \in Threads \cup {NoThread}
  /\ writer # NoThread => readers = {}
  /\ \A t \in Threads : stack[t] \in Seq(Strings) /\ Len(stack[t]) <= MaxDepth
  /\ ref_count \in [Strings -> Int]
  /\ block \in [Strings -> {"unused", "live", "freed"}]
  /\ op \in [Threads -> Operation]
  /\ refused \subseteq Strings

(* docs/threading.md:91-96, vm.h:177-179: loads and stores of globals by   *)
(* several threads are free of data races.  So a global that nobody is     *)
(* writing has a string that has not been freed.                           *)
GlobalsAreAlive ==
  \A x \in Names :
    writer = NoThread /\ globals[x].string # NoString => block[globals[x].string] = "live"

(* What that takes: no string is freed while a global, a constant of the   *)
(* chunk, or a thread's stack refers to it.                                *)
ReferencedIsAlive ==
  \A s \in Strings : References(s) > 0 => block[s] = "live"

(* With atomic counts: between opcodes every count is the number of        *)
(* references, plus those of refused stores, which leak.                   *)
CountsAreReferences ==
  \A s \in Strings :
    (\A t \in Threads : op[t].at \in {"retain", "release"} => op[t].string # s) =>
      IF s \in refused THEN ref_count[s] > References(s) ELSE ref_count[s] = References(s)

(* A constant keeps its value whatever the threads store and define.       *)
ConstantsStay ==
  [][\A x \in Names : globals[x].is_const => globals'[x] = globals[x]]_globals

=============================================================================
