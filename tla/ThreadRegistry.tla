--------------------------- MODULE ThreadRegistry ---------------------------
(***************************************************************************)
(* The tree of VMs that OP_THREAD builds and the registry by which the     *)
(* root VM waits for all of it (CandoThreadRegistry in source/vm/vm.h).    *)
(*                                                                         *)
(* Every spawned thread runs in a child VM on its own stack that borrows   *)
(* the registry, the handle table and the globals from the VM that spawned *)
(* it, and goes back to that VM, through ta->parent_vm, when it finishes.  *)
(* The root runs a chunk, waits until the count is 0, frees the closure    *)
(* the threads' code lives in, and closes.  The count is changed and       *)
(* tested under reg->mutex with a broadcast at each decrement, so the wait *)
(* is a guard here.                                                        *)
(***************************************************************************)
EXTENDS Integers, FiniteSets

CONSTANTS
  Threads,   (* the threads scripts spawn; each is spawned at most once    *)
  Root,      (* the VM the host opened                                     *)
  Nesting,   (* how code that has spawned threads returns: "joined", once  *)
             (* it has awaited them all; "free", whenever it likes         *)
  MaxExecs,  (* bound: chunks the host executes                            *)
  MaxFails   (* bound: failures of the OS to create a thread               *)

ASSUME RegistryAssumption ==
  /\ IsFiniteSet(Threads) /\ Root \notin Threads
  /\ Nesting \in {"joined", "free"}
  /\ MaxExecs \in Nat /\ MaxFails \in Nat

VARIABLES
  pc,        (* where each thread and the root are                         *)
  parent,    (* ta->parent_vm of each thread                               *)
  child,     (* the thread each VM is spawning, between register and start *)
  reg,       (* the VMs whose thread_registry is not NULL                  *)
  count,     (* CandoThreadRegistry.count                                  *)
  closure,   (* the top closure of the chunk: "none", "live", "freed"      *)
  execs,     (* chunks executed so far                                     *)
  fails,     (* failed creations so far                                    *)
  crashed    (* a dead VM was used: the process is gone                    *)

vars == <<pc, parent, child, reg, count, closure, execs, fails, crashed>>

VMs == Threads \cup {Root}

Goto(v, from, to) ==
  /\ pc[v] = from
  /\ pc' = [pc EXCEPT ![v] = to]

(* cando_open. *)
Init ==
  /\ pc = [v \in VMs |-> IF v = Root THEN "open" ELSE "none"]
  /\ parent = [t \in Threads |-> Root]
  /\ child = [v \in VMs |-> Root]
  /\ reg = {Root}
  /\ count = 0
  /\ closure = "none"
  /\ execs = 0
  /\ fails = 0
  /\ crashed = FALSE

(* Threads that exist in the OS and have not deregistered. *)
Alive(t) ==
  pc[t] \in {"start", "run", "spawn", "ended", "cb_spawn", "destroyed",
            "deregister"}

Children(v) == {t \in Threads : parent[t] = v /\ pc[t] # "none"}

(* What a dangling ta->parent_vm leads to once the parent's stack is gone. *)
ParentGone(t) == parent[t] # Root /\ pc[parent[t]] = "gone"

-----------------------------------------------------------------------------
(* OP_THREAD *)

(* Code runs in a VM from its start, and in a child VM also after it has   *)
(* ended, when the trampoline calls the then or catch callback.            *)
Spawning == [run |-> "spawn", ended |-> "cb_spawn"]

MaySpawn(v) == pc[v] \in DOMAIN Spawning

(* What an awaiting parent can see of its children. *)
ChildrenEnded(v) ==
  \A c \in Children(v) :
    pc[c] \in {"ended", "cb_spawn", "destroyed", "deregister", "gone"}

SpawnRootOnly(v, t) ==            (* variant: only the root VM registers *)
  /\ MaySpawn(v)
  /\ pc[t] = "none"
  /\ pc' = [pc EXCEPT ![v] = Spawning[pc[v]], ![t] = "registered"]
  /\ parent' = [parent EXCEPT ![t] = v]
  /\ child' = [child EXCEPT ![v] = t]
  /\ count' = IF v = Root THEN count + 1 ELSE count
  /\ UNCHANGED <<reg, closure, execs, fails, crashed>>

(* Registered before the OS thread exists. *)
SpawnRegister(v, t) ==
  /\ MaySpawn(v)
  /\ pc[t] = "none"
  /\ pc' = [pc EXCEPT ![v] = Spawning[pc[v]], ![t] = "registered"]
  /\ parent' = [parent EXCEPT ![t] = v]
  /\ child' = [child EXCEPT ![v] = t]
  /\ count' = IF v \in reg THEN count + 1 ELSE count
  /\ UNCHANGED <<reg, closure, execs, fails, crashed>>

SpawnReturns(v, t_pc) ==
  \E s \in DOMAIN Spawning :
    /\ pc[v] = Spawning[s]
    /\ pc' = [pc EXCEPT ![v] = s, ![child[v]] = t_pc]

SpawnCreated(v) ==
  /\ SpawnReturns(v, "start")
  /\ UNCHANGED <<parent, child, reg, count, closure, execs, fails, crashed>>

SpawnFailedKept(v) ==            (* variant: the increment is not undone *)
  /\ fails < MaxFails
  /\ fails' = fails + 1
  /\ SpawnReturns(v, "none")
  /\ UNCHANGED <<parent, child, reg, count, closure, execs, crashed>>

(* The increment is undone; the error may be caught, or ends the code.     *)
SpawnFailed(v) ==
  /\ fails < MaxFails
  /\ fails' = fails + 1
  /\ SpawnReturns(v, "none")
  /\ count' = IF v \in reg THEN count - 1 ELSE count
  /\ UNCHANGED <<parent, child, reg, closure, execs, crashed>>

-----------------------------------------------------------------------------
(* vm_thread_trampoline *)

(* cando_vm_init_child copies the parent's pointers and the body is looked *)
(* up through them.  A parent that has been through cando_vm_destroy has   *)
(* none left, so the lookup aborts; if its stack is gone too, it aborts or *)
(* finds another child VM of the same tree where the parent was.           *)
ThreadStart(t) ==
  /\ Goto(t, "start", "run")
  /\ \/ /\ parent[t] \in reg
        /\ reg' = reg \cup {t}
        /\ UNCHANGED crashed
     \/ /\ ParentGone(t)
        /\ reg' = reg \cup {t}
        /\ UNCHANGED crashed
     \/ /\ parent[t] \notin reg
        /\ crashed' = TRUE
        /\ UNCHANGED reg
  /\ UNCHANGED <<parent, child, count, closure, execs, fails>>

(* The results or the error are published: whoever awaits the thread goes  *)
(* on from here, before the trampoline has cleaned up.                     *)
ThreadEnds(t) ==
  /\ Nesting = "joined" => ChildrenEnded(t)
  /\ Goto(t, "run", "ended")
  /\ UNCHANGED <<parent, child, reg, count, closure, execs, fails, crashed>>

(* cando_vm_destroy(&child), after the callback. *)
ThreadDestroyVM(t) ==
  /\ Nesting = "joined" => ChildrenEnded(t)
  /\ Goto(t, "ended", "destroyed")
  /\ reg' = reg \ {t}
  /\ UNCHANGED <<parent, child, count, closure, execs, fails, crashed>>

(* reg = ta->parent_vm->thread_registry; without one nothing is left to do *)
ThreadReadRegistry(t) ==
  /\ \/ /\ parent[t] \in reg \/ ParentGone(t)
        /\ Goto(t, "destroyed", "deregister")
     \/ /\ parent[t] \notin reg
        /\ Goto(t, "destroyed", "gone")
  /\ UNCHANGED <<parent, child, reg, count, closure, execs, fails, crashed>>

ThreadDeregister(t) ==
  /\ Goto(t, "deregister", "gone")
  /\ count' = IF count > 0 THEN count - 1 ELSE count
  /\ UNCHANGED <<parent, child, reg, closure, execs, fails, crashed>>

Trampoline(t) ==
  \/ ThreadStart(t) \/ ThreadEnds(t) \/ ThreadDestroyVM(t)
  \/ ThreadReadRegistry(t) \/ ThreadDeregister(t)

-----------------------------------------------------------------------------
(* The host: cando_vm_exec, cando_close *)

Exec ==
  /\ execs < MaxExecs
  /\ Goto(Root, "open", "run")
  /\ execs' = execs + 1
  /\ closure' = "live"
  /\ UNCHANGED <<parent, child, reg, count, fails, crashed>>

(* vm_run returns, by the end of the chunk or an uncaught error. *)
ExecReturns ==
  /\ Nesting = "joined" => ChildrenEnded(Root)
  /\ Goto(Root, "run", "wait")
  /\ UNCHANGED <<parent, child, reg, count, closure, execs, fails, crashed>>

ExecUnwaited ==                  (* variant: freed as soon as it returns *)
  /\ Goto(Root, "wait", "open")
  /\ closure' = "freed"
  /\ UNCHANGED <<parent, child, reg, count, execs, fails, crashed>>

(* cando_vm_wait_all_threads, then cando_closure_free(top_closure). *)
ExecWaited ==
  /\ count = 0
  /\ Goto(Root, "wait", "open")
  /\ closure' = "freed"
  /\ UNCHANGED <<parent, child, reg, count, execs, fails, crashed>>

(* cando_close: wait, cando_vm_destroy (which frees the registry). *)
Close ==
  /\ count = 0
  /\ Goto(Root, "open", "closed")
  /\ reg' = reg \ {Root}
  /\ UNCHANGED <<parent, child, count, closure, execs, fails, crashed>>

-----------------------------------------------------------------------------
Spawn(v) == SpawnCreated(v) \/ SpawnFailed(v)

Terminated ==
  /\ crashed \/ pc[Root] = "closed"
  /\ UNCHANGED vars

Next ==
  \/ /\ ~crashed
     /\ \/ \E v \in VMs : Spawn(v) \/ \E t \in Threads : SpawnRegister(v, t)
        \/ \E t \in Threads : Trampoline(t)
        \/ Exec \/ ExecReturns \/ ExecWaited \/ Close
  \/ Terminated

Spec == Init /\ [][Next]_vars

(* The OS runs every thread, and scripts end. *)
Fairness ==
  /\ \A v \in VMs : WF_vars(~crashed /\ Spawn(v))
  /\ \A t \in Threads : WF_vars(~crashed /\ Trampoline(t))
  /\ WF_vars(~crashed /\ ExecReturns)
  /\ WF_vars(~crashed /\ ExecWaited)

FairSpec == Spec /\ Fairness

-----------------------------------------------------------------------------
Tracked == {t \in Threads : Alive(t) \/ pc[t] = "registered"}
Spawned == {t \in Threads : pc[t] # "none"}
InCode(v) == pc[v] \in {"run", "spawn", "ended", "cb_spawn"}
Stages == {"none", "registered", "start", "run", "spawn", "ended", "cb_spawn",
           "destroyed", "deregister", "gone"}

(* Every variable has its type.                                            *)
TypeOK ==
  /\ pc \in [VMs -> Stages \cup {"open", "wait", "closed"}]
  /\ pc[Root] \in {"open", "run", "spawn", "wait", "closed"}
  /\ \A t \in Threads : pc[t] \in Stages
  /\ parent \in [Threads -> VMs]
  /\ child \in [VMs -> VMs]
  /\ reg \subseteq VMs
  /\ count \in 0..Cardinality(Threads)
  /\ closure \in {"none", "live", "freed"}
  /\ crashed \in BOOLEAN

(* The registry never undercounts: every thread that exists, or is about   *)
(* to, is in the count, however deep in the tree it was spawned; and the   *)
(* count, which is unsigned, never exceeds the threads ever spawned.       *)
RegistryCoversThreads ==
  ~crashed => /\ Cardinality(Tracked) <= count
              /\ count <= Cardinality(Spawned)

(* A thread that is registered and not yet created is the one its parent's *)
(* OP_THREAD is waiting for.                                               *)
SpawnsPair ==
  /\ \A v \in VMs : pc[v] \in {"spawn", "cb_spawn"} =>
       child[v] \in Threads /\ pc[child[v]] = "registered" /\ parent[child[v]] = v
  /\ \A t \in Threads : pc[t] = "registered" =>
       pc[parent[t]] \in {"spawn", "cb_spawn"} /\ child[parent[t]] = t

(* Code that can spawn runs in a VM that has the registry.                 *)
CodeHasRegistry ==
  /\ pc[Root] # "closed" => Root \in reg
  /\ ~crashed => \A t \in Threads : InCode(t) => t \in reg

(* Between chunks, and after the last, there are no threads.               *)
QuietBetweenChunks ==
  ~crashed /\ pc[Root] \in {"open", "closed"} => Tracked = {}

RegistryInvariant ==
  /\ TypeOK
  /\ RegistryCoversThreads
  /\ SpawnsPair
  /\ CodeHasRegistry
  /\ QuietBetweenChunks

(* No thread can run bytecode, or touch the root VM, after the root has    *)
(* freed the closure of the chunk or destroyed the registry and tables.    *)
NothingFreedUnderThreads ==
  /\ ~crashed
  /\ (closure = "freed" /\ pc[Root] = "open") \/ pc[Root] = "closed"
  => \A t \in Threads : ~Alive(t)

(* docs/threading.md:137-139: the root tracks every thread, spawned        *)
(* directly or transitively, and waits for all of them to finish: the wait *)
(* at the end of cando_vm_exec ends.                                       *)
ExecFinishes == (pc[Root] = "wait") ~> (pc[Root] # "wait" \/ crashed)

(* The same as long as every thread was spawned by the chunk itself: a     *)
(* count left too high by a failed creation, or by a thread that ends      *)
(* without deregistering, would hang the host for ever.                    *)
FlatExecFinishes ==
  (pc[Root] = "wait") ~>
    \/ pc[Root] # "wait" \/ crashed
    \/ \E t \in Threads : pc[t] # "none" /\ parent[t] # Root

=============================================================================
