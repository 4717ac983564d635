------------------------------- MODULE RWLock -------------------------------
(***************************************************************************)
(* The spin lock embedded in every heap object (source/core/lock.c).       *)
(*                                                                         *)
(* One CandoLockHeader and the threads that use it.  Every step is one     *)
(* atomic access of the C code to lock_id, readers or write_depth, so the  *)
(* windows between two accesses of the same call are all explored.  A spin *)
(* on a condition is a guard: the thread waits until the load would let it *)
(* leave the loop.  A spurious failure of the weak compare-exchange only   *)
(* goes round the loop again and is a stuttering step.  Accesses are       *)
(* sequentially consistent here; lock.c asks for acquire/release.          *)
(***************************************************************************)
EXTENDS Naturals, FiniteSets

CONSTANTS
  Threads,   (* the OS threads that share the object                       *)
  NoThread,  (* lock_id = 0                                                *)
  MaxReads,  (* bound: read locks one thread holds on the object at once   *)
  MaxDepth,  (* bound: nested write locks of one thread                    *)
  Mixed      (* TRUE: callers may ask for one kind of lock while they hold *)
             (* the other kind on the same object; FALSE: they never do    *)

ASSUME RWLockAssumption ==
  /\ NoThread \notin Threads
  /\ MaxReads \in Nat
  /\ MaxDepth \in Nat
  /\ Mixed \in BOOLEAN

VARIABLES
  lock_id,      (* the exclusive holder, or NoThread                       *)
  readers,      (* announced readers, those about to back off included     *)
  write_depth,  (* re-entrancy depth of the exclusive holder               *)
  pc,           (* where each thread is inside a lock.c call               *)
  rheld,        (* read locks each thread has acquired and not released    *)
  wheld         (* write locks each thread has acquired and not released   *)

vars == <<lock_id, readers, write_depth, pc, rheld, wheld>>

Goto(t, from, to) ==
  /\ pc[t] = from
  /\ pc' = [pc EXCEPT ![t] = to]

(* cando_lock_init, and no thread inside a call. *)
Init ==
  /\ lock_id = NoThread
  /\ readers = 0
  /\ write_depth = 0
  /\ pc = [t \in Threads |-> "idle"]
  /\ rheld = [t \in Threads |-> 0]
  /\ wheld = [t \in Threads |-> 0]

-----------------------------------------------------------------------------
(* cando_lock_read_acquire *)

ReadCall(t) ==
  /\ rheld[t] < MaxReads
  /\ Mixed \/ wheld[t] = 0
  /\ Goto(t, "idle", "r_wait")
  /\ UNCHANGED <<lock_id, readers, write_depth, rheld, wheld>>

(* Variant: no wait for the writer to leave before announcing. *)
ReadWaitSkipped(t) ==
  /\ Goto(t, "r_wait", "r_add")
  /\ UNCHANGED <<lock_id, readers, write_depth, rheld, wheld>>

(* The inner while: leave it on a load of lock_id that returns 0. *)
ReadWait(t) ==
  /\ lock_id = NoThread
  /\ Goto(t, "r_wait", "r_add")
  /\ UNCHANGED <<lock_id, readers, write_depth, rheld, wheld>>

ReadAnnounce(t) ==
  /\ Goto(t, "r_add", "r_check")
  /\ readers' = readers + 1
  /\ UNCHANGED <<lock_id, write_depth, rheld, wheld>>

(* Variant: no re-check of lock_id after the announcement. *)
ReadSucceedUnchecked(t) ==
  /\ Goto(t, "r_check", "idle")
  /\ rheld' = [rheld EXCEPT ![t] = @ + 1]
  /\ UNCHANGED <<lock_id, readers, write_depth, wheld>>

(* Re-check that no writer sneaked in. *)
ReadSucceed(t) ==
  /\ lock_id = NoThread
  /\ Goto(t, "r_check", "idle")
  /\ rheld' = [rheld EXCEPT ![t] = @ + 1]
  /\ UNCHANGED <<lock_id, readers, write_depth, wheld>>

ReadRefused(t) ==
  /\ lock_id # NoThread
  /\ Goto(t, "r_check", "r_sub")
  /\ UNCHANGED <<lock_id, readers, write_depth, rheld, wheld>>

ReadBackOff(t) ==
  /\ Goto(t, "r_sub", "r_wait")
  /\ readers' = readers - 1
  /\ UNCHANGED <<lock_id, write_depth, rheld, wheld>>

(* cando_lock_read_release: a single fetch_sub. *)
ReadRelease(t) ==
  /\ pc[t] = "idle"
  /\ rheld[t] > 0
  /\ readers' = readers - 1
  /\ rheld' = [rheld EXCEPT ![t] = @ - 1]
  /\ UNCHANGED <<lock_id, write_depth, pc, wheld>>

-----------------------------------------------------------------------------
(* cando_lock_write_acquire *)

WriteCall(t) ==
  /\ wheld[t] < MaxDepth
  /\ Mixed \/ rheld[t] = 0
  /\ Goto(t, "idle", "w_enter")
  /\ UNCHANGED <<lock_id, readers, write_depth, rheld, wheld>>

(* The re-entrance test on lock_id, true: only the depth is incremented.   *)
(* lock_id is this thread's own id only while this thread holds the lock,  *)
(* so the load and the increment need no step of their own.                *)
WriteReenter(t) ==
  /\ lock_id = t
  /\ Goto(t, "w_enter", "idle")
  /\ write_depth' = write_depth + 1
  /\ wheld' = [wheld EXCEPT ![t] = @ + 1]
  /\ UNCHANGED <<lock_id, readers, rheld>>

(* The re-entrance test, false. *)
WriteFirst(t) ==
  /\ lock_id # t
  /\ Goto(t, "w_enter", "w_cas")
  /\ UNCHANGED <<lock_id, readers, write_depth, rheld, wheld>>

WriteClaim(t) ==
  /\ lock_id = NoThread
  /\ Goto(t, "w_cas", "w_drain")
  /\ lock_id' = t
  /\ UNCHANGED <<readers, write_depth, rheld, wheld>>

(* Variant: the writer does not wait for the readers. *)
WriteUndrained(t) ==
  /\ Goto(t, "w_drain", "w_depth")
  /\ UNCHANGED <<lock_id, readers, write_depth, rheld, wheld>>

(* Wait for all readers to drain. *)
WriteDrained(t) ==
  /\ readers = 0
  /\ Goto(t, "w_drain", "w_depth")
  /\ UNCHANGED <<lock_id, readers, write_depth, rheld, wheld>>

WriteEnter(t) ==
  /\ Goto(t, "w_depth", "idle")
  /\ write_depth' = 1
  /\ wheld' = [wheld EXCEPT ![t] = 1]
  /\ UNCHANGED <<lock_id, readers, rheld>>

(* Variant: every release opens the lock, whatever the depth. *)
WriteReleaseAlways(t) ==
  /\ wheld[t] > 0
  /\ Goto(t, "idle", "w_clear")
  /\ write_depth' = write_depth - 1
  /\ wheld' = [wheld EXCEPT ![t] = @ - 1]
  /\ UNCHANGED <<lock_id, readers, rheld>>

(* cando_lock_write_release: fetch_sub of the depth, then, if it was 1, a  *)
(* store of 0 into lock_id.                                                *)
WriteRelease(t) ==
  /\ wheld[t] > 0
  /\ Goto(t, "idle", IF write_depth = 1 THEN "w_clear" ELSE "idle")
  /\ write_depth' = write_depth - 1
  /\ wheld' = [wheld EXCEPT ![t] = @ - 1]
  /\ UNCHANGED <<lock_id, readers, rheld>>

WriteClear(t) ==
  /\ Goto(t, "w_clear", "idle")
  /\ lock_id' = NoThread
  /\ UNCHANGED <<readers, write_depth, rheld, wheld>>

-----------------------------------------------------------------------------
(* The steps a thread takes inside a call, once it has made it. *)
Inside(t) ==
  \/ ReadWait(t) \/ ReadAnnounce(t) \/ ReadSucceed(t)
  \/ ReadRefused(t) \/ ReadBackOff(t)
  \/ WriteReenter(t) \/ WriteFirst(t) \/ WriteClaim(t)
  \/ WriteDrained(t) \/ WriteEnter(t) \/ WriteClear(t)

Release(t) == ReadRelease(t) \/ WriteRelease(t)

Call(t) == ReadCall(t) \/ WriteCall(t)

Next == \E t \in Threads : Call(t) \/ Inside(t) \/ Release(t)

Spec == Init /\ [][Next]_vars

(* The scheduler runs every thread, and every caller in source/ releases   *)
(* what it acquired after a bounded number of its own steps (no lock is    *)
(* held across a callback or a blocking call).                             *)
Fairness ==
  \A t \in Threads :
    /\ WF_vars(Inside(t))
    /\ WF_vars(Release(t))

FairSpec == Spec /\ Fairness

-----------------------------------------------------------------------------
(* Correctness of the lock, and the inductive invariant behind it. *)

PCs == {"idle", "r_wait", "r_add", "r_check", "r_sub",
        "w_enter", "w_cas", "w_drain", "w_depth", "w_clear"}

(* Every variable has its type; in particular the unsigned counters of the *)
(* header never go below zero, whatever the callers do.                    *)
TypeOK ==
  /\ lock_id \in Threads \cup {NoThread}
  /\ readers \in Nat
  /\ write_depth \in Nat
  /\ pc \in [Threads -> PCs]
  /\ rheld \in [Threads -> Nat]
  /\ wheld \in [Threads -> Nat]

(* A thread that has the exclusive lock is the only holder of any kind:    *)
(* the announce/re-check of readers and the claim/drain of writers cannot  *)
(* both let their thread in.                                               *)
MutualExclusion ==
  \A t \in Threads :
    wheld[t] > 0 => /\ \A u \in Threads \ {t} : wheld[u] = 0
                    /\ \A u \in Threads : rheld[u] = 0

(* The two assertions of lock.c never fire: a thread that releases its     *)
(* exclusive lock finds its own id in lock_id, and a reader that releases  *)
(* or backs off finds a reader count it can decrement.                     *)
AssertionsHold ==
  \A t \in Threads :
    /\ wheld[t] > 0 => lock_id = t
    /\ rheld[t] > 0 \/ pc[t] = "r_sub" => readers > 0

(* The depth counter is the number of write locks the owner really holds,  *)
(* so the release that empties it, and only that one, opens the lock.      *)
DepthMatchesHoldings ==
  \A t \in Threads :
    lock_id = t /\ pc[t] # "w_depth" => write_depth = wheld[t]

-----------------------------------------------------------------------------
(* The inductive invariant. *)

(* The threads that have put their id into lock_id and not yet cleared it. *)
Owns(t) == wheld[t] > 0 \/ pc[t] \in {"w_drain", "w_depth", "w_clear"}

(* One token for each increment of readers that is not undone: <<t, 0>> is *)
(* the announcement of a reader that has not decided yet, <<t, k>> the     *)
(* k-th read lock thread t holds.                                          *)
Undecided == {t \in Threads : pc[t] \in {"r_check", "r_sub"}}

HeldTokens == UNION { {t} \X (1..rheld[t]) : t \in Threads }

ReadTokens == (Undecided \X {0}) \cup HeldTokens

ReadersCountTokens ==
  /\ IsFiniteSet(ReadTokens)
  /\ readers = Cardinality(ReadTokens)

OwnerInLockId ==
  /\ \A t \in Threads : Owns(t) <=> lock_id = t
  /\ lock_id = NoThread => write_depth = 0
  /\ \A t \in Threads :
       /\ lock_id = t => write_depth = wheld[t]
       /\ pc[t] \in {"w_drain", "w_depth", "w_clear"} => wheld[t] = 0
       /\ pc[t] = "w_cas" => wheld[t] = 0

WriterExcludesReaders ==
  \A t \in Threads :
    wheld[t] > 0 \/ pc[t] = "w_depth" =>
      \A u \in Threads : rheld[u] = 0

IInv ==
  /\ TypeOK
  /\ ReadersCountTokens
  /\ OwnerInLockId
  /\ WriterExcludesReaders

-----------------------------------------------------------------------------
(* Liveness *)

(* A writer that has claimed lock_id gets in, unless a thread that already *)
(* holds a read lock asks for another lock: readers that announce          *)
(* themselves meanwhile back off and then wait, so they cannot keep the    *)
(* count above zero for ever.                                              *)
HolderAsksForMore == \E u \in Threads : rheld[u] > 0 /\ pc[u] # "idle"

ClaimedWriterEnters ==
  \A t \in Threads : pc[t] = "w_drain" ~> (wheld[t] > 0 \/ HolderAsksForMore)

(* The lock implements its abstract promise. *)
Promise == INSTANCE SharedExclusiveLock
             WITH shared <- rheld, exclusive <- wheld
ImplementsLock == Promise!Spec

=============================================================================
