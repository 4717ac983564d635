-------------------------- MODULE ThreadLifecycle --------------------------
(***************************************************************************)
(* One CdoThread: the OS thread that runs its body (vm_thread_trampoline   *)
(* in source/vm/vm.c) and the script threads that hold its handle and      *)
(* await, join, cancel or register a callback on it (source/object/        *)
(* thread.c, source/lib/thread.c, OP_AWAIT).                               *)
(*                                                                         *)
(* state is an atomic that some code changes with done_mutex held and some *)
(* without; a step here is one such access, or one critical section that   *)
(* nothing outside the mutex can interfere with.  Each client makes one    *)
(* call; its callback, if it registers one, is known by the client's name. *)
(***************************************************************************)
EXTENDS Integers, Sequences, FiniteSets

CONSTANTS
  Clients,      (* script threads that hold the thread handle              *)
  Body,         (* the OS thread behind the handle                         *)
  None,         (* no callback; no owner of done_mutex                     *)
  Calls,        (* the calls clients make: a subset of AllCalls            *)
  MaxResults,   (* CDO_THREAD_MAX_RESULTS                                  *)
  MaxReturn,    (* bound: values the body returns                          *)
  MaxSpurious   (* bound: spurious wake-ups of the condition variable      *)

AllCalls == {"await", "join", "cancel", "then", "catch"}

ASSUME LifecycleAssumption ==
  /\ Body \notin Clients /\ None \notin Clients \cup {Body}
  /\ Calls \subseteq AllCalls
  /\ MaxResults \in Nat \ {0}
  /\ MaxReturn \in Nat /\ MaxSpurious \in Nat

VARIABLES
  state,        (* CdoThread.state                                         *)
  done_mutex,   (* who holds it                                            *)
  result_count, (* CdoThread.result_count                                  *)
  results,      (* CdoThread.results: "null", or a "value" the body made   *)
  then_fn,      (* CdoThread.then_fn: the client whose callback is stored  *)
  catch_fn,     (* CdoThread.catch_fn                                      *)
  pc,           (* where the body's thread and each client are             *)
  call,         (* the call each client makes                              *)
  finish,       (* how the body ended: the number of values, or an error   *)
  cb,           (* the callback the trampoline copied, or a client's own   *)
  out,          (* what an await or join has put on its caller's stack     *)
  fired,        (* how often each client's callback was run                *)
  replaced,     (* clients whose stored callback was overwritten           *)
  cancelled,    (* some thread.cancel returned true                        *)
  straddled,    (* history: the waits that were between their two loads of *)
                (* state when the trampoline stored RUNNING                *)
  spurious      (* spurious wake-ups so far                                *)

shared == <<state, done_mutex, result_count, results, then_fn, catch_fn>>
local  == <<finish, cb, out, fired, replaced, cancelled, straddled, spurious>>
vars   == <<shared, pc, call, local>>

States == {"pending", "running", "done", "error", "cancelled"}
Finished == {"done", "error", "cancelled"}

Goto(p, from, to) ==
  /\ pc[p] = from
  /\ pc' = [pc EXCEPT ![p] = to]

(* cando_os_cond_broadcast: sleepers leave the wait and ask for the mutex. *)
Woken(p) == IF pc[p] = "w_sleep" THEN "w_wake" ELSE pc[p]

GotoWaking(p, from, to) ==
  /\ pc[p] = from
  /\ pc' = [q \in DOMAIN pc |-> IF q = p THEN to ELSE Woken(q)]

MutexFree == done_mutex = None

(* cdo_thread_new, and OP_THREAD about to start the OS thread. *)
Init ==
  /\ state = "pending"
  /\ done_mutex = None
  /\ result_count = 0
  /\ results = [i \in 1..MaxResults |-> "null"]
  /\ then_fn = None
  /\ catch_fn = None
  /\ pc = [p \in Clients \cup {Body} |-> IF p = Body THEN "start" ELSE "idle"]
  /\ call \in [Clients -> Calls]
  /\ finish = [kind |-> "none", n |-> 0]
  /\ cb = None
  /\ out = [c \in Clients |-> [pushed |-> <<>>, ret |-> 0, raised |-> FALSE]]
  /\ fired = [c \in Clients |-> 0]
  /\ replaced = {}
  /\ cancelled = FALSE
  /\ straddled = {}
  /\ spurious = 0

-----------------------------------------------------------------------------
(* vm_thread_trampoline *)

(* Mark as running: a store, whatever the state was. *)
MarkRunning ==
  /\ Goto(Body, "start", "body")
  /\ state' = "running"
  /\ straddled' = {c \in Clients : pc[c] = "w_pending"}
  /\ UNCHANGED <<done_mutex, result_count, results, then_fn, catch_fn, call,
                 finish, cb, out, fired, replaced, cancelled, spurious>>

(* The body returns n values or leaves an error uncaught. *)
BodyEnds ==
  /\ Goto(Body, "body", "lock")
  /\ finish' \in [kind : {"done"}, n : 0..MaxReturn]
                   \cup {[kind |-> "error", n |-> 0]}
  /\ UNCHANGED <<shared, call, cb, out, fired, replaced, cancelled,
                 straddled, spurious>>

(* cdo_thread_set_results and cdo_thread_set_error take the mutex; the     *)
(* first also sets result_count before it copies the values one by one.    *)
PublishBegin ==
  /\ MutexFree
  /\ Goto(Body, "lock", "copy")
  /\ done_mutex' = Body
  /\ result_count' = IF finish.kind = "done"
                       THEN IF finish.n < MaxResults THEN finish.n
                                                     ELSE MaxResults
                       ELSE result_count
  /\ UNCHANGED <<state, results, then_fn, catch_fn, call, local>>

Copied == Cardinality({i \in 1..MaxResults : results[i] = "value"})

PublishCopy ==
  /\ pc[Body] = "copy"
  /\ Copied < result_count
  /\ results' = [results EXCEPT ![Copied + 1] = "value"]
  /\ UNCHANGED <<state, done_mutex, result_count, then_fn, catch_fn, pc, call,
                 local>>

(* Variant: no broadcast. *)
PublishEndSilent ==
  /\ Copied = result_count
  /\ Goto(Body, "copy", "final")
  /\ state' = finish.kind
  /\ done_mutex' = None
  /\ UNCHANGED <<result_count, results, then_fn, catch_fn, call, local>>

(* The state is stored, whatever it was, then broadcast and unlock: the    *)
(* mutex is still held, so no waiter tells the three apart.                *)
PublishEnd ==
  /\ Copied = result_count
  /\ GotoWaking(Body, "copy", "final")
  /\ state' = finish.kind
  /\ done_mutex' = None
  /\ UNCHANGED <<result_count, results, then_fn, catch_fn, call, local>>

(* Variant: only the success callback is looked at. *)
PickCallbackThenOnly ==
  /\ MutexFree
  /\ Goto(Body, "final", "fire")
  /\ cb' = IF state = "done" THEN then_fn ELSE None
  /\ UNCHANGED <<shared, call, finish, out, fired, replaced, cancelled,
                 straddled, spurious>>

(* final_state is loaded (no other thread changes it any more), then the   *)
(* callback for it is copied under the mutex.                              *)
PickCallback ==
  /\ MutexFree
  /\ Goto(Body, "final", "fire")
  /\ cb' = IF state = "done" THEN then_fn
           ELSE IF state = "error" THEN catch_fn
           ELSE None
  /\ UNCHANGED <<shared, call, finish, out, fired, replaced, cancelled,
                 straddled, spurious>>

FireCallback ==
  /\ Goto(Body, "fire", "exit")
  /\ fired' = IF cb = None THEN fired ELSE [fired EXCEPT ![cb] = @ + 1]
  /\ UNCHANGED <<shared, call, finish, cb, out, replaced, cancelled,
                 straddled, spurious>>

-----------------------------------------------------------------------------
(* cdo_thread_wait, called by OP_AWAIT and by thread.join *)

WaitCall(c) ==
  /\ call[c] \in {"await", "join"}
  /\ MutexFree
  /\ Goto(c, "idle", "w_running")
  /\ done_mutex' = c
  /\ UNCHANGED <<state, result_count, results, then_fn, catch_fn, call, local>>

(* The loop condition loads state twice: first against RUNNING ...         *)
WaitTestRunning(c) ==
  /\ Goto(c, "w_running", IF state = "running" THEN "w_block" ELSE "w_pending")
  /\ UNCHANGED <<shared, call, local>>

(* ... then, if it was not, against PENDING. *)
WaitTestPending(c) ==
  /\ Goto(c, "w_pending", IF state = "pending" THEN "w_block" ELSE "w_unlock")
  /\ UNCHANGED <<shared, call, local>>

(* cando_os_cond_wait: release the mutex and sleep in one step. *)
WaitBlock(c) ==
  /\ Goto(c, "w_block", "w_sleep")
  /\ done_mutex' = None
  /\ UNCHANGED <<state, result_count, results, then_fn, catch_fn, call, local>>

WaitSpurious(c) ==
  /\ spurious < MaxSpurious
  /\ Goto(c, "w_sleep", "w_wake")
  /\ spurious' = spurious + 1
  /\ UNCHANGED <<shared, call, finish, cb, out, fired, replaced, cancelled,
                 straddled>>

(* Variant: the condition is tested once, with if instead of while. *)
WaitRelockOnce(c) ==
  /\ MutexFree
  /\ Goto(c, "w_wake", "w_unlock")
  /\ done_mutex' = c
  /\ UNCHANGED <<state, result_count, results, then_fn, catch_fn, call, local>>

WaitRelock(c) ==
  /\ MutexFree
  /\ Goto(c, "w_wake", "w_running")
  /\ done_mutex' = c
  /\ UNCHANGED <<state, result_count, results, then_fn, catch_fn, call, local>>

WaitReturn(c) ==
  /\ Goto(c, "w_unlock", call[c])
  /\ done_mutex' = None
  /\ UNCHANGED <<state, result_count, results, then_fn, catch_fn, call, local>>

Wait(c) ==
  \/ WaitTestRunning(c) \/ WaitTestPending(c) \/ WaitBlock(c)
  \/ WaitRelock(c) \/ WaitReturn(c)

-----------------------------------------------------------------------------
(* OP_AWAIT after the wait; it reads the thread object without the mutex.  *)

Pushed(c) == Len(out[c].pushed)

AwaitState(c) ==
  /\ Goto(c, "await", IF state = "error" THEN "ended" ELSE "a_push")
  /\ out' = [out EXCEPT ![c].raised = (state = "error")]
  /\ UNCHANGED <<shared, call, finish, cb, fired, replaced, cancelled,
                 straddled, spurious>>

(* One iteration of the loop, which loads result_count each time. *)
AwaitPush(c) ==
  /\ pc[c] = "a_push"
  /\ Pushed(c) < result_count
  /\ out' = [out EXCEPT ![c].pushed = Append(@, results[Pushed(c) + 1])]
  /\ UNCHANGED <<shared, pc, call, finish, cb, fired, replaced, cancelled,
                 straddled, spurious>>

AwaitPushed(c) ==
  /\ Pushed(c) >= result_count
  /\ Goto(c, "a_push", "a_null")
  /\ UNCHANGED <<shared, call, local>>

(* Ensure at least one value: result_count is loaded again ... *)
AwaitNull(c) ==
  /\ Goto(c, "a_null", "a_ret")
  /\ out' = IF result_count = 0
              THEN [out EXCEPT ![c].pushed = Append(@, "null")]
              ELSE out
  /\ UNCHANGED <<shared, call, finish, cb, fired, replaced, cancelled,
                 straddled, spurious>>

(* ... and once more for last_ret_count. *)
AwaitRet(c) ==
  /\ Goto(c, "a_ret", "ended")
  /\ out' = [out EXCEPT ![c].ret = IF result_count > 0 THEN result_count ELSE 1]
  /\ UNCHANGED <<shared, call, finish, cb, fired, replaced, cancelled,
                 straddled, spurious>>

Await(c) ==
  \/ AwaitState(c) \/ AwaitPush(c) \/ AwaitPushed(c) \/ AwaitNull(c)
  \/ AwaitRet(c)

(* thread_join_one: the results if DONE (they no longer change), or null.  *)
Join(c) ==
  /\ Goto(c, "join", "ended")
  /\ LET got == IF state = "done" THEN SubSeq(results, 1, result_count)
                                  ELSE <<"null">>
     IN  out' = [out EXCEPT ![c].pushed = got, ![c].ret = Len(got)]
  /\ UNCHANGED <<shared, call, finish, cb, fired, replaced, cancelled,
                 straddled, spurious>>

-----------------------------------------------------------------------------
(* thread.cancel: two compare-exchanges without the mutex, then broadcast. *)

CancelPending(c) ==
  /\ call[c] = "cancel"
  /\ Goto(c, "idle", IF state = "pending" THEN "c_wake" ELSE "c_running")
  /\ state' = IF state = "pending" THEN "cancelled" ELSE state
  /\ cancelled' = (cancelled \/ state = "pending")
  /\ UNCHANGED <<done_mutex, result_count, results, then_fn, catch_fn, call,
                 finish, cb, out, fired, replaced, straddled, spurious>>

(* Variant: a store instead of the compare-exchange. *)
CancelRunningBlind(c) ==
  /\ Goto(c, "c_running", "c_wake")
  /\ state' = "cancelled"
  /\ cancelled' = TRUE
  /\ UNCHANGED <<done_mutex, result_count, results, then_fn, catch_fn, call,
                 finish, cb, out, fired, replaced, straddled, spurious>>

CancelRunning(c) ==
  /\ Goto(c, "c_running", IF state = "running" THEN "c_wake" ELSE "ended")
  /\ state' = IF state = "running" THEN "cancelled" ELSE state
  /\ cancelled' = (cancelled \/ state = "running")
  /\ UNCHANGED <<done_mutex, result_count, results, then_fn, catch_fn, call,
                 finish, cb, out, fired, replaced, straddled, spurious>>

(* Lock, broadcast, unlock. *)
CancelWake(c) ==
  /\ MutexFree
  /\ GotoWaking(c, "c_wake", "ended")
  /\ UNCHANGED <<shared, call, local>>

-----------------------------------------------------------------------------
(* thread.then and thread.catch: one critical section that decides, by the *)
(* state, whether to call now, to store, or to drop.                       *)

(* Variant: stored in every state. *)
ThenAlwaysStores(c) ==
  /\ call[c] = "then"
  /\ MutexFree
  /\ Goto(c, "idle", IF state = "done" THEN "call" ELSE "ended")
  /\ then_fn' = c
  /\ replaced' = replaced \cup ({then_fn} \ {None})
  /\ UNCHANGED <<state, done_mutex, result_count, results, catch_fn, call,
                 finish, cb, out, fired, cancelled, straddled, spurious>>

Then(c) ==
  /\ call[c] = "then"
  /\ MutexFree
  /\ Goto(c, "idle", IF state = "done" THEN "call" ELSE "ended")
  /\ IF state \in {"pending", "running"}
       THEN /\ then_fn' = c
            /\ replaced' = replaced \cup ({then_fn} \ {None})
       ELSE UNCHANGED <<then_fn, replaced>>
  /\ UNCHANGED <<state, done_mutex, result_count, results, catch_fn, call,
                 finish, cb, out, fired, cancelled, straddled, spurious>>

Catch(c) ==
  /\ call[c] = "catch"
  /\ MutexFree
  /\ Goto(c, "idle", IF state = "error" THEN "call" ELSE "ended")
  /\ IF state \in {"pending", "running"}
       THEN /\ catch_fn' = c
            /\ replaced' = replaced \cup ({catch_fn} \ {None})
       ELSE UNCHANGED <<catch_fn, replaced>>
  /\ UNCHANGED <<state, done_mutex, result_count, results, then_fn, call,
                 finish, cb, out, fired, cancelled, straddled, spurious>>

(* The callback runs on the caller's thread, outside the mutex. *)
CallNow(c) ==
  /\ Goto(c, "call", "ended")
  /\ fired' = [fired EXCEPT ![c] = @ + 1]
  /\ UNCHANGED <<shared, call, finish, cb, out, replaced, cancelled,
                 straddled, spurious>>

-----------------------------------------------------------------------------
Publish ==
  PublishBegin \/ PublishCopy \/ PublishEnd \/ PickCallback \/ FireCallback

Client(c) ==
  \/ WaitCall(c) \/ Wait(c) \/ Await(c) \/ Join(c)
  \/ CancelPending(c) \/ CancelRunning(c) \/ CancelWake(c)
  \/ Then(c) \/ Catch(c) \/ CallNow(c)

(* Everybody has done what it came for. *)
Terminated ==
  /\ pc[Body] = "exit"
  /\ \A c \in Clients : pc[c] = "ended"
  /\ UNCHANGED vars

Next ==
  \/ MarkRunning \/ BodyEnds \/ Publish
  \/ \E c \in Clients : Client(c) \/ WaitSpurious(c)
  \/ Terminated

Spec == Init /\ [][Next]_vars

(* The OS runs every thread.  Nothing is assumed about the body, which may *)
(* run for ever, nor about when a client makes its call.                   *)
Fairness ==
  /\ WF_vars(MarkRunning)
  /\ WF_vars(Publish)
  /\ \A c \in Clients : WF_vars(pc[c] # "idle" /\ Client(c))

FairSpec == Spec /\ Fairness

-----------------------------------------------------------------------------
(***************************************************************************)
(* What await, join, cancel, then and catch promise about one thread.      *)
(***************************************************************************)
Waiting(c) ==
  pc[c] \in {"w_running", "w_pending", "w_block", "w_sleep", "w_wake",
             "w_unlock"}

(* Every variable has its type; result_count never exceeds the array that  *)
(* cdo_thread_set_results fills, so OP_AWAIT and join index inside it.     *)
TypeOK ==
  /\ state \in States
  /\ done_mutex \in Clients \cup {Body, None}
  /\ result_count \in 0..MaxResults
  /\ results \in [1..MaxResults -> {"null", "value"}]
  /\ then_fn \in Clients \cup {None}
  /\ catch_fn \in Clients \cup {None}
  /\ call \in [Clients -> Calls]
  /\ cb \in Clients \cup {None}
  /\ fired \in [Clients -> 0..2]
  /\ replaced \subseteq Clients
  /\ cancelled \in BOOLEAN
  /\ straddled \subseteq Clients
  /\ spurious \in 0..MaxSpurious

-----------------------------------------------------------------------------
(* Safety *)

(* The trampoline and thread.then/thread.catch agree on who runs a         *)
(* callback: it runs at most once, and only if the body ended the way the  *)
(* callback is for, even when cancel, then and the end of the body race.   *)
CallbackOnceAndOnMatch ==
  \A c \in Clients :
    /\ fired[c] <= 1
    /\ fired[c] = 1 => /\ call[c] = "then" => finish.kind = "done"
                       /\ call[c] = "catch" => finish.kind = "error"
                       /\ call[c] \in {"then", "catch"}

(* No registration falls between the trampoline's look at then_fn/catch_fn *)
(* and the client's look at state: once everybody is through, the callback *)
(* registered last for the way the body ended has run, unless the thread   *)
(* was cancelled first.  There is one slot for each kind of callback: the  *)
(* ones registered before (replaced) are lost, see EveryCallbackFires.     *)
CallbackNotLost ==
  pc[Body] = "exit" /\ ~cancelled =>
    \A c \in Clients :
      pc[c] = "ended" /\ c \notin replaced =>
        /\ call[c] = "then" /\ finish.kind = "done" => fired[c] = 1
        /\ call[c] = "catch" /\ finish.kind = "error" => fired[c] = 1

(* All of that, with every variable of its type.                           *)
ThreadInvariant == TypeOK /\ CallbackOnceAndOnMatch /\ CallbackNotLost

(* Every await and join, whenever it begins, on a thread nobody cancels,   *)
(* sees the end of the body and all of its results: none missing, none     *)
(* read before it was copied, and a count that agrees with the values      *)
(* pushed.  The one exception are the waits that were between their two    *)
(* loads of state when the trampoline stored RUNNING (straddled): of those *)
(* a join still yields all results or a null, never a part of them.  Where *)
(* the body returned nothing await makes up a null and join does not.      *)
Kept == IF finish.n < MaxResults THEN finish.n ELSE MaxResults

Expected(c) ==
  IF call[c] = "await" /\ finish.n = 0 THEN <<"null">>
  ELSE [i \in 1..Kept |-> "value"]

NobodyCancels == \A c \in Clients : call[c] # "cancel"

SeesTheEnd(c) ==
  \/ /\ finish.kind = "done"
     /\ ~out[c].raised
     /\ out[c].pushed = Expected(c)
     /\ out[c].ret = Len(Expected(c))
  \/ /\ finish.kind = "error"
     /\ call[c] = "await" => out[c].raised
     /\ call[c] = "join" => out[c].pushed = <<"null">>

WaitersSeeAllResults ==
  \A c \in Clients :
    pc[c] = "ended" =>
      /\ call[c] \in {"await", "join"} /\ NobodyCancels /\ c \notin straddled =>
           SeesTheEnd(c)
      /\ call[c] = "join" => out[c].pushed \in {<<"null">>, Expected(c)}

(* results, result_count and error are frozen once DONE or ERROR is        *)
(* visible: await, join and then read them without the mutex after that.   *)
ResultsFrozen ==
  [][(state \in {"done", "error"}) =>
        UNCHANGED <<state, result_count, results>>]_vars

-----------------------------------------------------------------------------
(* Liveness *)

(* Whoever waits for the thread when the body ends, or later, gets an      *)
(* answer: the broadcast reaches every sleeper, and none goes to sleep     *)
(* after it.  Cancelling a thread that has started releases the waiters    *)
(* even if the body never ends; before that, MarkRunning undoes it.        *)
WaitersReturn ==
  \A c \in Clients :
    /\ (Waiting(c) /\ pc[Body] \notin {"start", "body"}) ~> pc[c] = "ended"
    /\ (Waiting(c) /\ state = "cancelled" /\ pc[Body] # "start") ~> ~Waiting(c)

(* A stored callback for the way the body ended is run.                    *)
StoredCallbackRuns ==
  \A c \in Clients :
    /\ (pc[Body] = "final" /\ state = "done" /\ then_fn = c) ~> fired[c] = 1
    /\ (pc[Body] = "final" /\ state = "error" /\ catch_fn = c) ~> fired[c] = 1

-----------------------------------------------------------------------------
(* What the documentation says and the code does not do *)

(* thread.h:121: cdo_thread_wait blocks until the state is DONE, ERROR or  *)
(* CANCELLED, whenever it is called.  A wait that loads PENDING, then      *)
(* RUNNING, returns at once.                                               *)
WaitEndsWhenFinished ==
  \A c \in Clients :
    pc[c] \in {"w_unlock", "await", "join"} => state \in Finished

(* docs/threading.md:65-66: a thread can have several then and catch       *)
(* callbacks.  A second registration overwrites the first.                 *)
EveryCallbackFires ==
  pc[Body] = "exit" /\ ~cancelled =>
    \A c \in Clients :
      pc[c] = "ended" =>
        /\ call[c] = "then" /\ finish.kind = "done" => fired[c] = 1
        /\ call[c] = "catch" /\ finish.kind = "error" => fired[c] = 1

(* docs/threading.md:81-85: a cancelled thread reports state "cancelled".  *)
(* The trampoline's stores of RUNNING, DONE and ERROR do not look whether  *)
(* thread.cancel has changed the state.                                    *)
CancelledReportsIt == cancelled => state = "cancelled"

=============================================================================
