------------------------ MODULE ThreadLifecycleProofs ------------------------
(***************************************************************************)
(* Proofs about one thread object, for every set of clients, every bound,  *)
(* and any mix of calls: its callbacks run once, on a match, and none is   *)
(* lost; what it publishes stays; and await and join see all of it.        *)
(*                                                                         *)
(* Every conjunct of the inductive invariant says what one place in the    *)
(* code may rely on; Ended is the only one that the others all lean on:    *)
(* the state is DONE or ERROR exactly when the body is past its broadcast. *)
(***************************************************************************)
EXTENDS ThreadLifecycle, FiniteSetTheorems, SequenceTheorems, TLAPS

USE LifecycleAssumption DEF AllCalls

BodyPlaces == {"start", "body", "lock", "copy", "final", "fire", "exit"}
WaitPlaces == {"w_running", "w_pending", "w_block", "w_sleep", "w_wake", "w_unlock"}
AwaitPlaces == {"await", "a_push", "a_null", "a_ret"}
ClientPlaces == WaitPlaces \cup AwaitPlaces
                  \cup {"idle", "join", "c_running", "c_wake", "call", "ended"}

Places ==
  /\ pc \in [Clients \cup {Body} -> BodyPlaces \cup ClientPlaces]
  /\ pc[Body] \in BodyPlaces
  /\ \A c \in Clients :
       /\ pc[c] \in ClientPlaces
       /\ pc[c] \in WaitPlaces => call[c] \in {"await", "join"}
       /\ pc[c] \in AwaitPlaces => call[c] = "await"
       /\ pc[c] = "join" => call[c] = "join"
       /\ pc[c] \in {"c_running", "c_wake"} => call[c] = "cancel"

Past == pc[Body] \in {"final", "fire", "exit"}

Ended ==
  /\ finish \in [kind : {"none", "done", "error"}, n : 0..MaxReturn]
  /\ finish.kind = "none" <=> pc[Body] \in {"start", "body"}
  /\ state = "pending" => pc[Body] = "start"
  /\ state \in {"done", "error"} <=> Past
  /\ Past => state = finish.kind
  /\ state = "cancelled" => cancelled

(* Who is in then_fn and catch_fn has made the call and has not been run.  *)
Registered ==
  \A c \in Clients :
    /\ then_fn = c => call[c] = "then" /\ pc[c] = "ended"
    /\ catch_fn = c => call[c] = "catch" /\ pc[c] = "ended"
    /\ pc[c] = "call" => \/ call[c] = "then" /\ state = "done"
                         \/ call[c] = "catch" /\ state = "error"
    /\ pc[c] \in {"idle", "call"} => fired[c] = 0
    /\ c \in {then_fn, catch_fn} /\ pc[Body] # "exit" => fired[c] = 0

(* What the trampoline has picked stays in its slot. *)
Picked ==
  /\ pc[Body] \in {"fire", "exit"} =>
       cb = IF state = "done" THEN then_fn ELSE catch_fn
  /\ pc[Body] = "exit" /\ cb # None => fired[cb] = 1

(* A registration that was not replaced is stored, run, or for the other   *)
(* way the body could have ended.                                          *)
NotLost(c) ==
  /\ call[c] = "then" => then_fn = c \/ fired[c] = 1 \/ state = "error"
  /\ call[c] = "catch" => catch_fn = c \/ fired[c] = 1 \/ state = "done"

NoneLost ==
  ~cancelled => \A c \in Clients : pc[c] = "ended" /\ c \notin replaced => NotLost(c)

IInv ==
  TypeOK /\ Places /\ Ended /\ CallbackOnceAndOnMatch /\ Registered /\ Picked /\ NoneLost

(* The values are copied from the front, as many as result_count says. *)
Values(n) == [i \in 1..n |-> "value"]
Prefix(k) == [i \in 1..MaxResults |-> IF i <= k THEN "value" ELSE "null"]

Copying ==
  /\ \E k \in 0..result_count :
       /\ results = Prefix(k)
       /\ Past => k = result_count
  /\ result_count = IF pc[Body] \in {"copy", "final", "fire", "exit"} /\ finish.kind = "done"
                    THEN Kept ELSE 0

(* What a wait relies on at each place, when nobody cancels and the thread *)
(* did not become RUNNING between its two loads of state.                  *)
Answered(c) ==
  /\ pc[c] = "w_pending" => Past \/ state = "pending"
  /\ pc[c] \in {"w_unlock", "await", "join", "a_push", "a_null", "a_ret", "ended"} => Past
  /\ pc[c] = "a_push" => \E n \in 0..result_count : out[c].pushed = Values(n)
  /\ pc[c] = "a_null" => out[c].pushed = Values(result_count)
  /\ pc[c] = "a_ret" => out[c].pushed = Expected(c)
  /\ pc[c] \in {"a_push", "a_null", "a_ret"} => state = "done" /\ ~out[c].raised
  /\ pc[c] = "ended" =>
       \/ /\ state = "done" /\ ~out[c].raised
          /\ out[c].pushed = Expected(c) /\ out[c].ret = Len(Expected(c))
       \/ /\ state = "error"
          /\ call[c] = "await" => out[c].raised
          /\ call[c] = "join" => out[c].pushed = <<"null">>

Undisturbed(c) == NobodyCancels /\ c \notin straddled

(* A join reads results only when it has seen DONE. *)
JoinIsWhole(c) ==
  call[c] = "join" /\ pc[c] = "ended" =>
    out[c].pushed = <<"null">> \/ (state = "done" /\ out[c].pushed = Expected(c))

Waits(c) == call[c] \in {"await", "join"}

Fresh(c) ==
  Waits(c) /\ pc[c] \in {"idle", "await", "join"} \cup WaitPlaces =>
    out[c] = [pushed |-> <<>>, ret |-> 0, raised |-> FALSE]

WInv ==
  /\ out \in [Clients -> [pushed : Seq({"value", "null"}), ret : Nat, raised : BOOLEAN]]
  /\ Copying
  /\ \A c \in Clients : Fresh(c)
  /\ pc[Body] = "start" => straddled = {}
  /\ NobodyCancels => state # "cancelled"
  /\ \A c \in Clients : JoinIsWhole(c) /\ (Waits(c) /\ Undisturbed(c) => Answered(c))

-----------------------------------------------------------------------------
LEMMA InitIInv == Init => IInv
<1> SUFFICES ASSUME Init PROVE IInv
  OBVIOUS
<1> USE DEF Init
<1>1. TypeOK
  <2>1. /\ call \in [Clients -> Calls] /\ spurious \in 0..MaxSpurious
        /\ result_count \in 0..MaxResults
    OBVIOUS
  <2>2. fired \in [Clients -> 0..2] /\ results \in [1..MaxResults -> {"null", "value"}]
    OBVIOUS
  <2> QED
    BY <2>1, <2>2 DEF TypeOK, States
<1>2. Places
  BY DEF Places, BodyPlaces, ClientPlaces, WaitPlaces, AwaitPlaces
<1>3. Ended
  BY DEF Ended, Past
<1>4. CallbackOnceAndOnMatch /\ Registered /\ Picked /\ NoneLost
  BY DEF CallbackOnceAndOnMatch, Registered, Picked, NoneLost
<1> QED
  BY <1>1, <1>2, <1>3, <1>4 DEF IInv

(* The two compare-exchanges of thread.cancel differ in what they expect.  *)
LEMMA CancelKeepsIInv ==
  ASSUME IInv, NEW c \in Clients, CancelPending(c) \/ CancelRunning(c)
  PROVE  IInv'
<1> DEFINE Expects == IF CancelPending(c) THEN "pending" ELSE "running"
<1> USE DEF IInv, TypeOK, States, Places, BodyPlaces, ClientPlaces, WaitPlaces, AwaitPlaces,
            Ended, Past, CallbackOnceAndOnMatch, Registered, Picked, NoneLost, NotLost, Goto
<1>1. CASE state = Expects
  <2>1. state' = "cancelled" /\ cancelled' = TRUE
    BY <1>1 DEF CancelPending, CancelRunning
  <2>2. state \in {"pending", "running"}
    BY <1>1
  <2>3. CASE CancelPending(c)
    BY <2>1, <2>2, <2>3 DEF CancelPending
  <2>4. CASE CancelRunning(c)
    BY <2>1, <2>2, <2>4 DEF CancelRunning
  <2> QED
    BY <2>3, <2>4
<1>2. CASE state # Expects
  <2>1. state' = state
    BY <1>2 DEF CancelPending, CancelRunning
  <2>2. cancelled' = cancelled
    BY <1>2, Zenon DEF CancelPending, CancelRunning
  <2> QED
    BY <2>1, <2>2 DEF CancelPending, CancelRunning
<1> QED
  BY <1>1, <1>2

LEMMA StepIInv == IInv /\ [Next]_vars => IInv'
<1> SUFFICES ASSUME IInv, [Next]_vars PROVE IInv'
  OBVIOUS
<1> USE DEF IInv, TypeOK, States, Places, BodyPlaces, ClientPlaces, WaitPlaces, AwaitPlaces,
            Ended, Past, CallbackOnceAndOnMatch, Registered, Picked, NoneLost, NotLost,
            Goto, GotoWaking, Woken, shared, local
<1>1. CASE MarkRunning
  BY <1>1 DEF MarkRunning
<1>2. CASE BodyEnds
  BY <1>2 DEF BodyEnds
<1>3. CASE PublishBegin
  BY <1>3 DEF PublishBegin
<1>4. CASE PublishEnd
  BY <1>4 DEF PublishEnd
<1>5. CASE PickCallback
  BY <1>5 DEF PickCallback
<1>6. CASE FireCallback
  BY <1>6 DEF FireCallback
<1>7. CASE PublishCopy
  <2>1. results' \in [1..MaxResults -> {"null", "value"}]
    BY <1>7 DEF PublishCopy
  <2> QED
    BY <1>7, <2>1 DEF PublishCopy
<1>8. ASSUME NEW c \in Clients, Client(c) \/ WaitSpurious(c) PROVE IInv'
  <2>1. CASE WaitCall(c)
    BY <2>1 DEF WaitCall
  <2>2. CASE WaitTestRunning(c)
    BY <2>2 DEF WaitTestRunning
  <2>3. CASE WaitTestPending(c)
    BY <2>3 DEF WaitTestPending
  <2>4. CASE WaitBlock(c)
    BY <2>4 DEF WaitBlock
  <2>5. CASE WaitRelock(c)
    BY <2>5 DEF WaitRelock
  <2>6. CASE WaitReturn(c)
    BY <2>6 DEF WaitReturn
  <2>7. CASE AwaitState(c)
    BY <2>7 DEF AwaitState
  <2>8. CASE AwaitPush(c)
    BY <2>8 DEF AwaitPush
  <2>9. CASE AwaitPushed(c)
    BY <2>9 DEF AwaitPushed
  <2>10. CASE AwaitNull(c)
    BY <2>10 DEF AwaitNull
  <2>11. CASE AwaitRet(c)
    BY <2>11 DEF AwaitRet
  <2>12. CASE Join(c)
    BY <2>12 DEF Join
  <2>13. CASE CancelWake(c)
    BY <2>13 DEF CancelWake
  <2>14. CASE Then(c)
    BY <2>14 DEF Then
  <2>15. CASE Catch(c)
    BY <2>15 DEF Catch
  <2>16. CASE CallNow(c)
    BY <2>16 DEF CallNow
  <2>17. CASE WaitSpurious(c)
    BY <2>17 DEF WaitSpurious
  <2>18. CASE CancelPending(c) \/ CancelRunning(c)
    BY <2>18, CancelKeepsIInv
  <2> QED
    BY ONLY <1>8, <2>1, <2>2, <2>3, <2>4, <2>5, <2>6, <2>7, <2>8, <2>9, <2>10, <2>11, <2>12,
            <2>13, <2>14, <2>15, <2>16, <2>17, <2>18
       DEF Client, Wait, Await
<1>9. CASE UNCHANGED vars
  BY <1>9 DEF vars
<1> QED
  BY ONLY [Next]_vars, <1>1, <1>2, <1>3, <1>4, <1>5, <1>6, <1>7, <1>8, <1>9 DEF Next, Publish, Terminated

(* The inductive invariant holds of the thread object in every behaviour,  *)
(* whoever makes which call when.                                          *)
THEOREM Invariance == Spec => []IInv
<1>1. Init => IInv
  BY InitIInv
<1>2. IInv /\ [Next]_vars => IInv'
  BY StepIInv
<1> QED
  BY <1>1, <1>2, PTL DEF Spec

-----------------------------------------------------------------------------
(* A callback runs at most once and only for the way the body ended, and   *)
(* none that was stored is lost: vm_thread_trampoline and thread.then and  *)
(* thread.catch agree, whatever else races with them.                      *)
THEOREM Callbacks == Spec => []ThreadInvariant
<1>1. IInv => ThreadInvariant
  <2>1. IInv => CallbackNotLost
    BY DEF IInv, TypeOK, Ended, Past, CallbackOnceAndOnMatch, Registered, Picked, NoneLost, NotLost,
           CallbackNotLost
  <2> QED
    BY <2>1 DEF IInv, ThreadInvariant
<1> QED
  BY <1>1, Invariance, PTL

(* What cdo_thread_set_results and cdo_thread_set_error publish is final:  *)
(* a thread.cancel that has looked at the state before does not undo it.   *)
THEOREM Frozen == Spec => ResultsFrozen
<1>1. IInv /\ [Next]_vars =>
        [(state \in {"done", "error"}) => UNCHANGED <<state, result_count, results>>]_vars
  <2> SUFFICES ASSUME IInv, Next, state \in {"done", "error"}
               PROVE  UNCHANGED <<state, result_count, results>>
    OBVIOUS
  <2>1. pc[Body] \in {"final", "fire", "exit"}
    BY DEF IInv, Ended, Past
  <2>2. CASE MarkRunning \/ BodyEnds \/ Publish \/ Terminated
    BY <2>1, <2>2 DEF MarkRunning, BodyEnds, Publish, PublishBegin, PublishCopy, PublishEnd,
                      PickCallback, FireCallback, Terminated, Goto, GotoWaking, shared, vars
  <2>3. ASSUME NEW c \in Clients, Client(c) \/ WaitSpurious(c)
        PROVE  UNCHANGED <<state, result_count, results>>
    BY <2>3 DEF Client, WaitCall, Wait, WaitTestRunning, WaitTestPending, WaitBlock, WaitRelock,
                WaitReturn, WaitSpurious, Await, AwaitState, AwaitPush, AwaitPushed, AwaitNull,
                AwaitRet, Join, CancelPending, CancelRunning, CancelWake, Then, Catch, CallNow, shared
  <2> QED
    BY <2>2, <2>3 DEF Next
<1> QED
  BY <1>1, Invariance, PTL DEF Spec, ResultsFrozen

-----------------------------------------------------------------------------
(* What is copied, and what await and join make of it. *)

LEMMA CopiedPrefix ==
  ASSUME NEW k \in 0..MaxResults, results = Prefix(k)
  PROVE  Copied = k
<1>1. {i \in 1..MaxResults : results[i] = "value"} = 1..k
  BY DEF Prefix
<1>2. Cardinality(1..k) = k
  BY FS_Interval
<1> QED
  BY <1>1, <1>2 DEF Copied

LEMMA OneMore ==
  ASSUME NEW n \in Nat
  PROVE  Append(Values(n), "value") = Values(n + 1)
BY DEF Values

(* A step of c's own: nothing that the other clients rely on changes. *)
LEMMA OthersAnswered ==
  ASSUME NEW d \in Clients, Waits(d) /\ Undisturbed(d) => Answered(d), Fresh(d), JoinIsWhole(d),
         UNCHANGED <<state, result_count, finish, call, straddled, pc[d], pc[Body], out[d]>>
  PROVE  Fresh(d)' /\ JoinIsWhole(d)' /\ (Waits(d)' /\ Undisturbed(d)' => Answered(d)')
<1>1. Expected(d)' = Expected(d)
  BY DEF Expected, Kept
<1> QED
  BY <1>1 DEF Undisturbed, NobodyCancels, Waits, Answered, Fresh, JoinIsWhole, Past, Values, WaitPlaces

Outs == [pushed : Seq({"value", "null"}), ret : Nat, raised : BOOLEAN]

LEMMA PutPushed ==
  ASSUME NEW r \in Outs, NEW s \in Seq({"value", "null"})
  PROVE  LET o == [r EXCEPT !.pushed = s]
         IN  o \in Outs /\ o.pushed = s /\ o.ret = r.ret /\ o.raised = r.raised
BY DEF Outs

LEMMA PutRaised ==
  ASSUME NEW r \in Outs, NEW b \in BOOLEAN
  PROVE  LET o == [r EXCEPT !.raised = b]
         IN  o \in Outs /\ o.pushed = r.pushed /\ o.ret = r.ret /\ (o.raised <=> b)
BY DEF Outs

LEMMA AwaitKeepsWInv ==
  ASSUME IInv, WInv, NEW c \in Clients, Await(c) \/ Join(c)
  PROVE  WInv'
<1> USE DEF Goto, shared, local, Await
<1>1. /\ UNCHANGED <<state, result_count, results, finish, call, straddled>>
      /\ pc'[Body] = pc[Body]
      /\ \A d \in Clients \ {c} : pc'[d] = pc[d] /\ out'[d] = out[d]
  BY DEF IInv, Places, WInv, AwaitState, AwaitPush, AwaitPushed, AwaitNull, AwaitRet, Join
<1>2. pc[c] \in {"await", "a_push", "a_null", "a_ret", "join"} /\ Waits(c)
  BY DEF IInv, Places, AwaitPlaces, AwaitState, AwaitPush, AwaitPushed, AwaitNull, AwaitRet, Join, Waits
<1>3. pc'[c] \in {"a_push", "a_null", "a_ret", "ended"}
  BY DEF IInv, Places, AwaitState, AwaitPush, AwaitPushed, AwaitNull, AwaitRet, Join
<1>4. Fresh(c)'
  BY <1>3 DEF Fresh, WaitPlaces
<1>5. Copying'
  BY <1>1 DEF WInv, Copying, Past, Kept, Prefix
<1>6. /\ result_count \in 0..MaxResults /\ results \in [1..MaxResults -> {"null", "value"}]
      /\ out \in [Clients -> Outs] /\ out[c] \in Outs
  BY DEF IInv, TypeOK, WInv, Outs
<1>7. ASSUME NEW o \in Outs, out' = [out EXCEPT ![c] = o]
      PROVE  out' \in [Clients -> Outs] /\ out'[c] = o
  BY <1>6, <1>7
<1>8. ASSUME out' \in [Clients -> Outs], JoinIsWhole(c)', Undisturbed(c) => Answered(c)'
      PROVE  WInv'
  <2>1. \A d \in Clients \ {c} :
          Fresh(d)' /\ JoinIsWhole(d)' /\ (Waits(d)' /\ Undisturbed(d)' => Answered(d)')
    BY <1>1, OthersAnswered DEF WInv
  <2>2. NobodyCancels' = NobodyCancels /\ Undisturbed(c)' = Undisturbed(c)
    BY <1>1 DEF Undisturbed, NobodyCancels
  <2> QED
    BY <1>1, <1>4, <1>5, <1>8, <2>1, <2>2 DEF WInv, Outs
<1>9. Undisturbed(c) => Answered(c) /\ Past /\ Past'
  BY <1>1, <1>2 DEF WInv, Answered, Past
<1>10. Past => /\ state \in {"done", "error"} /\ state = finish.kind
               /\ results = Prefix(result_count)
               /\ state = "done" => result_count = Kept
  BY DEF IInv, Ended, Past, WInv, Copying
<1>18. Undisturbed(c) => /\ state \in {"done", "error"} /\ state = finish.kind
                         /\ results = Prefix(result_count)
                         /\ state = "done" => result_count = Kept
  BY <1>9, <1>10
<1>19. call[c] = "await" => JoinIsWhole(c)'
  BY <1>1 DEF JoinIsWhole
<1>11. finish.n \in Nat /\ Kept \in 0..MaxResults /\ Kept' = Kept /\ Expected(c)' = Expected(c)
  BY <1>1 DEF IInv, Ended, Kept, Expected
<1>12. CASE AwaitState(c)
  <2> DEFINE o == [out[c] EXCEPT !.raised = (state = "error")]
  <2>1. /\ o \in Outs /\ o.pushed = out[c].pushed /\ (o.raised <=> state = "error")
        /\ out' = [out EXCEPT ![c] = o]
    BY <1>6, <1>12, PutRaised DEF AwaitState
  <2>2. out[c] = [pushed |-> <<>>, ret |-> 0, raised |-> FALSE]
    BY <1>2, <1>12 DEF WInv, Fresh, AwaitState
  <2>3. out'[c] = o
    BY <1>7, <2>1
  <2>4. <<>> = Values(0)
    BY DEF Values
  <2>5. call[c] = "await" /\ pc'[c] = IF state = "error" THEN "ended" ELSE "a_push"
    BY <1>12 DEF AwaitState, IInv, Places, AwaitPlaces
  <2>6. Undisturbed(c) => Answered(c)'
    <3> HIDE DEF o
    <3> QED
      BY <1>1, <1>6, <1>9, <1>18, <2>1, <2>2, <2>3, <2>4, <2>5 DEF Answered
  <2> QED
    BY <1>7, <1>8, <1>19, <2>1, <2>5, <2>6
<1>13. CASE AwaitPush(c)
  <2> DEFINE got == Append(out[c].pushed, results[Pushed(c) + 1])
             o == [out[c] EXCEPT !.pushed = got]
  <2>1. Pushed(c) \in Nat /\ Pushed(c) < result_count /\ pc[c] = "a_push" /\ pc'[c] = "a_push"
    BY <1>6, <1>13 DEF AwaitPush, Pushed, Outs
  <2>2. results[Pushed(c) + 1] \in {"null", "value"}
    BY <1>6, <2>1
  <2>3. out[c].pushed \in Seq({"value", "null"}) /\ got \in Seq({"value", "null"})
    BY <1>6, <2>2 DEF Outs
  <2>5. o \in Outs /\ o.pushed = got /\ o.raised = out[c].raised
    BY <1>6, <2>3, PutPushed
  <2>6. out' = [out EXCEPT ![c] = o]
    BY <1>13 DEF AwaitPush
  <2>4. ASSUME Undisturbed(c) PROVE Answered(c)'
    <3>1. PICK n \in 0..result_count : out[c].pushed = Values(n)
      BY <1>2, <2>1, <2>4 DEF WInv, Answered
    <3>2. n = Pushed(c)
      BY <3>1 DEF Pushed, Values
    <3>3. results[n + 1] = "value"
      BY <1>6, <1>18, <2>1, <2>4, <3>2 DEF Prefix
    <3>4. out'[c].pushed = Values(n + 1) /\ out'[c].raised = out[c].raised
      <4>1. got = Append(Values(n), "value")
        BY <3>1, <3>2, <3>3
      <4>2. out'[c] = o
        BY <1>7, <2>5, <2>6
      <4> QED
        BY <2>5, <4>1, <4>2, OneMore
    <3> QED
      BY <1>1, <1>2, <1>6, <1>9, <2>1, <2>4, <3>2, <3>4 DEF Answered, WInv, Values
  <2> QED
    <3>1. call[c] = "await"
      BY <2>1 DEF IInv, Places, AwaitPlaces
    <3> QED
      BY <1>7, <1>8, <1>19, <2>4, <2>5, <2>6, <3>1
<1>14. CASE AwaitPushed(c)
  <2>1. out' = out /\ pc[c] = "a_push" /\ pc'[c] = "a_null" /\ Len(out[c].pushed) >= result_count
    BY <1>14 DEF AwaitPushed, Pushed, IInv, Places
  <2>2. ASSUME Undisturbed(c) PROVE Answered(c)'
    <3>1. PICK n \in 0..result_count : out[c].pushed = Values(n)
      BY <1>2, <2>1, <2>2 DEF WInv, Answered
    <3>2. n = result_count
      BY <1>6, <2>1, <3>1 DEF Values
    <3> QED
      BY <1>1, <1>2, <1>9, <2>1, <2>2, <3>1, <3>2 DEF Answered, WInv, Values
  <2> QED
    <3>1. call[c] = "await"
      BY <2>1 DEF IInv, Places, AwaitPlaces
    <3> QED
      BY <1>6, <1>8, <1>19, <2>1, <2>2, <3>1
<1>15. CASE AwaitNull(c)
  <2> DEFINE got == IF result_count = 0 THEN Append(out[c].pushed, "null") ELSE out[c].pushed
             o == [out[c] EXCEPT !.pushed = got]
  <2>1. got \in Seq({"value", "null"})
    BY <1>6 DEF Outs
  <2>5. o \in Outs /\ o.pushed = got /\ o.raised = out[c].raised
    BY <1>6, <2>1, PutPushed
  <2>2. out' = [out EXCEPT ![c] = o]
    <3>1. CASE result_count = 0
      BY <1>15, <3>1 DEF AwaitNull
    <3>2. CASE result_count # 0
      <4>1. o = out[c]
        BY <1>6, <3>2 DEF Outs
      <4> QED
        BY <1>6, <1>15, <3>2, <4>1 DEF AwaitNull
    <3> QED
      BY <3>1, <3>2
  <2>3. pc[c] = "a_null" /\ pc'[c] = "a_ret" /\ call[c] = "await"
    BY <1>15 DEF AwaitNull, IInv, Places, AwaitPlaces
  <2>4. ASSUME Undisturbed(c) PROVE Answered(c)'
    <3>1. out[c].pushed = Values(result_count) /\ state = "done" /\ ~out[c].raised
      BY <1>2, <2>3, <2>4 DEF WInv, Answered
    <3>2. result_count = 0 <=> finish.n = 0
      BY <1>18, <1>11, <2>4, <3>1 DEF Kept
    <3>3. o.pushed = Expected(c) /\ ~o.raised
      <4>1. CASE result_count = 0
        BY <2>3, <2>5, <3>1, <3>2, <4>1 DEF Expected, Values
      <4>2. CASE result_count # 0
        BY <1>18, <2>3, <2>4, <2>5, <3>1, <3>2, <4>2 DEF Expected, Values
      <4> QED
        BY <4>1, <4>2
    <3> QED
      BY <1>1, <1>7, <1>9, <1>11, <2>5, <2>2, <2>3, <2>4, <3>1, <3>3 DEF Answered
  <2> QED
    BY <1>7, <1>8, <1>19, <2>2, <2>3, <2>4, <2>5
<1>16. CASE AwaitRet(c)
  <2> DEFINE o == [out[c] EXCEPT !.ret = IF result_count > 0 THEN result_count ELSE 1]
  <2>1. o \in Outs
    BY <1>6 DEF Outs
  <2>2. out' = [out EXCEPT ![c] = o]
    BY <1>16 DEF AwaitRet
  <2>3. pc[c] = "a_ret" /\ pc'[c] = "ended" /\ call[c] = "await"
    BY <1>16 DEF AwaitRet, IInv, Places, AwaitPlaces
  <2>4. ASSUME Undisturbed(c) PROVE Answered(c)'
    <3>1. out[c].pushed = Expected(c) /\ state = "done" /\ ~out[c].raised
      BY <1>2, <2>3, <2>4 DEF WInv, Answered
    <3>2. Len(Expected(c)) = IF result_count > 0 THEN result_count ELSE 1
      BY <1>18, <1>11, <2>3, <2>4, <3>1 DEF Expected, Kept
    <3>3. o.pushed = Expected(c) /\ ~o.raised /\ o.ret = Len(Expected(c))
      BY <1>6, <3>1, <3>2 DEF Outs
    <3> QED
      BY <1>1, <1>7, <1>9, <1>11, <2>1, <2>2, <2>3, <2>4, <3>1, <3>3 DEF Answered
  <2> QED
    BY <1>7, <1>8, <1>19, <2>1, <2>2, <2>3, <2>4
<1>17. CASE Join(c)
  <2> DEFINE got == IF state = "done" THEN SubSeq(results, 1, result_count) ELSE <<"null">>
             o == [out[c] EXCEPT !.pushed = got, !.ret = Len(got)]
  <2>1. /\ SubSeq(results, 1, result_count) \in Seq({"value", "null"})
        /\ Len(SubSeq(results, 1, result_count)) = result_count
        /\ \A i \in 1..result_count : SubSeq(results, 1, result_count)[i] = results[i]
    BY <1>6, SubSeqProperties
  <2>2. got \in Seq({"value", "null"}) /\ Len(got) \in Nat
    <3>1. CASE state = "done"
      BY <1>6, <2>1, <3>1
    <3>2. CASE state # "done"
      <4>1. got = <<"null">>
        BY <3>2
      <4>2. <<"null">> \in Seq({"value", "null"}) /\ Len(<<"null">>) = 1
        OBVIOUS
      <4> HIDE DEF got
      <4> QED
        BY <4>1, <4>2
    <3> QED
      BY <3>1, <3>2
  <2>3. o \in Outs /\ o.pushed = got /\ o.ret = Len(got) /\ o.raised = out[c].raised
    <3> HIDE DEF got
    <3> QED
      BY <1>6, <2>2 DEF Outs
  <2>4. out' = [out EXCEPT ![c] = o]
    BY <1>17 DEF Join
  <2>5. pc[c] = "join" /\ pc'[c] = "ended" /\ call[c] = "join"
    BY <1>17 DEF Join, IInv, Places
  <2>6. ~out[c].raised
    BY <1>2, <2>5 DEF WInv, Fresh
  <2>7. o.pushed = got /\ o.ret = Len(got) /\ ~o.raised
    BY <2>3, <2>6
  <2>8. state = "done" => got = Expected(c)
    <3> SUFFICES ASSUME state = "done" PROVE got = Expected(c)
      OBVIOUS
    <3>1. results = Prefix(result_count) /\ result_count = Kept
      BY <1>10 DEF IInv, Ended
    <3>2. got = Values(result_count)
      BY <1>6, <2>1, <3>1 DEF Prefix, Values
    <3> QED
      BY <2>5, <3>1, <3>2 DEF Expected, Values
  <2>9. out'[c] = o
    BY <1>7, <2>3, <2>4
  <2>10. JoinIsWhole(c)'
    <3>1. got = <<"null">> \/ (state = "done" /\ got = Expected(c))
      BY <2>8
    <3> HIDE DEF o, got
    <3> QED
      BY <1>1, <1>11, <2>7, <2>9, <3>1 DEF JoinIsWhole
  <2>11. ASSUME Undisturbed(c) PROVE Answered(c)'
    <3>1. state = "done" \/ (state = "error" /\ got = <<"null">>)
      BY <1>18, <2>11
    <3> HIDE DEF o, got
    <3> QED
      BY <1>1, <1>9, <1>11, <2>5, <2>7, <2>8, <2>9, <2>11, <3>1 DEF Answered
  <2> QED
    BY <1>7, <1>8, <2>3, <2>4, <2>10, <2>11
<1> QED
  BY <1>12, <1>13, <1>14, <1>15, <1>16, <1>17

LEMMA InitWInv == Init => WInv
<1> SUFFICES ASSUME Init PROVE WInv
  OBVIOUS
<1>1. results = Prefix(0)
  BY DEF Init, Prefix
<1> QED
  BY <1>1 DEF Init, WInv, Copying, Past, Fresh, Answered, Waits, NobodyCancels, Undisturbed,
               JoinIsWhole, WaitPlaces

(* The steps that publish touch nothing that a client owns. *)
LEMMA BodyKeepsWInv ==
  ASSUME IInv, WInv, MarkRunning \/ BodyEnds \/ Publish
  PROVE  WInv'
<1> USE DEF Publish, Goto, GotoWaking, Woken, shared, local
<1>1. out' = out /\ call' = call /\ NobodyCancels' = NobodyCancels
  BY DEF MarkRunning, BodyEnds, PublishBegin, PublishCopy, PublishEnd, PickCallback, FireCallback,
         NobodyCancels
<1>2. \A c \in Clients : pc'[c] = pc[c] \/ (pc[c] = "w_sleep" /\ pc'[c] = "w_wake")
  <2>1. CASE PublishEnd
    BY <2>1 DEF IInv, Places, PublishEnd
  <2>2. CASE MarkRunning \/ BodyEnds \/ PublishBegin \/ PublishCopy \/ PickCallback \/ FireCallback
    BY <2>2 DEF IInv, Places, MarkRunning, BodyEnds, PublishBegin, PublishCopy, PickCallback,
                FireCallback
  <2> QED
    BY <2>1, <2>2
<1>3. Copying'
  <2>1. PICK k \in 0..result_count : results = Prefix(k) /\ (Past => k = result_count)
    BY DEF WInv, Copying
  <2>2. k \in 0..MaxResults /\ result_count \in 0..MaxResults /\ Copied = k
    BY <2>1, CopiedPrefix DEF IInv, TypeOK
  <2>3. CASE PublishCopy
    <3>1. results' = Prefix(k + 1) /\ k + 1 \in 0..result_count
      BY <2>1, <2>2, <2>3 DEF PublishCopy, Prefix
    <3>2. ~Past
      BY <2>3 DEF PublishCopy, Past
    <3> QED
      BY <2>3, <3>1, <3>2 DEF PublishCopy, WInv, Copying, Past, Kept, Prefix
  <2>4. CASE PublishEnd
    <3>1. k = result_count /\ pc[Body] = "copy" /\ pc'[Body] = "final"
      BY <2>2, <2>4 DEF PublishEnd, IInv, Places
    <3>2. UNCHANGED <<result_count, results, finish>> /\ results' = Prefix(result_count)'
      BY <2>1, <2>4, <3>1 DEF PublishEnd, Prefix
    <3> QED
      BY <3>1, <3>2 DEF IInv, TypeOK, WInv, Copying, Past, Kept
  <2>5. CASE MarkRunning
    BY <2>1, <2>5 DEF MarkRunning, IInv, Places, BodyPlaces, WInv, Copying, Past, Kept, Prefix
  <2>6. CASE BodyEnds
    BY <2>1, <2>6 DEF BodyEnds, IInv, Places, BodyPlaces, WInv, Copying, Past, Kept, Prefix
  <2>7. CASE PublishBegin
    <3>1. k = 0
      BY <2>1, <2>7 DEF PublishBegin, WInv, Copying, IInv, TypeOK
    <3>2. result_count' \in 0..MaxResults /\ results' = Prefix(0)' /\ ~Past'
      BY <2>1, <2>2, <2>7, <3>1 DEF PublishBegin, IInv, Ended, Places, Prefix, Past
    <3> QED
      BY <2>7, <3>2 DEF PublishBegin, IInv, Places, Ended, WInv, Copying, Past, Kept
  <2>8. CASE PickCallback \/ FireCallback
    <3>1. UNCHANGED <<result_count, results, finish>> /\ Past /\ Past'
      BY <2>8 DEF PickCallback, FireCallback, IInv, Places, Past
    <3>2. pc'[Body] \in {"fire", "exit"} /\ pc[Body] \in {"final", "fire"}
      BY <2>8 DEF PickCallback, FireCallback, IInv, Places
    <3> QED
      BY <2>1, <3>1, <3>2 DEF WInv, Copying, Kept, Prefix
  <2> QED
    BY <2>3, <2>4, <2>5, <2>6, <2>7, <2>8
<1>4. \A c \in Clients : Fresh(c)'
  BY <1>1, <1>2 DEF WInv, Fresh, Waits, WaitPlaces
<1>5. ASSUME NobodyCancels PROVE state' # "cancelled"
  BY <1>5 DEF WInv, IInv, Ended, MarkRunning, BodyEnds, PublishBegin, PublishCopy, PublishEnd,
              PickCallback, FireCallback
<1>6. ASSUME Past PROVE UNCHANGED <<state, result_count, finish, straddled>> /\ Past'
  BY <1>6 DEF Past, IInv, Places, MarkRunning, BodyEnds, PublishBegin, PublishCopy, PublishEnd,
              PickCallback, FireCallback
<1>7. ASSUME NEW c \in Clients PROVE JoinIsWhole(c)'
  <2> SUFFICES ASSUME call[c] = "join", pc[c] = "ended"
               PROVE  out[c].pushed = <<"null">> \/ (state' = "done" /\ out[c].pushed = Expected(c)')
    BY <1>1, <1>2 DEF JoinIsWhole
  <2>1. CASE state = "done"
    <3>1. UNCHANGED <<state, finish>>
      BY <1>6, <2>1 DEF IInv, Ended
    <3> QED
      BY <1>1, <2>1, <3>1 DEF WInv, JoinIsWhole, Expected, Kept
  <2> QED
    BY <2>1 DEF WInv, JoinIsWhole
<1>8. pc'[Body] # "start"
  BY DEF IInv, Places, MarkRunning, BodyEnds, PublishBegin, PublishCopy, PublishEnd, PickCallback,
         FireCallback
<1>9. ASSUME NEW c \in Clients, Waits(c), Undisturbed(c)'
      PROVE  Answered(c)'
  <2>1. Undisturbed(c)
    <3>1. CASE MarkRunning
      BY <1>1, <1>9, <3>1 DEF MarkRunning, WInv, Undisturbed
    <3>2. CASE BodyEnds \/ Publish
      BY <1>1, <1>9, <3>2 DEF BodyEnds, PublishBegin, PublishCopy, PublishEnd, PickCallback,
                              FireCallback, Undisturbed
    <3> QED
      BY <3>1, <3>2
  <2>2. Answered(c) /\ call'[c] = call[c]
    BY <1>1, <1>9, <2>1 DEF WInv
  <2>3. CASE Past
    <3>1. UNCHANGED <<state, result_count, finish>> /\ Past'
      BY <1>6, <2>3
    <3>2. Expected(c)' = Expected(c)
      BY <2>2, <3>1 DEF Expected, Kept
    <3> QED
      BY <1>1, <1>2, <2>2, <3>1, <3>2 DEF Answered, Values
  <2>4. CASE ~Past
    <3>1. pc[c] \notin {"w_unlock", "await", "join", "a_push", "a_null", "a_ret", "ended"}
      BY <2>2, <2>4 DEF Answered
    <3>2. pc[c] # "w_pending"
      <4>1. CASE MarkRunning
        BY <1>9, <4>1 DEF MarkRunning, Undisturbed
      <4>2. CASE BodyEnds \/ Publish
        BY <2>2, <2>4, <4>2 DEF Answered, BodyEnds, PublishBegin, PublishCopy, PublishEnd,
                                PickCallback, FireCallback, IInv, Places, Ended
      <4> QED
        BY <4>1, <4>2
    <3> QED
      BY <1>2, <3>1, <3>2 DEF Answered
  <2> QED
    BY <2>3, <2>4
<1> QED
  BY <1>1, <1>3, <1>4, <1>5, <1>7, <1>8, <1>9 DEF WInv, Waits

(* A wait leaves its loop only after the end, unless it was straddled. *)
LEMMA WaitKeepsWInv ==
  ASSUME IInv, WInv, NEW c \in Clients, WaitCall(c) \/ Wait(c) \/ WaitSpurious(c)
  PROVE  WInv'
<1> USE DEF Wait, Goto, shared, local
<1>1. /\ UNCHANGED <<state, result_count, results, finish, call, out, straddled>>
      /\ pc'[Body] = pc[Body]
      /\ \A d \in Clients \ {c} : pc'[d] = pc[d]
  BY DEF IInv, Places, WaitCall, WaitTestRunning, WaitTestPending, WaitBlock, WaitRelock, WaitReturn,
         WaitSpurious
<1>2. Copying'
  BY <1>1 DEF WInv, Copying, Past, Kept, Prefix
<1>3. \A d \in Clients \ {c} :
        Fresh(d)' /\ JoinIsWhole(d)' /\ (Waits(d)' /\ Undisturbed(d)' => Answered(d)')
  BY <1>1, OthersAnswered DEF WInv
<1>4. Waits(c) /\ pc[c] \in {"idle"} \cup WaitPlaces
  BY DEF IInv, Places, Waits, WaitPlaces, WaitCall, WaitTestRunning, WaitTestPending, WaitBlock,
         WaitRelock, WaitReturn, WaitSpurious
<1>5. pc'[c] \in WaitPlaces \cup {"await", "join"}
  BY <1>4 DEF IInv, Places, Waits, WaitPlaces, WaitCall, WaitTestRunning, WaitTestPending, WaitBlock,
              WaitRelock, WaitReturn, WaitSpurious
<1>6. Fresh(c)' /\ JoinIsWhole(c)'
  BY <1>1, <1>4, <1>5 DEF WInv, Fresh, JoinIsWhole, Waits, WaitPlaces
<1>7. ASSUME Undisturbed(c) PROVE Answered(c)'
  <2>1. state # "cancelled" /\ Answered(c)
    BY <1>4, <1>7 DEF WInv, Undisturbed
  <2>2. state = "pending" \/ state = "running" \/ Past
    BY <2>1 DEF IInv, TypeOK, States, Ended
  <2>3. pc'[c] = "w_pending" => Past \/ state = "pending"
    BY <1>4, <2>2 DEF IInv, Places, WaitPlaces, WaitCall, WaitTestRunning, WaitTestPending, WaitBlock,
                      WaitRelock, WaitReturn, WaitSpurious, Waits
  <2>4. pc'[c] \in {"w_unlock", "await", "join"} => Past
    BY <2>1, <2>2 DEF Answered, IInv, Places, WaitCall, WaitTestRunning, WaitTestPending, WaitBlock,
                      WaitRelock, WaitReturn, WaitSpurious
  <2> QED
    BY <1>1, <1>5, <2>3, <2>4 DEF Answered, WaitPlaces, Past
<1>8. NobodyCancels' = NobodyCancels /\ Undisturbed(c)' = Undisturbed(c)
  BY <1>1 DEF NobodyCancels, Undisturbed
<1> QED
  BY <1>1, <1>2, <1>3, <1>6, <1>7, <1>8 DEF WInv

(* cancel, then and catch do not concern a wait, as long as nobody cancels. *)
LEMMA OthersKeepWInv ==
  ASSUME IInv, WInv, NEW c \in Clients,
         CancelPending(c) \/ CancelRunning(c) \/ CancelWake(c) \/ Then(c) \/ Catch(c) \/ CallNow(c)
  PROVE  WInv'
<1> USE DEF Goto, GotoWaking, Woken, shared, local
<1>1. /\ UNCHANGED <<result_count, results, finish, call, out, straddled>> /\ pc'[Body] = pc[Body]
      /\ \A d \in Clients \ {c} : pc'[d] = pc[d] \/ (pc[d] = "w_sleep" /\ pc'[d] = "w_wake")
  <2>1. CASE CancelWake(c)
    BY <2>1 DEF IInv, Places, BodyPlaces, CancelWake
  <2>2. CASE CancelPending(c) \/ CancelRunning(c) \/ Then(c) \/ Catch(c) \/ CallNow(c)
    BY <2>2 DEF IInv, Places, CancelPending, CancelRunning, Then, Catch, CallNow
  <2> QED
    BY <2>1, <2>2
<1>2. ~Waits(c) /\ ~Waits(c)'
  BY <1>1 DEF IInv, Places, Registered, Waits, CancelPending, CancelRunning, CancelWake, Then, Catch,
              CallNow
<1>3. Copying'
  BY <1>1 DEF WInv, Copying, Past, Kept, Prefix
<1>4. \A d \in Clients : Fresh(d)'
  BY <1>1, <1>2 DEF WInv, Fresh, Waits, WaitPlaces
<1>5. ASSUME NobodyCancels' PROVE NobodyCancels /\ state' = state
  BY <1>1, <1>5 DEF NobodyCancels, IInv, Places, CancelPending, CancelRunning, CancelWake, Then, Catch,
                CallNow
<1>6. ASSUME NEW d \in Clients, Waits(d), Undisturbed(d)' PROVE Answered(d)'
  <2>1. d # c /\ Undisturbed(d) /\ state' = state
    BY <1>1, <1>2, <1>5, <1>6 DEF Undisturbed
  <2>2. Answered(d) /\ Past' = Past /\ Expected(d)' = Expected(d)
    BY <1>1, <1>6, <2>1 DEF WInv, Past, Expected, Kept
  <2> QED
    BY <1>1, <2>1, <2>2 DEF Answered, Values
<1>7. ASSUME NEW d \in Clients PROVE JoinIsWhole(d)'
  <2>1. state = "done" => state' = "done"
    BY DEF CancelPending, CancelRunning, CancelWake, Then, Catch, CallNow
  <2>2. Expected(d)' = Expected(d)
    BY <1>1 DEF Expected, Kept
  <2> QED
    BY <1>1, <1>2, <2>1, <2>2 DEF WInv, JoinIsWhole, Waits
<1>8. NobodyCancels' => state' # "cancelled"
  BY <1>5 DEF WInv
<1> QED
  BY <1>1, <1>3, <1>4, <1>6, <1>7, <1>8 DEF WInv, Waits

LEMMA StepWInv == IInv /\ WInv /\ [Next]_vars => WInv'
<1> SUFFICES ASSUME IInv, WInv, [Next]_vars PROVE WInv'
  OBVIOUS
<1>1. CASE MarkRunning \/ BodyEnds \/ Publish
  BY <1>1, BodyKeepsWInv
<1>2. ASSUME NEW c \in Clients, Client(c) \/ WaitSpurious(c) PROVE WInv'
  BY <1>2, AwaitKeepsWInv, WaitKeepsWInv, OthersKeepWInv DEF Client
<1>3. CASE UNCHANGED vars
  <2> USE <1>3 DEF vars, shared, local
  <2>1. Copying'
    BY DEF WInv, Copying, Past, Kept, Prefix
  <2>2. \A c \in Clients :
          Fresh(c)' /\ JoinIsWhole(c)' /\ (Waits(c)' /\ Undisturbed(c)' => Answered(c)')
    BY OthersAnswered DEF WInv
  <2>3. NobodyCancels' => state' # "cancelled"
    BY DEF WInv, NobodyCancels
  <2> QED
    BY <2>1, <2>2, <2>3 DEF WInv
<1> QED
  BY ONLY [Next]_vars, <1>1, <1>2, <1>3 DEF Next, Terminated

(* Every await and join on a thread nobody cancels, whenever it begins,    *)
(* returns after the end of the body with all of its results or its error  *)
(* (OP_AWAIT reads the count three times and gets one value), unless the   *)
(* trampoline stored RUNNING between its two loads of state; and a join    *)
(* never yields a part of the results, whatever it races with.             *)
THEOREM WholeResults == Spec => []WaitersSeeAllResults
<1>1. Init => IInv /\ WInv
  BY InitIInv, InitWInv
<1>2. IInv /\ WInv /\ [Next]_vars => IInv' /\ WInv'
  BY StepIInv, StepWInv
<1>3. IInv /\ WInv => WaitersSeeAllResults
  <2> SUFFICES ASSUME IInv, WInv, NEW c \in Clients, pc[c] = "ended"
               PROVE  /\ Waits(c) /\ Undisturbed(c) => SeesTheEnd(c)
                      /\ call[c] = "join" => out[c].pushed \in {<<"null">>, Expected(c)}
    BY DEF WaitersSeeAllResults, Waits, Undisturbed
  <2>1. Waits(c) /\ Undisturbed(c) => SeesTheEnd(c)
    BY DEF WInv, Answered, IInv, Ended, SeesTheEnd
  <2>2. call[c] = "join" => out[c].pushed \in {<<"null">>, Expected(c)}
    BY DEF WInv, JoinIsWhole
  <2> QED
    BY <2>1, <2>2
<1> QED
  BY <1>1, <1>2, <1>3, PTL DEF Spec
=============================================================================
