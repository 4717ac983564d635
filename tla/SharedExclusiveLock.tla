------------------------ MODULE SharedExclusiveLock ------------------------
(***************************************************************************)
(* What source/core/lock.h promises its callers: a shared lock that many   *)
(* threads hold at once, an exclusive lock that excludes every other       *)
(* holder and that its owner may take again.  No spinning, no counters:    *)
(* each acquire and release is one step.                                   *)
(***************************************************************************)
EXTENDS Naturals

CONSTANT Threads

VARIABLES
  shared,    (* how many times each thread holds the shared lock           *)
  exclusive  (* how many times each thread holds the exclusive lock        *)

avars == <<shared, exclusive>>

Init ==
  /\ shared = [t \in Threads |-> 0]
  /\ exclusive = [t \in Threads |-> 0]

(* Blocked while any exclusive lock is held. *)
AcquireShared(t) ==
  /\ \A u \in Threads : exclusive[u] = 0
  /\ shared' = [shared EXCEPT ![t] = @ + 1]
  /\ UNCHANGED exclusive

ReleaseShared(t) ==
  /\ shared[t] > 0
  /\ shared' = [shared EXCEPT ![t] = @ - 1]
  /\ UNCHANGED exclusive

(* Blocked while any shared lock is held, or another exclusive lock. *)
AcquireExclusive(t) ==
  /\ \A u \in Threads : shared[u] = 0
  /\ \A u \in Threads \ {t} : exclusive[u] = 0
  /\ exclusive' = [exclusive EXCEPT ![t] = @ + 1]
  /\ UNCHANGED shared

ReleaseExclusive(t) ==
  /\ exclusive[t] > 0
  /\ exclusive' = [exclusive EXCEPT ![t] = @ - 1]
  /\ UNCHANGED shared

Next ==
  \E t \in Threads :
    \/ AcquireShared(t) \/ ReleaseShared(t)
    \/ AcquireExclusive(t) \/ ReleaseExclusive(t)

Spec == Init /\ [][Next]_avars

=============================================================================
