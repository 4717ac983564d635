---------------------------- MODULE RWLockProofs ----------------------------
(***************************************************************************)
(* Proofs about the spin lock for every set of threads: type correctness,  *)
(* mutual exclusion, the assertions of lock.c, the depth counter, and that *)
(* the lock implements SharedExclusiveLock.  IInv is inductive: the reader *)
(* count is tied to the holdings through the set ReadTokens, which each    *)
(* step changes by at most one element.                                    *)
(***************************************************************************)
EXTENDS RWLock, FiniteSetTheorems, TLAPS

-----------------------------------------------------------------------------
(* How the set of tokens changes. *)

(* A step that changes neither which readers are undecided nor how many    *)
(* read locks each thread holds leaves the tokens alone: every step of     *)
(* cando_lock_write_acquire and cando_lock_write_release.                  *)
LEMMA TokensUnchanged ==
  ASSUME Undecided' = Undecided, rheld' = rheld
  PROVE  ReadTokens' = ReadTokens
BY DEF ReadTokens, HeldTokens

(* Announcing adds the undecided token of the thread. *)
LEMMA TokensAnnounce ==
  ASSUME TypeOK, NEW t \in Threads, ReadAnnounce(t)
  PROVE  /\ <<t, 0>> \notin ReadTokens
         /\ ReadTokens' = ReadTokens \cup {<<t, 0>>}
<1>1. Undecided' = Undecided \cup {t} /\ t \notin Undecided
  BY DEF ReadAnnounce, Goto, TypeOK, Undecided
<1>2. rheld' = rheld
  BY DEF ReadAnnounce
<1>3. \A u \in Threads : <<t, 0>> \notin {u} \X (1..rheld[u])
  BY DEF TypeOK
<1> QED
  BY <1>1, <1>2, <1>3 DEF ReadTokens, HeldTokens

(* A successful re-check replaces the undecided token by the next one.     *)
LEMMA TokensSucceed ==
  ASSUME TypeOK, NEW t \in Threads, ReadSucceed(t)
  PROVE  /\ <<t, 0>> \in ReadTokens
         /\ <<t, rheld[t] + 1>> \notin ReadTokens
         /\ ReadTokens' = (ReadTokens \ {<<t, 0>>})
                             \cup {<<t, rheld[t] + 1>>}
<1>1. Undecided' = Undecided \ {t} /\ t \in Undecided
  BY DEF ReadSucceed, Goto, TypeOK, Undecided
<1>2. /\ rheld[t] \in Nat
      /\ rheld'[t] = rheld[t] + 1
      /\ \A u \in Threads \ {t} : rheld'[u] = rheld[u]
  BY DEF ReadSucceed, TypeOK
<1>3. 1..rheld'[t] = (1..rheld[t]) \cup {rheld[t] + 1}
  BY <1>2
<1>4. \A u \in Threads : 0 \notin 1..rheld[u]
  BY DEF TypeOK
<1>5. ReadTokens' = ((Undecided \ {t}) \X {0}) \cup HeldTokens'
  BY <1>1 DEF ReadTokens
<1>6. HeldTokens' = HeldTokens \cup {<<t, rheld[t] + 1>>}
  BY <1>2, <1>3 DEF HeldTokens
<1>7. rheld[t] + 1 \notin 1..rheld[t] /\ rheld[t] + 1 # 0
  BY <1>2
<1>8. /\ <<t, 0>> \in ReadTokens
      /\ <<t, rheld[t] + 1>> \notin ReadTokens
  BY <1>1, <1>7 DEF ReadTokens, HeldTokens
<1> QED
  BY <1>1, <1>4, <1>5, <1>6, <1>7, <1>8 DEF ReadTokens, HeldTokens

(* Backing off removes the undecided token. *)
LEMMA TokensBackOff ==
  ASSUME TypeOK, NEW t \in Threads, ReadBackOff(t)
  PROVE  /\ <<t, 0>> \in ReadTokens
         /\ ReadTokens' = ReadTokens \ {<<t, 0>>}
<1>1. Undecided' = Undecided \ {t} /\ t \in Undecided
  BY DEF ReadBackOff, Goto, TypeOK, Undecided
<1>2. rheld' = rheld
  BY DEF ReadBackOff
<1>3. \A u \in Threads : 0 \notin 1..rheld[u]
  BY DEF TypeOK
<1> QED
  BY <1>1, <1>2, <1>3 DEF ReadTokens, HeldTokens

(* Releasing a read lock removes the last token of the thread.             *)
LEMMA TokensRelease ==
  ASSUME TypeOK, NEW t \in Threads, ReadRelease(t)
  PROVE  /\ <<t, rheld[t]>> \in ReadTokens
         /\ ReadTokens' = ReadTokens \ {<<t, rheld[t]>>}
<1>1. Undecided' = Undecided
  BY DEF ReadRelease, Undecided
<1>2. /\ rheld[t] \in Nat \ {0}
      /\ rheld'[t] = rheld[t] - 1
      /\ \A u \in Threads \ {t} : rheld'[u] = rheld[u]
  BY DEF ReadRelease, TypeOK
<1>3. /\ 1..rheld'[t] = (1..rheld[t]) \ {rheld[t]}
      /\ rheld[t] \in 1..rheld[t]
      /\ rheld[t] # 0
  BY <1>2
<1>4. HeldTokens' = HeldTokens \ {<<t, rheld[t]>>}
  BY <1>2, <1>3 DEF HeldTokens
<1> QED
  BY <1>1, <1>3, <1>4 DEF ReadTokens, HeldTokens

-----------------------------------------------------------------------------
(* Each conjunct of the inductive invariant. *)

LEMMA TypeOKInit == Init => TypeOK
BY RWLockAssumption DEF Init, TypeOK, PCs

LEMMA TokensInit == Init => ReadersCountTokens
<1> SUFFICES ASSUME Init PROVE ReadersCountTokens
  OBVIOUS
<1>1. ReadTokens = {}
  BY DEF Init, ReadTokens, HeldTokens, Undecided
<1> QED
  BY <1>1, FS_EmptySet DEF Init, ReadersCountTokens

(* Counters only go down when the thread's own token proves them positive. *)
LEMMA TypeOKStep ==
  ASSUME IInv, [Next]_vars
  PROVE  TypeOK'
<1> USE DEF IInv, TypeOK, PCs, Goto
<1>1. ASSUME NEW t \in Threads, ReadTokens # {}
      PROVE  readers - 1 \in Nat
  <2>1. Cardinality(ReadTokens) \in Nat /\ Cardinality(ReadTokens) # 0
    BY <1>1, FS_CardinalityType, FS_EmptySet DEF ReadersCountTokens
  <2> QED
    BY <2>1 DEF ReadersCountTokens
<1>2. ASSUME NEW t \in Threads, Call(t)
      PROVE  TypeOK'
  BY <1>2 DEF Call, ReadCall, WriteCall
<1>3. ASSUME NEW t \in Threads, Inside(t)
      PROVE  TypeOK'
  <2>1. CASE ReadBackOff(t)
    <3>1. readers - 1 \in Nat
      BY <1>1, <2>1, TokensBackOff
    <3> QED
      BY <2>1, <3>1 DEF ReadBackOff
  <2>2. CASE ReadWait(t) \/ ReadAnnounce(t) \/ ReadSucceed(t)
               \/ ReadRefused(t)
    BY <2>2 DEF ReadWait, ReadAnnounce, ReadSucceed, ReadRefused
  <2>3. CASE WriteReenter(t) \/ WriteFirst(t) \/ WriteClaim(t)
               \/ WriteDrained(t) \/ WriteEnter(t) \/ WriteClear(t)
    BY <2>3 DEF WriteReenter, WriteFirst, WriteClaim, WriteDrained,
                WriteEnter, WriteClear
  <2> QED
    BY <1>3, <2>1, <2>2, <2>3 DEF Inside
<1>4. ASSUME NEW t \in Threads, ReadRelease(t)
      PROVE  TypeOK'
  <2>1. readers - 1 \in Nat
    BY <1>1, <1>4, TokensRelease
  <2> QED
    BY <1>4, <2>1 DEF ReadRelease
<1>5. ASSUME NEW t \in Threads, WriteRelease(t)
      PROVE  TypeOK'
  <2>1. write_depth = wheld[t]
    BY <1>5 DEF WriteRelease, OwnerInLockId, Owns
  <2> QED
    BY <1>5, <2>1 DEF WriteRelease
<1>6. CASE UNCHANGED vars
  BY <1>6 DEF vars
<1> QED
  BY <1>2, <1>3, <1>4, <1>5, <1>6 DEF Next, Release

(* The reader count follows the set of tokens. *)
LEMMA TokensStep ==
  ASSUME IInv, [Next]_vars
  PROVE  ReadersCountTokens'
<1> USE DEF IInv
<1>0. Cardinality(ReadTokens) \in Nat
  BY FS_CardinalityType DEF ReadersCountTokens
<1>1. ASSUME Undecided' = Undecided, rheld' = rheld, readers' = readers
      PROVE  ReadersCountTokens'
  BY <1>1, TokensUnchanged DEF ReadersCountTokens
<1>2. ASSUME NEW t \in Threads, Call(t)
      PROVE  ReadersCountTokens'
  BY <1>1, <1>2 DEF Call, ReadCall, WriteCall, Goto, TypeOK, Undecided
<1>3. ASSUME NEW t \in Threads, ReadAnnounce(t)
      PROVE  ReadersCountTokens'
  <2>1. readers' = readers + 1
    BY <1>3 DEF ReadAnnounce
  <2>2. /\ <<t, 0>> \notin ReadTokens
        /\ ReadTokens' = ReadTokens \cup {<<t, 0>>}
    BY <1>3, TokensAnnounce
  <2>3. /\ IsFiniteSet(ReadTokens')
        /\ Cardinality(ReadTokens') = Cardinality(ReadTokens) + 1
    BY <2>2, FS_AddElement DEF ReadersCountTokens
  <2> QED
    BY <2>1, <2>3 DEF ReadersCountTokens
<1>4. ASSUME NEW t \in Threads, ReadSucceed(t)
      PROVE  ReadersCountTokens'
  <2> DEFINE rest == ReadTokens \ {<<t, 0>>}
  <2>1. /\ <<t, 0>> \in ReadTokens
        /\ <<t, rheld[t] + 1>> \notin rest
        /\ ReadTokens' = rest \cup {<<t, rheld[t] + 1>>}
    BY <1>4, TokensSucceed
  <2>2. IsFiniteSet(rest) /\ Cardinality(rest) = Cardinality(ReadTokens) - 1
    BY <2>1, FS_RemoveElement DEF ReadersCountTokens
  <2> HIDE DEF rest
  <2>3. /\ IsFiniteSet(ReadTokens')
        /\ Cardinality(ReadTokens') = Cardinality(rest) + 1
    BY <2>1, <2>2, FS_AddElement
  <2>4. readers' = readers
    BY <1>4 DEF ReadSucceed
  <2> QED
    BY <1>0, <2>2, <2>3, <2>4 DEF ReadersCountTokens
<1>5. ASSUME NEW t \in Threads, ReadBackOff(t)
      PROVE  ReadersCountTokens'
  <2>1. readers' = readers - 1
    BY <1>5 DEF ReadBackOff
  <2>2. /\ <<t, 0>> \in ReadTokens
        /\ ReadTokens' = ReadTokens \ {<<t, 0>>}
    BY <1>5, TokensBackOff
  <2>3. /\ IsFiniteSet(ReadTokens')
        /\ Cardinality(ReadTokens') = Cardinality(ReadTokens) - 1
    BY <2>2, FS_RemoveElement DEF ReadersCountTokens
  <2> QED
    BY <2>1, <2>3 DEF ReadersCountTokens
<1>6. ASSUME NEW t \in Threads, ReadRelease(t)
      PROVE  ReadersCountTokens'
  <2>1. readers' = readers - 1
    BY <1>6 DEF ReadRelease
  <2>2. /\ <<t, rheld[t]>> \in ReadTokens
        /\ ReadTokens' = ReadTokens \ {<<t, rheld[t]>>}
    BY <1>6, TokensRelease
  <2>3. /\ IsFiniteSet(ReadTokens')
        /\ Cardinality(ReadTokens') = Cardinality(ReadTokens) - 1
    BY <2>2, FS_RemoveElement DEF ReadersCountTokens
  <2> QED
    BY <2>1, <2>3 DEF ReadersCountTokens
<1>7. ASSUME NEW t \in Threads,
             ReadWait(t) \/ ReadRefused(t) \/ WriteReenter(t)
               \/ WriteFirst(t) \/ WriteClaim(t) \/ WriteDrained(t)
               \/ WriteEnter(t) \/ WriteClear(t) \/ WriteRelease(t)
      PROVE  ReadersCountTokens'
  <2>1. readers' = readers /\ rheld' = rheld
    BY <1>7 DEF ReadWait, ReadRefused, WriteReenter, WriteFirst, WriteClaim,
                WriteDrained, WriteEnter, WriteClear, WriteRelease
  <2>2. Undecided' = Undecided
    BY <1>7 DEF ReadWait, ReadRefused, WriteReenter, WriteFirst, WriteClaim,
                WriteDrained, WriteEnter, WriteClear, WriteRelease,
                Goto, TypeOK, Undecided
  <2> QED
    BY <1>1, <2>1, <2>2
<1>8. CASE UNCHANGED vars
  BY <1>1, <1>8 DEF vars, Undecided
<1> QED
  BY <1>2, <1>3, <1>4, <1>5, <1>6, <1>7, <1>8 DEF Next, Inside, Release

(* No read lock is held when readers is 0. *)
LEMMA ZeroReaders ==
  ASSUME TypeOK, ReadersCountTokens, readers = 0
  PROVE  \A u \in Threads : rheld[u] = 0
<1>1. ReadTokens = {}
  BY FS_EmptySet DEF ReadersCountTokens
<1>2. ASSUME NEW u \in Threads, rheld[u] # 0
      PROVE  FALSE
  <2>1. 1 \in 1..rheld[u]
    BY <1>2 DEF TypeOK
  <2>2. <<u, 1>> \in ReadTokens
    BY <2>1 DEF ReadTokens, HeldTokens
  <2> QED
    BY <1>1, <2>2
<1> QED
  BY <1>2

(* lock_id names the one thread that has claimed the lock. *)
LEMMA OwnerStep ==
  ASSUME IInv, [Next]_vars
  PROVE  OwnerInLockId'
<1> USE RWLockAssumption DEF IInv, TypeOK, PCs, Goto, OwnerInLockId, Owns
<1>1. ASSUME NEW t \in Threads, Call(t)
      PROVE  OwnerInLockId'
  BY <1>1 DEF Call, ReadCall, WriteCall
<1>2. ASSUME NEW t \in Threads,
             ReadWait(t) \/ ReadAnnounce(t) \/ ReadSucceed(t)
               \/ ReadRefused(t) \/ ReadBackOff(t) \/ ReadRelease(t)
      PROVE  OwnerInLockId'
  BY <1>2 DEF ReadWait, ReadAnnounce, ReadSucceed, ReadRefused, ReadBackOff,
              ReadRelease
<1>3. ASSUME NEW t \in Threads, WriteReenter(t)
      PROVE  OwnerInLockId'
  BY <1>3 DEF WriteReenter
<1>4. ASSUME NEW t \in Threads, WriteFirst(t)
      PROVE  OwnerInLockId'
  BY <1>4 DEF WriteFirst
<1>5. ASSUME NEW t \in Threads, WriteClaim(t)
      PROVE  OwnerInLockId'
  BY <1>5 DEF WriteClaim
<1>6. ASSUME NEW t \in Threads, WriteDrained(t)
      PROVE  OwnerInLockId'
  BY <1>6 DEF WriteDrained
<1>7. ASSUME NEW t \in Threads, WriteEnter(t)
      PROVE  OwnerInLockId'
  BY <1>7 DEF WriteEnter
<1>8. ASSUME NEW t \in Threads, WriteRelease(t)
      PROVE  OwnerInLockId'
  BY <1>8 DEF WriteRelease
<1>9. ASSUME NEW t \in Threads, WriteClear(t)
      PROVE  OwnerInLockId'
  BY <1>9 DEF WriteClear
<1>10. CASE UNCHANGED vars
  BY <1>10 DEF vars
<1> QED
  BY <1>1, <1>2, <1>3, <1>4, <1>5, <1>6, <1>7, <1>8, <1>9, <1>10
     DEF Next, Inside, Release

(* A writer that got through the drain shares the object with no reader.   *)
LEMMA ExclusionStep ==
  ASSUME IInv, [Next]_vars
  PROVE  WriterExcludesReaders'
<1> USE RWLockAssumption DEF IInv, TypeOK, PCs, Goto, WriterExcludesReaders
<1>1. ASSUME NEW t \in Threads, Call(t)
      PROVE  WriterExcludesReaders'
  BY <1>1 DEF Call, ReadCall, WriteCall
<1>2. ASSUME NEW t \in Threads,
             ReadWait(t) \/ ReadAnnounce(t)
               \/ ReadRefused(t) \/ ReadBackOff(t) \/ ReadRelease(t)
      PROVE  WriterExcludesReaders'
  BY <1>2 DEF ReadWait, ReadAnnounce, ReadRefused, ReadBackOff, ReadRelease
<1>3. ASSUME NEW t \in Threads, ReadSucceed(t)
      PROVE  WriterExcludesReaders'
  <2>1. \A u \in Threads : wheld[u] = 0 /\ pc[u] # "w_depth"
    BY <1>3 DEF ReadSucceed, OwnerInLockId, Owns
  <2> QED
    BY <1>3, <2>1 DEF ReadSucceed
<1>4. ASSUME NEW t \in Threads, WriteReenter(t)
      PROVE  WriterExcludesReaders'
  <2>1. wheld[t] > 0
    BY <1>4 DEF WriteReenter, OwnerInLockId, Owns
  <2> QED
    BY <1>4, <2>1 DEF WriteReenter
<1>5. ASSUME NEW t \in Threads, WriteDrained(t)
      PROVE  WriterExcludesReaders'
  <2>1. \A u \in Threads : rheld[u] = 0
    BY <1>5, ZeroReaders DEF WriteDrained
  <2> QED
    BY <1>5, <2>1 DEF WriteDrained
<1>6. ASSUME NEW t \in Threads,
             WriteFirst(t) \/ WriteClaim(t) \/ WriteEnter(t)
               \/ WriteRelease(t) \/ WriteClear(t)
      PROVE  WriterExcludesReaders'
  BY <1>6 DEF WriteFirst, WriteClaim, WriteEnter, WriteRelease, WriteClear
<1>7. CASE UNCHANGED vars
  BY <1>7 DEF vars
<1> QED
  BY <1>1, <1>2, <1>3, <1>4, <1>5, <1>6, <1>7 DEF Next, Inside, Release

-----------------------------------------------------------------------------
(* The invariant, and what follows from it. *)

(* The inductive invariant of lock.c holds in every reachable state, for   *)
(* any set of threads and any nesting of calls.                            *)
THEOREM Invariance == Spec => []IInv
<1>1. Init => IInv
  <2> SUFFICES ASSUME Init PROVE IInv
    OBVIOUS
  <2>1. OwnerInLockId /\ WriterExcludesReaders
    BY RWLockAssumption DEF Init, OwnerInLockId, Owns, WriterExcludesReaders
  <2> QED
    BY <2>1, TypeOKInit, TokensInit DEF IInv
<1>2. IInv /\ [Next]_vars => IInv'
  BY TypeOKStep, TokensStep, OwnerStep, ExclusionStep DEF IInv
<1> QED
  BY <1>1, <1>2, PTL DEF Spec

(* The counters of the header keep their types: none of them goes below 0. *)
THEOREM TypeCorrect == Spec => []TypeOK
<1>1. IInv => TypeOK
  BY DEF IInv
<1> QED
  BY <1>1, Invariance, PTL

(* At most one thread has the exclusive lock, and then nobody reads: the   *)
(* announce/re-check of cando_lock_read_acquire against the claim/drain of *)
(* cando_lock_write_acquire.                                               *)
THEOREM Exclusion == Spec => []MutualExclusion
<1>1. IInv => MutualExclusion
  BY RWLockAssumption
     DEF IInv, TypeOK, OwnerInLockId, Owns, WriterExcludesReaders,
         MutualExclusion
<1> QED
  BY <1>1, Invariance, PTL

(* The assertions in cando_lock_read_release and cando_lock_write_release  *)
(* never fail.                                                             *)
THEOREM Assertions == Spec => []AssertionsHold
<1>1. IInv => AssertionsHold
  <2> SUFFICES ASSUME IInv, NEW t \in Threads
               PROVE  /\ wheld[t] > 0 => lock_id = t
                      /\ rheld[t] > 0 \/ pc[t] = "r_sub" => readers > 0
    BY DEF AssertionsHold
  <2>1. wheld[t] > 0 => lock_id = t
    BY DEF IInv, OwnerInLockId, Owns
  <2>2. ASSUME rheld[t] > 0 \/ pc[t] = "r_sub"
        PROVE  readers > 0
    <3>1. rheld[t] > 0 => <<t, 1>> \in ReadTokens
      <4>1. rheld[t] > 0 => 1 \in 1..rheld[t]
        BY DEF IInv, TypeOK
      <4> QED
        BY <4>1 DEF ReadTokens, HeldTokens
    <3>2. pc[t] = "r_sub" => <<t, 0>> \in ReadTokens
      BY DEF ReadTokens, Undecided
    <3>3. readers # 0 /\ readers \in Nat
      BY <2>2, <3>1, <3>2, FS_EmptySet DEF IInv, TypeOK, ReadersCountTokens
    <3> QED
      BY <3>3
  <2> QED
    BY <2>1, <2>2
<1> QED
  BY <1>1, Invariance, PTL

(* The depth counter equals the number of write locks the owner holds, so  *)
(* the lock opens on the outermost cando_lock_write_release and only then. *)
THEOREM Depth == Spec => []DepthMatchesHoldings
<1>1. IInv => DepthMatchesHoldings
  BY DEF IInv, OwnerInLockId, DepthMatchesHoldings
<1> QED
  BY <1>1, Invariance, PTL

(* The spin lock implements the shared/exclusive lock lock.h describes:    *)
(* each of its steps is an acquire, a release or invisible to callers.     *)
THEOREM Refinement == Spec => ImplementsLock
<1>1. Init => Promise!Init
  BY DEF Init, Promise!Init
<1>2. ASSUME IInv, [Next]_vars
      PROVE  [Promise!Next]_<<rheld, wheld>>
  <2>1. ASSUME NEW t \in Threads, ReadSucceed(t)
        PROVE  Promise!AcquireShared(t)
    BY <1>2, <2>1, RWLockAssumption
       DEF IInv, TypeOK, OwnerInLockId, Owns, ReadSucceed,
           Promise!AcquireShared
  <2>2. ASSUME NEW t \in Threads, ReadRelease(t)
        PROVE  Promise!ReleaseShared(t)
    BY <2>2 DEF ReadRelease, Promise!ReleaseShared
  <2>3. ASSUME NEW t \in Threads, WriteReenter(t) \/ WriteEnter(t)
        PROVE  Promise!AcquireExclusive(t)
    <3>1. wheld' = [wheld EXCEPT ![t] = @ + 1]
      BY <1>2, <2>3
         DEF IInv, TypeOK, OwnerInLockId, Owns, WriteReenter, WriteEnter, Goto
    <3>2. \A u \in Threads : rheld[u] = 0
      BY <1>2, <2>3
         DEF IInv, TypeOK, OwnerInLockId, Owns, WriterExcludesReaders,
             WriteReenter, WriteEnter, Goto
    <3>3. \A u \in Threads \ {t} : wheld[u] = 0
      BY <1>2, <2>3
         DEF IInv, TypeOK, OwnerInLockId, Owns, WriteReenter, WriteEnter, Goto
    <3>4. rheld' = rheld
      BY <2>3 DEF WriteReenter, WriteEnter
    <3> QED
      BY <3>1, <3>2, <3>3, <3>4 DEF Promise!AcquireExclusive
  <2>4. ASSUME NEW t \in Threads, WriteRelease(t)
        PROVE  Promise!ReleaseExclusive(t)
    BY <2>4 DEF WriteRelease, Promise!ReleaseExclusive
  <2>5. ASSUME NEW t \in Threads,
               Call(t) \/ ReadWait(t) \/ ReadAnnounce(t) \/ ReadRefused(t)
                 \/ ReadBackOff(t) \/ WriteFirst(t) \/ WriteClaim(t)
                 \/ WriteDrained(t) \/ WriteClear(t)
        PROVE  UNCHANGED <<rheld, wheld>>
    BY <2>5 DEF Call, ReadCall, WriteCall, ReadWait, ReadAnnounce,
                ReadRefused, ReadBackOff, WriteFirst, WriteClaim,
                WriteDrained, WriteClear
  <2>6. CASE UNCHANGED vars
    BY <2>6 DEF vars
  <2> QED
    BY <1>2, <2>1, <2>2, <2>3, <2>4, <2>5, <2>6
       DEF Next, Inside, Release, Promise!Next
<1> QED
  BY <1>1, <1>2, Invariance, PTL
     DEF Spec, ImplementsLock, Promise!Spec, Promise!avars

=============================================================================
