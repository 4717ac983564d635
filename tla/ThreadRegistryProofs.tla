------------------------ MODULE ThreadRegistryProofs ------------------------
(***************************************************************************)
(* For any finite number of threads, spawned at any depth of the tree: the *)
(* root never closes, nor frees a chunk's code, under a thread that runs.  *)
(***************************************************************************)
EXTENDS ThreadRegistry, FiniteSetTheorems, TLAPS

LEMMA Finite ==
  /\ IsFiniteSet(Tracked) /\ IsFiniteSet(Spawned)
  /\ Cardinality(Tracked) \in Nat /\ Cardinality(Spawned) \in Nat /\ Cardinality(Threads) \in Nat
  /\ Cardinality(Spawned) <= Cardinality(Threads)
  <1>1. Tracked \subseteq Threads /\ Spawned \subseteq Threads
    BY DEF Tracked, Spawned
  <1> QED BY <1>1, RegistryAssumption, FS_Subset, FS_CardinalityType

(* A count of 0 says that nothing is tracked.                              *)
LEMMA NoneTracked ==
  ASSUME RegistryInvariant, ~crashed, count = 0
  PROVE  Tracked = {}
  <1>1. Cardinality(Tracked) <= 0
    BY DEF RegistryInvariant, RegistryCoversThreads
  <1>2. Cardinality(Tracked) = 0
    BY <1>1, Finite
  <1> QED BY <1>2, Finite, FS_EmptySet

LEMMA InitInvariant == Init => RegistryInvariant
  <1> SUFFICES ASSUME Init PROVE RegistryInvariant
    OBVIOUS
  <1> USE RegistryAssumption
  <1>1. Tracked = {} /\ Spawned = {}
    BY DEF Init, Tracked, Spawned, Alive, VMs
  <1>2. Cardinality(Threads) \in Nat
    BY FS_CardinalityType
  <1>3. TypeOK
    <2>1. count \in 0 .. Cardinality(Threads)
      BY <1>2 DEF Init
    <2>2. pc \in [VMs -> Stages \cup {"open", "wait", "closed"}]
      BY DEF Init, Stages
    <2>3. pc[Root] = "open" /\ \A t \in Threads : pc[t] = "none"
      BY DEF Init, VMs
    <2> QED BY <2>1, <2>2, <2>3 DEF Init, TypeOK, VMs, Stages
  <1>4. RegistryCoversThreads
    BY <1>1, FS_EmptySet DEF Init, RegistryCoversThreads
  <1>5. SpawnsPair /\ CodeHasRegistry
    BY DEF Init, SpawnsPair, CodeHasRegistry, InCode, VMs
  <1>6. QuietBetweenChunks
    BY <1>1 DEF QuietBetweenChunks
  <1> QED BY <1>3, <1>4, <1>5, <1>6 DEF RegistryInvariant

(* OP_THREAD: the count and the set of tracked threads change together.    *)
LEMMA SpawnRegisterKeeps ==
  ASSUME RegistryInvariant, ~crashed,
         NEW v \in VMs, NEW t \in Threads, SpawnRegister(v, t)
  PROVE  RegistryInvariant'
  <1> USE RegistryAssumption
  <1>0. TypeOK /\ RegistryCoversThreads /\ SpawnsPair /\ CodeHasRegistry /\ QuietBetweenChunks
    BY DEF RegistryInvariant
  <1>1. pc[v] \in {"run", "ended"} /\ pc[t] = "none" /\ v # t
    BY DEF SpawnRegister, MaySpawn, Spawning
  <1>2. v \in reg
    BY <1>0, <1>1 DEF CodeHasRegistry, InCode, VMs, TypeOK
  <1>3. /\ pc'[t] = "registered" /\ pc'[v] \in {"spawn", "cb_spawn"}
        /\ \A u \in VMs : u # v /\ u # t => pc'[u] = pc[u]
        /\ parent'[t] = v /\ \A u \in Threads : u # t => parent'[u] = parent[u]
        /\ child'[v] = t /\ \A u \in VMs : u # v => child'[u] = child[u]
        /\ pc[v] = "run" => pc'[v] = "spawn"
        /\ count' = count + 1
    BY <1>0, <1>1, <1>2 DEF SpawnRegister, TypeOK, Spawning, VMs
  <1>4. Tracked' = Tracked \cup {t} /\ t \notin Tracked
    BY <1>1, <1>3 DEF Tracked, Alive, VMs
  <1>5. Spawned' = Spawned \cup {t} /\ t \notin Spawned
    BY <1>1, <1>3 DEF Spawned, VMs
  <1>6. /\ Cardinality(Tracked') = Cardinality(Tracked) + 1
        /\ Cardinality(Spawned') = Cardinality(Spawned) + 1
    BY <1>4, <1>5, Finite, FS_AddElement
  <1>7. Spawned' \subseteq Threads
    BY DEF Spawned
  <1>8. Cardinality(Spawned') <= Cardinality(Threads)
    BY <1>7, FS_Subset
  <1>9. RegistryCoversThreads'
    BY <1>0, <1>3, <1>6, Finite DEF RegistryCoversThreads, TypeOK, SpawnRegister
  <1>10. TypeOK'
    <2>1. count' \in 0 .. Cardinality(Threads)
      BY <1>0, <1>3, <1>6, <1>8, Finite DEF RegistryCoversThreads, TypeOK
    <2>2. pc' \in [VMs -> Stages \cup {"open", "wait", "closed"}]
      BY <1>0, <1>1 DEF SpawnRegister, TypeOK, Stages, Spawning, VMs
    <2>3. pc'[Root] \in {"open", "run", "spawn", "wait", "closed"} /\ \A u \in Threads : pc'[u] \in Stages
      BY <1>0, <1>1, <1>3 DEF TypeOK, Stages, VMs
    <2>4. parent' \in [Threads -> VMs] /\ child' \in [VMs -> VMs]
      BY <1>0 DEF SpawnRegister, TypeOK, VMs
    <2> QED BY <1>0, <2>1, <2>2, <2>3, <2>4 DEF TypeOK, SpawnRegister
  <1>11. SpawnsPair'
    <2>1. ASSUME NEW u \in VMs, pc'[u] \in {"spawn", "cb_spawn"}
          PROVE  child'[u] \in Threads /\ pc'[child'[u]] = "registered" /\ parent'[child'[u]] = u
      BY <1>0, <1>1, <1>3, <2>1 DEF SpawnsPair, VMs
    <2>2. ASSUME NEW u \in Threads, pc'[u] = "registered"
          PROVE  pc'[parent'[u]] \in {"spawn", "cb_spawn"} /\ child'[parent'[u]] = u
      <3>1. CASE u = t
        BY <1>3, <3>1
      <3>2. CASE u # t
        <4>1. pc[u] = "registered" /\ parent[u] \in VMs
          BY <1>0, <1>3, <2>2, <3>2 DEF TypeOK, VMs
        <4>2. pc[parent[u]] \in {"spawn", "cb_spawn"} /\ child[parent[u]] = u
          BY <1>0, <4>1 DEF SpawnsPair
        <4>3. parent[u] # v /\ parent[u] # t
          BY <1>1, <4>2
        <4> QED BY <1>3, <3>2, <4>1, <4>2, <4>3
      <3> QED BY <3>1, <3>2
    <2> QED BY <2>1, <2>2 DEF SpawnsPair
  <1>12. CodeHasRegistry'
    BY <1>0, <1>1, <1>2, <1>3 DEF CodeHasRegistry, InCode, SpawnRegister, VMs
  <1>13. QuietBetweenChunks'
    <2>1. pc[Root] \notin {"open", "closed"}
      <3>1. CASE v = Root
        BY <1>1, <3>1
      <3>2. CASE v \in Threads
        <4>1. v \in Tracked
          BY <1>1, <3>2 DEF Tracked, Alive
        <4> QED BY <1>0, <4>1 DEF QuietBetweenChunks
      <3> QED BY <3>1, <3>2 DEF VMs
    <2> QED BY <1>0, <1>1, <1>3, <2>1 DEF QuietBetweenChunks, TypeOK, VMs
  <1> QED BY <1>9, <1>10, <1>11, <1>12, <1>13 DEF RegistryInvariant

(* The thread is created, or is not and its registration is undone.        *)
LEMMA SpawnKeeps ==
  ASSUME RegistryInvariant, ~crashed, NEW v \in VMs, Spawn(v)
  PROVE  RegistryInvariant'
  <1> USE RegistryAssumption
  <1> DEFINE t == child[v]
  <1>0. TypeOK /\ RegistryCoversThreads /\ SpawnsPair /\ CodeHasRegistry /\ QuietBetweenChunks
    BY DEF RegistryInvariant
  <1>1. /\ pc[v] \in {"spawn", "cb_spawn"} /\ t \in Threads
        /\ pc[t] = "registered" /\ parent[t] = v /\ v # t
    BY <1>0 DEF Spawn, SpawnCreated, SpawnFailed, SpawnReturns, Spawning, SpawnsPair
  <1>2. v \in reg
    BY <1>0, <1>1 DEF CodeHasRegistry, InCode, VMs, TypeOK
  <1>3. PICK p \in {"start", "none"} :
          /\ SpawnReturns(v, p)
          /\ count' = IF p = "none" THEN count - 1 ELSE count
          /\ UNCHANGED <<parent, child, reg, closure, execs, crashed>>
    BY <1>2 DEF Spawn, SpawnCreated, SpawnFailed
  <1>4. /\ pc'[t] = p
        /\ pc[v] = "spawn" => pc'[v] = "run"
        /\ pc[v] = "cb_spawn" => pc'[v] = "ended"
        /\ \A u \in VMs : u # v /\ u # t => pc'[u] = pc[u]
        /\ pc' \in [VMs -> Stages \cup {"open", "wait", "closed"}]
    BY <1>0, <1>1, <1>3 DEF SpawnReturns, TypeOK, Spawning, VMs, Stages
  <1>5. /\ p = "start" => Tracked' = Tracked /\ Spawned' = Spawned
        /\ p = "none" => /\ Tracked' = Tracked \ {t} /\ t \in Tracked
                         /\ Spawned' = Spawned \ {t} /\ t \in Spawned
    BY <1>0, <1>1, <1>4 DEF Tracked, Spawned, Alive, VMs, TypeOK
  <1>6. p = "none" => /\ Cardinality(Tracked') = Cardinality(Tracked) - 1
                      /\ Cardinality(Spawned') = Cardinality(Spawned) - 1
                      /\ Cardinality(Tracked) >= 1
    <2>1. SUFFICES ASSUME p = "none"
                   PROVE  /\ Cardinality(Tracked') = Cardinality(Tracked) - 1
                          /\ Cardinality(Spawned') = Cardinality(Spawned) - 1
                          /\ Cardinality(Tracked) >= 1
      OBVIOUS
    <2>2. /\ Cardinality(Tracked') = Cardinality(Tracked) - 1
          /\ Cardinality(Spawned') = Cardinality(Spawned) - 1
      <3>1. /\ Cardinality(Tracked \ {t}) = Cardinality(Tracked) - 1
            /\ Cardinality(Spawned \ {t}) = Cardinality(Spawned) - 1
        BY <1>5, <2>1, Finite, FS_RemoveElement
      <3> QED BY <1>5, <2>1, <3>1
    <2>3. Cardinality(Tracked') \in Nat
      BY <1>5, <2>1, Finite, FS_RemoveElement, FS_CardinalityType
    <2> QED BY <2>2, <2>3, Finite
  <1>7. RegistryCoversThreads' /\ count' \in 0 .. Cardinality(Threads)
    BY <1>0, <1>3, <1>5, <1>6, Finite DEF RegistryCoversThreads, TypeOK
  <1>8. TypeOK'
    BY <1>0, <1>1, <1>3, <1>4, <1>7 DEF TypeOK, VMs, Stages
  <1>9. SpawnsPair'
    <2>1. ASSUME NEW u \in VMs, pc'[u] \in {"spawn", "cb_spawn"}
          PROVE  child'[u] \in Threads /\ pc'[child'[u]] = "registered" /\ parent'[child'[u]] = u
      BY <1>0, <1>1, <1>3, <1>4, <2>1 DEF SpawnsPair, VMs
    <2>2. ASSUME NEW u \in Threads, pc'[u] = "registered"
          PROVE  pc'[parent'[u]] \in {"spawn", "cb_spawn"} /\ child'[parent'[u]] = u
      <3>1. u # v /\ u # t
        BY <1>0, <1>1, <1>4, <2>2 DEF TypeOK
      <3>2. pc[u] = "registered" /\ parent[u] \in VMs
        BY <1>0, <1>4, <2>2, <3>1 DEF TypeOK, VMs
      <3>3. pc[parent[u]] \in {"spawn", "cb_spawn"} /\ child[parent[u]] = u
        BY <1>0, <3>2 DEF SpawnsPair
      <3>4. parent[u] # v /\ parent[u] # t
        BY <1>1, <3>1, <3>3
      <3> QED BY <1>3, <1>4, <3>2, <3>3, <3>4
    <2> QED BY <2>1, <2>2 DEF SpawnsPair
  <1>10. CodeHasRegistry'
    BY <1>0, <1>1, <1>2, <1>3, <1>4 DEF CodeHasRegistry, InCode, VMs, TypeOK
  <1>11. QuietBetweenChunks'
    <2>1. t \in Tracked /\ pc[Root] \notin {"open", "closed"}
      BY <1>0, <1>1 DEF Tracked, QuietBetweenChunks
    <2> QED BY <1>0, <1>1, <1>4, <2>1 DEF QuietBetweenChunks, TypeOK, VMs
  <1> QED BY <1>7, <1>8, <1>9, <1>10, <1>11 DEF RegistryInvariant

(* The trampoline: a thread leaves the tracked ones before, or when, it is *)
(* taken off the count, and its VM keeps the registry while code runs.     *)
LEMMA TrampolineKeeps ==
  ASSUME RegistryInvariant, ~crashed, NEW t \in Threads, Trampoline(t)
  PROVE  RegistryInvariant'
  <1> USE RegistryAssumption
  <1>0. TypeOK /\ RegistryCoversThreads /\ SpawnsPair /\ CodeHasRegistry /\ QuietBetweenChunks
    BY DEF RegistryInvariant
  <1>1. /\ pc[t] \in {"start", "run", "ended", "destroyed", "deregister"}
        /\ pc' \in [VMs -> Stages \cup {"open", "wait", "closed"}]
        /\ pc'[t] \in {"run", "ended", "destroyed", "deregister", "gone"}
        /\ \A u \in VMs : u # t => pc'[u] = pc[u]
        /\ UNCHANGED <<parent, child, closure>>
    BY <1>0 DEF Trampoline, ThreadStart, ThreadEnds, ThreadDestroyVM, ThreadReadRegistry,
       ThreadDeregister, Goto, TypeOK, Stages, VMs
  <1>2. Spawned' = Spawned
    BY <1>1 DEF Spawned, VMs
  <1>3. t \in Tracked /\ Tracked' = IF pc'[t] = "gone" THEN Tracked \ {t} ELSE Tracked
    BY <1>0, <1>1 DEF Tracked, Alive, VMs, TypeOK
  <1>4. pc[Root] \notin {"open", "closed"} /\ pc'[Root] = pc[Root]
    BY <1>0, <1>1, <1>3 DEF QuietBetweenChunks, VMs
  <1>5. /\ IsFiniteSet(Tracked \ {t})
        /\ Cardinality(Tracked \ {t}) = Cardinality(Tracked) - 1
        /\ Cardinality(Tracked \ {t}) \in Nat
    BY <1>3, Finite, FS_RemoveElement, FS_CardinalityType
  <1>6. count' = IF pc[t] = "deregister" THEN count - 1 ELSE count
    <2>1. count > 0
      BY <1>0, <1>5, Finite DEF RegistryCoversThreads, TypeOK
    <2> QED BY <2>1 DEF Trampoline, ThreadStart, ThreadEnds, ThreadDestroyVM, ThreadReadRegistry,
               ThreadDeregister, Goto
  <1>7. pc[t] = "deregister" => pc'[t] = "gone"
    BY <1>0 DEF Trampoline, ThreadStart, ThreadEnds, ThreadDestroyVM, ThreadReadRegistry,
       ThreadDeregister, Goto, TypeOK, VMs
  <1>8. crashed' \in BOOLEAN /\ reg' \subseteq VMs
        /\ \A u \in VMs : u # t => (u \in reg <=> u \in reg')
    BY <1>0 DEF Trampoline, ThreadStart, ThreadEnds, ThreadDestroyVM, ThreadReadRegistry,
       ThreadDeregister, TypeOK, VMs
  <1>9. ~crashed' /\ InCode(t)' => t \in reg'
    <2>1. CASE ThreadStart(t)
      BY <2>1 DEF ThreadStart
    <2>2. CASE ThreadEnds(t)
      BY <1>0, <2>2 DEF ThreadEnds, Goto, CodeHasRegistry, InCode
    <2>3. CASE ThreadDestroyVM(t) \/ ThreadReadRegistry(t) \/ ThreadDeregister(t)
      BY <1>0, <2>3 DEF ThreadDestroyVM, ThreadReadRegistry, ThreadDeregister, Goto, InCode, TypeOK, VMs
    <2> QED BY <2>1, <2>2, <2>3 DEF Trampoline
  <1>10. RegistryCoversThreads' /\ count' \in 0 .. Cardinality(Threads)
    BY <1>0, <1>2, <1>3, <1>5, <1>6, <1>7, Finite DEF RegistryCoversThreads, TypeOK
  <1>11. TypeOK'
    BY <1>0, <1>1, <1>4, <1>8, <1>10 DEF TypeOK, VMs, Stages
  <1>12. SpawnsPair'
    BY <1>0, <1>1 DEF SpawnsPair, VMs, TypeOK
  <1>13. CodeHasRegistry'
    <2>1. Root \in reg'
      BY <1>0, <1>4, <1>8 DEF CodeHasRegistry, VMs
    <2>2. ASSUME NEW u \in Threads, u # t, InCode(u)'
          PROVE  u \in reg'
      BY <1>0, <1>1, <1>8, <2>2 DEF CodeHasRegistry, InCode, VMs
    <2> QED BY <1>9, <2>1, <2>2 DEF CodeHasRegistry
  <1>14. QuietBetweenChunks'
    BY <1>4 DEF QuietBetweenChunks
  <1> QED BY <1>10, <1>11, <1>12, <1>13, <1>14 DEF RegistryInvariant

(* The host: between chunks the count is 0, so nothing is tracked.         *)
LEMMA HostKeeps ==
  ASSUME RegistryInvariant, ~crashed, Exec \/ ExecReturns \/ ExecWaited \/ Close
  PROVE  RegistryInvariant'
  <1> USE RegistryAssumption
  <1>0. TypeOK /\ RegistryCoversThreads /\ SpawnsPair /\ CodeHasRegistry /\ QuietBetweenChunks
    BY DEF RegistryInvariant
  <1>1. /\ pc[Root] \in {"open", "run", "wait"} /\ pc'[Root] \in {"open", "run", "wait", "closed"}
        /\ pc' \in [VMs -> Stages \cup {"open", "wait", "closed"}]
        /\ \A u \in Threads : pc'[u] = pc[u]
        /\ UNCHANGED <<parent, child, count, crashed>>
        /\ pc'[Root] \in {"open", "closed"} => count = 0
    BY <1>0 DEF Exec, ExecReturns, ExecWaited, Close, Goto, TypeOK, VMs, Stages
  <1>2. Tracked' = Tracked /\ Spawned' = Spawned
    BY <1>1 DEF Tracked, Spawned, Alive
  <1>3. RegistryCoversThreads'
    BY <1>0, <1>1, <1>2 DEF RegistryCoversThreads
  <1>4. /\ reg' \subseteq reg
        /\ \A u \in Threads : u \in reg => u \in reg'
        /\ closure' \in {"none", "live", "freed"}
        /\ (pc'[Root] # "closed" => reg' = reg)
    BY <1>0 DEF Exec, ExecReturns, ExecWaited, Close, Goto, TypeOK, VMs
  <1>5. TypeOK'
    <2>1. \A u \in Threads : pc'[u] \in Stages
      BY <1>0, <1>1 DEF TypeOK
    <2>2. reg' \subseteq VMs /\ count' \in 0 .. Cardinality(Threads) /\ crashed' \in BOOLEAN
      BY <1>0, <1>1, <1>4 DEF TypeOK
    <2> QED BY <1>0, <1>1, <1>4, <2>1, <2>2 DEF TypeOK
  <1>6. SpawnsPair'
    BY <1>0, <1>1 DEF SpawnsPair, VMs, TypeOK
  <1>7. CodeHasRegistry'
    <2>1. pc'[Root] # "closed" => Root \in reg'
      BY <1>0, <1>1, <1>4 DEF CodeHasRegistry
    <2>2. ASSUME NEW u \in Threads, ~crashed', InCode(u)'
          PROVE  u \in reg'
      BY <1>0, <1>1, <1>4, <2>2 DEF CodeHasRegistry, InCode
    <2> QED BY <2>1, <2>2 DEF CodeHasRegistry
  <1>8. QuietBetweenChunks'
    BY <1>1, <1>2, NoneTracked DEF QuietBetweenChunks
  <1> QED BY <1>3, <1>5, <1>6, <1>7, <1>8 DEF RegistryInvariant

(* However deep threads are spawned, and whichever creations fail: the     *)
(* registry counts at least the threads that exist.                        *)
THEOREM RegistryCounts == Spec => []RegistryInvariant
  <1>1. ASSUME RegistryInvariant, [Next]_vars
        PROVE  RegistryInvariant'
    <2>1. CASE UNCHANGED vars
      BY <1>1, <2>1 DEF vars, RegistryInvariant, TypeOK, RegistryCoversThreads, SpawnsPair,
         CodeHasRegistry, QuietBetweenChunks, Tracked, Spawned, Alive, InCode
    <2>2. CASE Next
      BY <1>1, <2>1, <2>2, SpawnRegisterKeeps, SpawnKeeps, TrampolineKeeps, HostKeeps
         DEF Next, Terminated
    <2> QED BY <1>1, <2>1, <2>2
  <1> QED BY <1>1, InitInvariant, PTL DEF Spec

(* The closure of a chunk and the tables of the root outlive every thread. *)
THEOREM NothingFreedEarly == Spec => []NothingFreedUnderThreads
  <1>1. RegistryInvariant => NothingFreedUnderThreads
    BY DEF RegistryInvariant, QuietBetweenChunks, NothingFreedUnderThreads, Tracked
  <1> QED BY <1>1, RegistryCounts, PTL

=============================================================================
