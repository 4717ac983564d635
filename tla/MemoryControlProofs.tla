------------------------ MODULE MemoryControlProofs ------------------------
(***************************************************************************)
(* Theorems about the handle table and the collector, for any number of    *)
(* threads, objects and handles.                                           *)
(***************************************************************************)
EXTENDS MemoryControl, FiniteSetTheorems, SequenceTheorems, TLAPS

Slot == [live: BOOLEAN, marked: BOOLEAN, ptr: Objects \cup FreeLinks]

-----------------------------------------------------------------------------
(* The slots of a table are finitely many, so the live ones can be counted. *)
LEMMA TableIsFinite ==
  ASSUME TypeOK
  PROVE  /\ DOMAIN slots = 0..(capacity - 1)
         /\ IsFiniteSet(LiveSlots) /\ Cardinality(LiveSlots) \in Nat
         /\ Cardinality(LiveSlots) <= capacity
         /\ Cardinality(LiveSlots) = capacity => DeadSlots = {}
  <1>1. DOMAIN slots = 0..(capacity - 1) /\ capacity \in Nat
    BY DEF TypeOK
  <1>2. IsFiniteSet(0..(capacity - 1)) /\ Cardinality(0..(capacity - 1)) = capacity
    BY <1>1, FS_Interval, SMT
  <1>3. LiveSlots \in SUBSET (0..(capacity - 1))
    BY <1>1 DEF LiveSlots
  <1>4. /\ IsFiniteSet(LiveSlots) /\ Cardinality(LiveSlots) <= capacity
        /\ Cardinality(LiveSlots) = capacity => LiveSlots = 0..(capacity - 1)
    BY <1>2, <1>3, FS_Subset
  <1>5. Cardinality(LiveSlots) \in Nat
    BY <1>4, FS_CardinalityType
  <1> QED BY <1>1, <1>4, <1>5 DEF LiveSlots, DeadSlots

LEMMA DeadFields ==
  ASSUME NEW link
  PROVE  /\ ~Dead(link).live /\ ~Dead(link).marked /\ Dead(link).ptr = link
         /\ link \in FreeLinks => Dead(link) \in Slot
  BY DEF Dead, Slot

(* Allocating takes the head of the free list, growing the table first     *)
(* when there is none.                                                     *)
AllocIdx == IF free_head = Invalid THEN capacity ELSE free_head

LEMMA AllocEffect ==
  ASSUME TableInvariant, NEW o \in Objects, Alloc(o)
  PROVE  /\ AllocIdx \notin LiveSlots /\ AllocIdx \in DOMAIN slots'
         /\ slots'[AllocIdx] = [live |-> TRUE, marked |-> FALSE, ptr |-> o]
         /\ \A i \in LiveSlots : i \in DOMAIN slots' /\ slots'[i] = slots[i]
         /\ LiveSlots' = LiveSlots \cup {AllocIdx}
         /\ count' = count + 1 /\ capacity' \in Nat \ {0}
         /\ FreeListIsDeadSlots'
         /\ slots' \in [0..(capacity' - 1) -> Slot']
         /\ \A i \in DOMAIN slots' :
              slots'[i].ptr \in IF slots'[i].live THEN Objects ELSE FreeLinks'
         /\ free_head' \in FreeLinks'
  <1> DEFINE new == [live |-> TRUE, marked |-> FALSE, ptr |-> o]
  <1>1. TypeOK /\ FreeListIsDeadSlots
    BY DEF TableInvariant
  <1>2. PICK list \in [1..(capacity - count) -> DeadSlots] :
          /\ IsFreeList(list)
          /\ \A m, n \in DOMAIN list : list[m] = list[n] => m = n
          /\ \A i \in DeadSlots : \E n \in DOMAIN list : list[n] = i
    BY <1>1 DEF FreeListIsDeadSlots
  <1>3. /\ DOMAIN slots = 0..(capacity - 1) /\ capacity \in Nat \ {0}
        /\ count = Cardinality(LiveSlots) /\ count \in Nat /\ count <= capacity
        /\ IsFiniteSet(LiveSlots)
    BY <1>1, TableIsFinite DEF FreeListIsDeadSlots, TypeOK
  <1>4. DeadSlots \subseteq 0..(capacity - 1) /\ LiveSlots \subseteq 0..(capacity - 1)
    BY <1>3 DEF DeadSlots, LiveSlots
  <1>5. Invalid \notin Nat
    BY HandleAssumption
  <1>6. count' = count + 1
    BY DEF Alloc
  <1>7. ASSUME AllocIdx \notin LiveSlots, LiveSlots' = LiveSlots \cup {AllocIdx}
        PROVE  count' = Cardinality(LiveSlots')
    BY <1>3, <1>6, <1>7, FS_AddElement
  <1>8. CASE free_head # Invalid
    <2>1. 1 \in DOMAIN list /\ list[1] = free_head
      BY <1>2, <1>8 DEF IsFreeList, Link
    <2>2. free_head \in DeadSlots /\ capacity - count >= 1 /\ free_head \in DOMAIN slots
      BY <1>2, <1>3, <2>1 DEF DeadSlots
    <2>3. /\ slots' = [slots EXCEPT ![free_head] = new] /\ capacity' = capacity
          /\ free_head' = slots[free_head].ptr /\ AllocIdx = free_head
      BY <1>8 DEF Alloc, AllocIdx
    <2>4. /\ DOMAIN slots' = DOMAIN slots /\ slots'[free_head] = new
          /\ \A i \in DOMAIN slots : i # free_head => slots'[i] = slots[i]
      BY <2>2, <2>3
    <2>5. /\ LiveSlots' = LiveSlots \cup {free_head} /\ free_head \notin LiveSlots
          /\ DeadSlots' = DeadSlots \ {free_head}
      BY <2>2, <2>4 DEF LiveSlots, DeadSlots
    <2> PICK rest : rest = [n \in 1..(capacity' - count') |-> list[n + 1]]
      OBVIOUS
    <2>6. capacity' - count' = (capacity - count) - 1
      BY <1>3, <1>6, <2>3
    <2>7. \A n \in 1..(capacity' - count') : n + 1 \in DOMAIN list /\ n + 1 # 1
      BY <1>2, <1>3, <2>2, <2>6
    <2>8. rest \in [1..(capacity' - count') -> DeadSlots']
      BY <1>2, <2>1, <2>5, <2>7
    <2>9. \A m, n \in DOMAIN rest : rest[m] = rest[n] => m = n
      BY <1>2, <2>7
    <2>10. ASSUME NEW i \in DeadSlots' PROVE \E n \in DOMAIN rest : rest[n] = i
      <3>1. PICK n \in DOMAIN list : list[n] = i
        BY <1>2, <2>5, <2>10
      <3>2. n # 1 /\ n \in 1..(capacity - count)
        BY <1>2, <2>1, <2>5, <2>10, <3>1
      <3>3. n - 1 \in DOMAIN rest /\ rest[n - 1] = i
        BY <1>3, <2>2, <2>6, <3>1, <3>2
      <3> QED BY <3>3
    <2>11. IsFreeList(rest)'
      <3>1. free_head' = Link(list, 2)
        BY <1>2, <2>1, <2>3 DEF IsFreeList
      <3>2. \A n \in Nat : n >= 1 => Link(rest, n) = Link(list, n + 1)
        BY <1>2, <1>3, <2>2, <2>6 DEF Link
      <3>3. ASSUME NEW n \in DOMAIN rest PROVE slots'[rest[n]].ptr = Link(rest, n + 1)
        <4>1. rest[n] = list[n + 1] /\ n + 1 \in DOMAIN list /\ n + 1 \in Nat
          BY <2>7, <1>3
        <4>2. slots'[rest[n]] = slots[list[n + 1]]
          BY <1>2, <2>1, <2>4, <2>7, <4>1 DEF DeadSlots
        <4>3. slots[list[n + 1]].ptr = Link(list, (n + 1) + 1)
          BY <1>2, <4>1 DEF IsFreeList
        <4> QED BY <3>2, <4>1, <4>2, <4>3
      <3> QED BY <3>1, <3>2, <3>3 DEF IsFreeList, Link
    <2>12. FreeListIsDeadSlots'
      <3>1. \A i \in DeadSlots' : ~slots'[i].marked
        BY <1>1, <2>4, <2>5 DEF FreeListIsDeadSlots, DeadSlots
      <3>2. count' = Cardinality(LiveSlots')
        BY <1>7, <2>3, <2>5
      <3> QED BY <2>8, <2>9, <2>10, <2>11, <3>1, <3>2 DEF FreeListIsDeadSlots
    <2>13. FreeLinks' = FreeLinks
      BY <2>3 DEF FreeLinks
    <2>14. slots' \in [0..(capacity' - 1) -> Slot']
      BY <1>1, <2>3, <2>13 DEF TypeOK, Slot
    <2>15. \A i \in DOMAIN slots' : slots'[i].ptr \in IF slots'[i].live THEN Objects ELSE FreeLinks'
      BY <1>1, <2>4, <2>13 DEF TypeOK
    <2>16. free_head' \in FreeLinks'
      BY <1>1, <2>2, <2>3, <2>13 DEF TypeOK, DeadSlots
    <2> QED BY <1>3, <1>6, <2>2, <2>3, <2>4, <2>5, <2>12, <2>14, <2>15, <2>16 DEF LiveSlots
  <1>9. CASE free_head = Invalid
    <2>1. DOMAIN list = {} /\ capacity - count = 0
      <3>1. 1 \notin DOMAIN list
        <4>1. 1 \in DOMAIN list => list[1] = Invalid /\ list[1] \in DeadSlots
          BY <1>2, <1>9 DEF IsFreeList, Link
        <4>2. 0..(capacity - 1) \subseteq Nat
          BY <1>3
        <4>3. Invalid \notin DeadSlots
          BY <1>4, <1>5, <4>2
        <4> QED BY <4>1, <4>3
      <3> QED BY <1>2, <1>3, <3>1
    <2>2. DeadSlots = {} /\ LiveSlots = 0..(capacity - 1)
      BY <1>2, <1>3, <2>1 DEF DeadSlots, LiveSlots
    <2>3. /\ slots' = [Grown EXCEPT ![capacity] = new] /\ capacity' = 2 * capacity
          /\ free_head' = Grown[capacity].ptr /\ AllocIdx = capacity
      BY <1>9 DEF Alloc, AllocIdx
    <2>4. DOMAIN slots' = 0..(2 * capacity - 1) /\ slots'[capacity] = new
      BY <1>3, <2>3 DEF Grown
    <2>5. \A i \in LiveSlots : i \in DOMAIN slots' /\ slots'[i] = slots[i]
      BY <1>3, <2>2, <2>3 DEF Grown
    <2>6. \A i \in (capacity + 1)..(2 * capacity - 1) :
            slots'[i] = Dead(IF i = 2 * capacity - 1 THEN Invalid ELSE i + 1)
      BY <1>3, <1>9, <2>3 DEF Grown
    <2>20. \A i \in (capacity + 1)..(2 * capacity - 1) :
             /\ ~slots'[i].live /\ ~slots'[i].marked
             /\ slots'[i].ptr = IF i = 2 * capacity - 1 THEN Invalid ELSE i + 1
      BY <2>6, DeadFields
    <2>7. free_head' = IF capacity = 2 * capacity - 1 THEN Invalid ELSE capacity + 1
      BY <1>3, <1>9, <2>3 DEF Grown, Dead
    <2>8. \A i \in DOMAIN slots' : \/ i \in LiveSlots
                                   \/ i = capacity
                                   \/ i \in (capacity + 1)..(2 * capacity - 1)
      BY <1>3, <2>2, <2>4
    <2>9. /\ LiveSlots' = LiveSlots \cup {capacity} /\ capacity \notin LiveSlots
          /\ DeadSlots' = (capacity + 1)..(2 * capacity - 1)
      <3>1. \A i \in (capacity + 1)..(2 * capacity - 1) : ~slots'[i].live
        BY <2>20
      <3>2. slots'[capacity].live /\ \A i \in LiveSlots : slots'[i].live
        BY <2>4, <2>5 DEF LiveSlots
      <3>3. capacity \in DOMAIN slots' /\ capacity \notin LiveSlots
        BY <1>3, <2>2, <2>4
      <3>4. (capacity + 1)..(2 * capacity - 1) \subseteq DOMAIN slots'
        BY <1>3, <2>4
      <3> QED BY <2>5, <2>8, <3>1, <3>2, <3>3, <3>4 DEF LiveSlots, DeadSlots
    <2> PICK fresh : fresh = [n \in 1..(capacity' - count') |-> capacity + n]
      OBVIOUS
    <2>10. capacity' - count' = capacity - 1
      BY <1>3, <1>6, <2>1, <2>3
    <2>11. fresh \in [1..(capacity' - count') -> DeadSlots']
      BY <1>3, <2>9, <2>10
    <2>12. \A m, n \in DOMAIN fresh : fresh[m] = fresh[n] => m = n
      BY <1>3, <2>10
    <2>13. ASSUME NEW i \in DeadSlots' PROVE \E n \in DOMAIN fresh : fresh[n] = i
      <3>1. i - capacity \in 1..(capacity - 1) /\ capacity + (i - capacity) = i
        BY <1>3, <2>9
      <3> QED BY <2>10, <3>1
    <2>14. IsFreeList(fresh)'
      <3>1. \A n \in 1..capacity : Link(fresh, n) = IF n = capacity THEN Invalid ELSE capacity + n
        BY <1>3, <2>10 DEF Link
      <3>2. ASSUME NEW n \in DOMAIN fresh PROVE slots'[fresh[n]].ptr = Link(fresh, n + 1)
        BY <1>3, <2>20, <2>10, <3>1
      <3>3. free_head' = Link(fresh, 1)
        BY <1>3, <2>7, <3>1
      <3> QED BY <3>2, <3>3 DEF IsFreeList, Link
    <2>15. FreeListIsDeadSlots'
      <3>1. \A i \in DeadSlots' : ~slots'[i].marked
        BY <2>20, <2>9
      <3>2. count' = Cardinality(LiveSlots')
        BY <1>7, <2>3, <2>9
      <3> QED BY <2>11, <2>12, <2>13, <2>14, <3>1, <3>2 DEF FreeListIsDeadSlots
    <2>16. FreeLinks' = 0..(2 * capacity - 1) \cup {Invalid} /\ FreeLinks \subseteq FreeLinks'
      BY <1>3, <2>3 DEF FreeLinks
    <2>17. \A i \in DOMAIN slots' : /\ slots'[i] \in Slot'
                                    /\ slots'[i].ptr \in IF slots'[i].live THEN Objects ELSE FreeLinks'
      <3>1. \A i \in LiveSlots : slots[i] \in Slot /\ slots[i].ptr \in Objects /\ slots[i].live
        BY <1>1, <1>3 DEF TypeOK, Slot, LiveSlots
      <3>2. \A i \in LiveSlots : slots'[i] \in Slot'
        BY <2>5, <2>16, <3>1 DEF Slot
      <3>3. \A i \in (capacity + 1)..(2 * capacity - 1) :
              slots'[i] \in Slot' /\ slots'[i].ptr \in FreeLinks' /\ ~slots'[i].live
        <4>1. \A i \in (capacity + 1)..(2 * capacity - 1) :
                (IF i = 2 * capacity - 1 THEN Invalid ELSE i + 1) \in FreeLinks'
          BY <1>3, <2>16
        <4>2. \A link \in FreeLinks' : Dead(link) \in Slot'
          BY DEF Dead, Slot
        <4>3. \A i \in (capacity + 1)..(2 * capacity - 1) : slots'[i] \in Slot'
          BY <2>6, <4>1, <4>2
        <4> QED BY <2>20, <4>1, <4>3
      <3>4. new \in Slot'
        BY DEF Slot
      <3> QED BY <2>4, <2>5, <2>8, <3>1, <3>2, <3>3, <3>4
    <2>18. slots' \in [0..(capacity' - 1) -> Slot']
      <3>1. slots' = [i \in DOMAIN slots' |-> slots'[i]]
        BY <2>3 DEF Grown
      <3> QED BY <2>3, <2>4, <2>17, <3>1
    <2>19. free_head' \in FreeLinks'
      BY <1>3, <2>7, <2>16
    <2> QED BY <1>3, <1>6, <2>3, <2>4, <2>5, <2>9, <2>15, <2>17, <2>18, <2>19
  <1> QED BY <1>8, <1>9

LEMMA FreeEffect ==
  ASSUME TableInvariant, NEW h \in DOMAIN slots, Free(h)
  PROVE  /\ DOMAIN slots' = DOMAIN slots /\ LiveSlots' = LiveSlots \ {h} /\ h \in LiveSlots
         /\ \A i \in DOMAIN slots : i # h => slots'[i] = slots[i]
         /\ ~slots'[h].live /\ ~slots'[h].marked
         /\ count' = count - 1
         /\ FreeListIsDeadSlots'
         /\ slots' \in [0..(capacity' - 1) -> Slot']
         /\ \A i \in DOMAIN slots' :
              slots'[i].ptr \in IF slots'[i].live THEN Objects ELSE FreeLinks'
         /\ free_head' \in FreeLinks' /\ capacity' = capacity
  <1>1. TypeOK /\ FreeListIsDeadSlots
    BY DEF TableInvariant
  <1>2. PICK list \in [1..(capacity - count) -> DeadSlots] :
          /\ IsFreeList(list)
          /\ \A m, n \in DOMAIN list : list[m] = list[n] => m = n
          /\ \A i \in DeadSlots : \E n \in DOMAIN list : list[n] = i
    BY <1>1 DEF FreeListIsDeadSlots
  <1>3. /\ DOMAIN slots = 0..(capacity - 1) /\ capacity \in Nat \ {0}
        /\ count = Cardinality(LiveSlots) /\ count \in Nat /\ count <= capacity
        /\ IsFiniteSet(LiveSlots)
    BY <1>1, TableIsFinite DEF FreeListIsDeadSlots, TypeOK
  <1>4. /\ capacity' = capacity /\ count' = count - 1 /\ free_head' = h
        /\ slots' = [slots EXCEPT ![h] = Dead(free_head)] /\ slots[h].live
    BY DEF Free
  <1>5. /\ DOMAIN slots' = DOMAIN slots /\ slots'[h] = Dead(free_head)
        /\ \A i \in DOMAIN slots : i # h => slots'[i] = slots[i]
    BY <1>4
  <1>6. ~slots'[h].live /\ ~slots'[h].marked /\ slots'[h].ptr = free_head
    BY <1>5, DeadFields
  <1>7. /\ LiveSlots' = LiveSlots \ {h} /\ h \in LiveSlots
        /\ DeadSlots' = DeadSlots \cup {h} /\ h \notin DeadSlots
    BY <1>4, <1>5, <1>6 DEF LiveSlots, DeadSlots
  <1>8. capacity' - count' = (capacity - count) + 1 /\ capacity - count \in Nat
    BY <1>3, <1>4
  <1> PICK longer : longer = [n \in 1..(capacity' - count') |-> IF n = 1 THEN h ELSE list[n - 1]]
    OBVIOUS
  <1>9. \A n \in 1..(capacity' - count') : n # 1 => n - 1 \in DOMAIN list
    BY <1>2, <1>8
  <1>10. longer \in [1..(capacity' - count') -> DeadSlots']
    BY <1>2, <1>7, <1>9
  <1>11. \A m, n \in DOMAIN longer : longer[m] = longer[n] => m = n
    BY <1>2, <1>7, <1>8, <1>9
  <1>12. ASSUME NEW i \in DeadSlots' PROVE \E n \in DOMAIN longer : longer[n] = i
    <2>1. CASE i = h
      <3>1. 1 \in DOMAIN longer /\ longer[1] = h
        BY <1>8
      <3> QED BY <2>1, <3>1
    <2>2. CASE i # h
      <3>1. PICK n \in DOMAIN list : list[n] = i
        BY <1>2, <1>7, <1>12, <2>2
      <3>2. n + 1 \in DOMAIN longer /\ longer[n + 1] = i
        BY <1>2, <1>8, <3>1
      <3> QED BY <3>2
    <2> QED BY <2>1, <2>2
  <1>13. IsFreeList(longer)'
    <2>1. free_head' = Link(longer, 1)
      BY <1>4, <1>8 DEF Link
    <2>2. \A n \in Nat : n >= 1 => Link(longer, n + 1) = Link(list, n)
      BY <1>2, <1>8 DEF Link
    <2>3. ASSUME NEW n \in DOMAIN longer PROVE slots'[longer[n]].ptr = Link(longer, n + 1)
      <3>1. CASE n = 1
        <4>1. longer[n] = h /\ slots'[h].ptr = free_head
          BY <1>6, <1>8, <3>1
        <4>2. free_head = Link(list, 1)
          BY <1>2 DEF IsFreeList
        <4>3. Link(longer, n + 1) = Link(list, 1)
          BY <2>2, <3>1
        <4> QED BY <4>1, <4>2, <4>3
      <3>2. CASE n # 1
        <4>1. longer[n] = list[n - 1] /\ n - 1 \in DOMAIN list /\ n \in Nat /\ n >= 1
          BY <1>8, <1>9, <3>2
        <4>2. slots'[longer[n]] = slots[list[n - 1]]
          BY <1>2, <1>5, <1>7, <4>1 DEF DeadSlots
        <4>3. slots[list[n - 1]].ptr = Link(list, (n - 1) + 1)
          BY <1>2, <4>1 DEF IsFreeList
        <4> QED BY <2>2, <4>1, <4>2, <4>3
      <3> QED BY <3>1, <3>2
    <2> QED BY <2>1, <2>2, <2>3 DEF IsFreeList, Link
  <1>14. FreeListIsDeadSlots'
    <2>1. \A i \in DeadSlots' : ~slots'[i].marked
      BY <1>1, <1>5, <1>6, <1>7 DEF FreeListIsDeadSlots, DeadSlots
    <2>2. count' = Cardinality(LiveSlots')
      BY <1>3, <1>4, <1>7, FS_RemoveElement
    <2> QED BY <1>10, <1>11, <1>12, <1>13, <2>1, <2>2 DEF FreeListIsDeadSlots
  <1>15. FreeLinks' = FreeLinks /\ Slot' = Slot
    BY <1>4 DEF FreeLinks, Slot
  <1>16. free_head' \in FreeLinks'
    BY <1>3, <1>4, <1>15 DEF FreeLinks
  <1>17. slots' \in [0..(capacity' - 1) -> Slot']
    <2>1. Dead(free_head) \in Slot
      BY <1>1, DeadFields DEF TypeOK
    <2> QED BY <1>1, <1>4, <1>15, <2>1 DEF TypeOK, Slot
  <1>18. \A i \in DOMAIN slots' : slots'[i].ptr \in IF slots'[i].live THEN Objects ELSE FreeLinks'
    BY <1>1, <1>5, <1>6, <1>15 DEF TypeOK
  <1> QED BY <1>4, <1>5, <1>6, <1>7, <1>14, <1>16, <1>17, <1>18

(* Setting what a handle names, or its mark, leaves every chain.           *)
LEMMA SlotsRewritten ==
  ASSUME TableInvariant, UNCHANGED <<capacity, count, free_head>>,
         DOMAIN slots' = DOMAIN slots,
         \A i \in DOMAIN slots : /\ slots'[i] \in Slot /\ slots'[i].live = slots[i].live
                                 /\ slots[i].live => slots'[i].ptr \in Objects
                                 /\ ~slots[i].live => slots'[i] = slots[i],
         slots' = [i \in DOMAIN slots |-> slots'[i]]
  PROVE  /\ LiveSlots' = LiveSlots /\ FreeListIsDeadSlots'
         /\ slots' \in [0..(capacity' - 1) -> Slot']
         /\ \A i \in DOMAIN slots' :
              slots'[i].ptr \in IF slots'[i].live THEN Objects ELSE FreeLinks'
         /\ free_head' \in FreeLinks'
  <1>1. TypeOK /\ FreeListIsDeadSlots
    BY DEF TableInvariant
  <1>2. LiveSlots' = LiveSlots /\ DeadSlots' = DeadSlots
    BY DEF LiveSlots, DeadSlots
  <1>3. \A i \in DeadSlots : slots'[i] = slots[i]
    BY DEF DeadSlots
  <1>4. FreeListIsDeadSlots'
    <2>1. PICK list \in [1..(capacity - count) -> DeadSlots] :
            /\ IsFreeList(list)
            /\ \A m, n \in DOMAIN list : list[m] = list[n] => m = n
            /\ \A i \in DeadSlots : \E n \in DOMAIN list : list[n] = i
      BY <1>1 DEF FreeListIsDeadSlots
    <2>2. IsFreeList(list)'
      BY <1>3, <2>1 DEF IsFreeList, Link
    <2> QED BY <1>1, <1>2, <1>3, <2>1, <2>2 DEF FreeListIsDeadSlots
  <1>5. FreeLinks' = FreeLinks /\ Slot' = Slot
    BY DEF FreeLinks, Slot
  <1>6. slots' \in [0..(capacity' - 1) -> Slot']
    BY <1>1, <1>5 DEF TypeOK
  <1>7. \A i \in DOMAIN slots' : slots'[i].ptr \in IF slots'[i].live THEN Objects ELSE FreeLinks'
    BY <1>1, <1>5 DEF TypeOK
  <1> QED BY <1>1, <1>2, <1>4, <1>5, <1>6, <1>7 DEF TypeOK

LEMMA SetPtrEffect ==
  ASSUME TableInvariant, NEW h \in DOMAIN slots, NEW o \in Objects, SetPtr(h, o)
  PROVE  /\ LiveSlots' = LiveSlots /\ FreeListIsDeadSlots'
         /\ slots' \in [0..(capacity' - 1) -> Slot']
         /\ \A i \in DOMAIN slots' :
              slots'[i].ptr \in IF slots'[i].live THEN Objects ELSE FreeLinks'
         /\ free_head' \in FreeLinks' /\ capacity' = capacity
         /\ h \in LiveSlots /\ slots'[h].ptr = o
         /\ \A i \in DOMAIN slots : i # h => slots'[i] = slots[i]
  <1>1. TypeOK
    BY DEF TableInvariant
  <1>2. /\ slots' = [slots EXCEPT ![h].ptr = o] /\ slots[h].live
        /\ UNCHANGED <<capacity, count, free_head>>
    BY DEF SetPtr
  <1>3. slots \in [0..(capacity - 1) -> Slot]
    BY <1>1 DEF TypeOK, Slot
  <1>4. slots'[h] = [slots[h] EXCEPT !.ptr = o] /\ slots[h] \in Slot
    BY <1>2, <1>3
  <1>5. slots'[h] \in Slot /\ slots'[h].live = slots[h].live /\ slots'[h].ptr = o
    BY <1>4 DEF Slot
  <1>6. /\ DOMAIN slots' = DOMAIN slots /\ slots' = [i \in DOMAIN slots |-> slots'[i]]
        /\ \A i \in DOMAIN slots : i # h => slots'[i] = slots[i]
    BY <1>2
  <1>7. \A i \in DOMAIN slots : slots[i].live => slots[i].ptr \in Objects
    BY <1>1 DEF TypeOK
  <1>8. \A i \in DOMAIN slots : /\ slots'[i] \in Slot /\ slots'[i].live = slots[i].live
                                /\ slots[i].live => slots'[i].ptr \in Objects
                                /\ ~slots[i].live => slots'[i] = slots[i]
    BY <1>2, <1>3, <1>5, <1>6, <1>7
  <1> QED BY <1>2, <1>5, <1>6, <1>8, SlotsRewritten DEF LiveSlots

LEMMA InitTable == Init => TableInvariant
  <1> SUFFICES ASSUME Init PROVE TableInvariant
    OBVIOUS
  <1>1. /\ slots = [i \in 0..(InitCap - 1) |-> Dead(IF i = InitCap - 1 THEN Invalid ELSE i + 1)]
        /\ capacity = InitCap /\ count = 0 /\ free_head = 0 /\ InitCap \in Nat \ {0}
    BY HandleAssumption DEF Init
  <1>2. \A i \in 0..(InitCap - 1) : /\ ~slots[i].live /\ ~slots[i].marked
                                    /\ slots[i].ptr = IF i = InitCap - 1 THEN Invalid ELSE i + 1
    BY <1>1, DeadFields
  <1>3. LiveSlots = {} /\ DeadSlots = 0..(InitCap - 1) /\ DOMAIN slots = 0..(InitCap - 1)
    BY <1>1, <1>2 DEF LiveSlots, DeadSlots
  <1>4. FreeLinks = 0..(InitCap - 1) \cup {Invalid}
    BY <1>1 DEF FreeLinks
  <1>5. \A i \in 0..(InitCap - 1) : (IF i = InitCap - 1 THEN Invalid ELSE i + 1) \in FreeLinks
    BY <1>1, <1>4
  <1>6. slots \in [0..(capacity - 1) -> Slot]
    <2>1. \A link \in FreeLinks : Dead(link) \in Slot
      BY DeadFields
    <2>2. \A i \in 0..(InitCap - 1) : Dead(IF i = InitCap - 1 THEN Invalid ELSE i + 1) \in Slot
      BY <1>5, <2>1
    <2> QED BY <1>1, <2>2
  <1>7. FreeListIsDeadSlots
    <2> PICK list : list = [n \in 1..(capacity - count) |-> n - 1]
      OBVIOUS
    <2>1. list \in [1..(capacity - count) -> DeadSlots]
      BY <1>1, <1>3
    <2>2. \A m, n \in DOMAIN list : list[m] = list[n] => m = n
      BY <1>1
    <2>3. ASSUME NEW i \in DeadSlots PROVE \E n \in DOMAIN list : list[n] = i
      <3>1. i + 1 \in DOMAIN list /\ list[i + 1] = i
        BY <1>1, <1>3
      <3> QED BY <3>1
    <2>4. IsFreeList(list)
      <3>1. free_head = Link(list, 1)
        BY <1>1 DEF Link
      <3>2. ASSUME NEW n \in DOMAIN list PROVE slots[list[n]].ptr = Link(list, n + 1)
        <4>1. n \in 1..InitCap /\ list[n] = n - 1 /\ n - 1 \in 0..(InitCap - 1)
          BY <1>1
        <4>2. slots[list[n]].ptr = IF n = InitCap THEN Invalid ELSE n
          BY <1>1, <1>2, <4>1
        <4>3. Link(list, n + 1) = IF n = InitCap THEN Invalid ELSE n
          BY <1>1, <4>1 DEF Link
        <4> QED BY <4>2, <4>3
      <3> QED BY <3>1, <3>2 DEF IsFreeList
    <2>5. count = Cardinality(LiveSlots)
      BY <1>1, <1>3, FS_EmptySet
    <2> QED BY <1>2, <1>3, <2>1, <2>2, <2>3, <2>4, <2>5 DEF FreeListIsDeadSlots
  <1>8. TypeOK
    <2>1. \A i \in DOMAIN slots : slots[i].ptr \in IF slots[i].live THEN Objects ELSE FreeLinks
      BY <1>2, <1>3, <1>5
    <2>2. free_head \in FreeLinks /\ capacity \in Nat \ {0}
      BY <1>1, <1>4
    <2>3. /\ pc \in [Threads -> {"idle", "loaded", "checked"}] /\ DOMAIN arg = Threads
          /\ \A t \in Threads : pc[t] = "idle"
      BY DEF Init
    <2> QED BY <1>6, <2>1, <2>2, <2>3 DEF TypeOK, Slot
  <1> QED BY <1>7, <1>8 DEF TableInvariant

(* Each operation is one of the map that handle.h promises.                *)
LEMMA OperationsKeepPromise ==
  ASSUME TableInvariant
  PROVE  /\ \A o \in Objects : Alloc(o) => Promise!Next
         /\ \A h \in DOMAIN slots : Free(h) => Promise!Next
         /\ \A h \in DOMAIN slots, o \in Objects : SetPtr(h, o) => Promise!Next
  <1> DEFINE names == [h \in LiveSlots |-> slots[h].ptr]
  <1>1. LiveSlots \subseteq DOMAIN slots
    BY DEF LiveSlots
  <1>2. ASSUME NEW o \in Objects, Alloc(o) PROVE Promise!Next
    <2>1. /\ AllocIdx \notin LiveSlots /\ LiveSlots' = LiveSlots \cup {AllocIdx}
          /\ slots'[AllocIdx].ptr = o /\ count' = count + 1
          /\ \A i \in LiveSlots : slots'[i].ptr = slots[i].ptr
      <3>1. slots'[AllocIdx] = [live |-> TRUE, marked |-> FALSE, ptr |-> o]
        BY <1>2, AllocEffect
      <3>2. slots'[AllocIdx].ptr = o
        BY <3>1
      <3>3. \A i \in LiveSlots : slots'[i] = slots[i]
        BY <1>2, AllocEffect
      <3>4. AllocIdx \notin LiveSlots /\ LiveSlots' = LiveSlots \cup {AllocIdx} /\ count' = count + 1
        BY <1>2, AllocEffect
      <3> QED BY <3>2, <3>3, <3>4
    <2>2. names' = [x \in LiveSlots \cup {AllocIdx} |-> IF x = AllocIdx THEN o ELSE names[x]]
      BY <2>1
    <2>3. Promise!Alloc(o)
      BY <2>1, <2>2 DEF Promise!Alloc
    <2> QED BY <2>3 DEF Promise!Next
  <1>3. ASSUME NEW h \in DOMAIN slots, Free(h) PROVE Promise!Next
    <2>1. /\ LiveSlots' = LiveSlots \ {h} /\ h \in LiveSlots /\ count' = count - 1
          /\ \A i \in LiveSlots \ {h} : slots'[i] = slots[i]
      BY <1>1, <1>3, FreeEffect
    <2>2. names' = [x \in LiveSlots \ {h} |-> names[x]]
      BY <2>1
    <2>3. Promise!Free(h)
      BY <2>1, <2>2 DEF Promise!Free
    <2> QED BY <2>1, <2>3 DEF Promise!Next
  <1>4. ASSUME NEW h \in DOMAIN slots, NEW o \in Objects, SetPtr(h, o) PROVE Promise!Next
    <2>1. /\ LiveSlots' = LiveSlots /\ h \in LiveSlots /\ slots'[h].ptr = o /\ count' = count
          /\ \A i \in LiveSlots \ {h} : slots'[i] = slots[i]
      BY <1>1, <1>4, SetPtrEffect DEF SetPtr
    <2>2. names' = [names EXCEPT ![h] = o]
      BY <2>1
    <2>3. Promise!SetPtr(h, o)
      BY <2>1, <2>2 DEF Promise!SetPtr
    <2> QED BY <2>1, <2>3 DEF Promise!Next
  <1> QED BY <1>2, <1>3, <1>4

(* Steps of get change nothing of the table; and the others leave alive    *)
(* what a get has been given.                                              *)
LEMMA TableStep ==
  ASSUME TableInvariant, [Next]_vars
  PROVE  TableInvariant' /\ [Promise!Next]_(Promise!hvars)
  <1>1. TypeOK /\ FreeListIsDeadSlots
    BY DEF TableInvariant
  <1>2. ASSUME UNCHANGED tvars,
               pc' \in [Threads -> {"idle", "loaded", "checked"}], DOMAIN arg' = Threads,
               \A t \in Threads : pc'[t] # "idle" => arg'[t] \in LiveSlots
        PROVE  TableInvariant' /\ UNCHANGED Promise!hvars
    <2>1. LiveSlots' = LiveSlots /\ DeadSlots' = DeadSlots /\ FreeLinks' = FreeLinks
      BY <1>2 DEF tvars, LiveSlots, DeadSlots, FreeLinks
    <2>2. TypeOK'
      BY <1>1, <1>2, <2>1 DEF TypeOK, tvars
    <2>3. FreeListIsDeadSlots'
      <3>1. PICK list \in [1..(capacity - count) -> DeadSlots] :
              /\ IsFreeList(list)
              /\ \A m, n \in DOMAIN list : list[m] = list[n] => m = n
              /\ \A i \in DeadSlots : \E n \in DOMAIN list : list[n] = i
        BY <1>1 DEF FreeListIsDeadSlots
      <3>2. IsFreeList(list)'
        BY <1>2, <3>1 DEF IsFreeList, Link, tvars
      <3>3. UNCHANGED <<slots, capacity, count>>
        BY <1>2 DEF tvars
      <3> QED BY <1>1, <2>1, <3>1, <3>2, <3>3 DEF FreeListIsDeadSlots
    <2> QED BY <1>2, <2>1, <2>2, <2>3 DEF TableInvariant, Promise!hvars, tvars
  <1>3. ASSUME UNCHANGED gvars, FreeListIsDeadSlots',
               slots' \in [0..(capacity' - 1) -> Slot'],
               \A i \in DOMAIN slots' :
                 slots'[i].ptr \in IF slots'[i].live THEN Objects ELSE FreeLinks',
               free_head' \in FreeLinks', capacity' \in Nat \ {0},
               \A t \in Threads : pc[t] # "idle" => arg[t] \in LiveSlots'
        PROVE  TableInvariant'
    BY <1>1, <1>3 DEF TableInvariant, TypeOK, Slot, gvars
  <1>4. ASSUME NEW o \in Objects, Alloc(o), UNCHANGED gvars
        PROVE  TableInvariant' /\ Promise!Next
    <2>1. Promise!Next
      BY <1>4, OperationsKeepPromise
    <2> QED BY <1>1, <1>3, <1>4, <2>1, AllocEffect DEF TypeOK
  <1>5. ASSUME NEW h \in DOMAIN slots, ~InUse(h), Free(h), UNCHANGED gvars
        PROVE  TableInvariant' /\ Promise!Next
    <2>1. Promise!Next
      BY <1>5, OperationsKeepPromise
    <2>2. \A t \in Threads : pc[t] # "idle" => arg[t] \in LiveSlots'
      BY <1>1, <1>5, FreeEffect DEF InUse, TypeOK
    <2> QED BY <1>1, <1>3, <1>5, <2>1, <2>2, FreeEffect DEF TypeOK
  <1>6. ASSUME NEW h \in DOMAIN slots, NEW o \in Objects, SetPtr(h, o), UNCHANGED gvars
        PROVE  TableInvariant' /\ Promise!Next
    <2>1. Promise!Next
      BY <1>6, OperationsKeepPromise
    <2> QED BY <1>1, <1>3, <1>6, <2>1, SetPtrEffect DEF TypeOK
  <1>7. ASSUME NEW t \in Threads, NEW h \in DOMAIN slots, GetLoad(t, h)
        PROVE  TableInvariant' /\ UNCHANGED Promise!hvars
    BY <1>1, <1>2, <1>7 DEF GetLoad, TypeOK, LiveSlots
  <1>8. ASSUME NEW t \in Threads, GetAssert(t) \/ GetLocked(t)
        PROVE  TableInvariant' /\ UNCHANGED Promise!hvars
    BY <1>1, <1>2, <1>8 DEF GetAssert, GetLocked, TypeOK
  <1>9. CASE UNCHANGED vars
    BY <1>1, <1>2, <1>9 DEF vars, gvars, TypeOK
  <1> QED BY <1>4, <1>5, <1>6, <1>7, <1>8, <1>9 DEF Next

(* handle.c: whatever is allocated, freed, set and got in any order, the   *)
(* free list holds every dead slot once and no live one.                   *)
THEOREM TableIsConsistent == Spec => []TableInvariant
  BY InitTable, TableStep, PTL DEF Spec

(* handle.h: a handle names one object from its allocation until it is     *)
(* freed or set.                                                           *)
THEOREM TableImplementsMap == Spec => ImplementsHandleMap
  <1>1. Init => Promise!Init
    <2> SUFFICES ASSUME Init PROVE Promise!Init
      OBVIOUS
    <2>1. \A i \in DOMAIN slots : ~slots[i].live
      BY DeadFields DEF Init
    <2>2. LiveSlots = {} /\ count = 0
      BY <2>1 DEF LiveSlots, Init
    <2> QED BY <2>2 DEF Promise!Init
  <1> QED BY <1>1, InitTable, TableStep, PTL DEF Spec, ImplementsHandleMap, Promise!Spec

-----------------------------------------------------------------------------
(* The collector.  Registry and table name each other; and while it marks  *)
(* and sweeps, a mark means that the block is one of the roots.            *)
RegistryOK ==
  /\ live_blocks \in Seq(Blocks)
  /\ \A i, j \in DOMAIN live_blocks : live_blocks[i] = live_blocks[j] => i = j
  /\ DOMAIN handle_of = Blocks
  /\ \A b \in Registered : handle_of[b] \in LiveSlots /\ slots[handle_of[b]].ptr = b
  /\ \A h \in LiveSlots : slots[h].ptr \in Registered /\ handle_of[slots[h].ptr] = h

MarksAreRoots ==
  /\ gc \in {"idle", "mark", "sweep"} /\ next \in Nat \ {0}
  /\ gc # "idle" => roots = reach
  /\ gc = "mark" => /\ todo \subseteq roots
                    /\ \A h \in LiveSlots : slots[h].marked <=> h \in roots \ todo
  /\ gc = "sweep" => /\ \A h \in LiveSlots : slots[h].marked <=> h \in roots
                     /\ \A i \in DOMAIN live_blocks :
                          i < next => slots[handle_of[live_blocks[i]]].marked

GetsIdle == \A t \in Threads : pc[t] = "idle"

MemInv == TableInvariant /\ GetsIdle /\ RegistryOK /\ MarksAreRoots /\ reach \subseteq LiveSlots

LEMMA InitMemory == MemInit => MemInv
  <1> SUFFICES ASSUME MemInit PROVE MemInv
    OBVIOUS
  <1>1. TableInvariant
    BY InitTable DEF MemInit
  <1>2. LiveSlots = {}
    <2>1. \A i \in DOMAIN slots : ~slots[i].live
      BY DeadFields DEF MemInit, Init
    <2> QED BY <2>1 DEF LiveSlots
  <1>3. Registered = {} /\ live_blocks = <<>> /\ <<>> \in Seq(Blocks) /\ DOMAIN live_blocks = {}
    BY EmptySeq DEF MemInit, Registered
  <1>4. RegistryOK
    BY <1>2, <1>3 DEF RegistryOK, MemInit
  <1> QED BY <1>1, <1>2, <1>4 DEF MemInv, MarksAreRoots, GetsIdle, MemInit, Init

(* live_unregister loses one entry and no other.                           *)
LEMMA Unregister ==
  ASSUME RegistryOK, NEW b \in Registered
  PROVE  LET shorter == Unregistered(b) IN
         /\ Remaining \in Nat \ {0}
         /\ shorter \in Seq(Blocks) /\ DOMAIN shorter = 1..(Remaining - 1)
         /\ \A i, j \in DOMAIN shorter : shorter[i] = shorter[j] => i = j
         /\ {shorter[i] : i \in DOMAIN shorter} = Registered \ {b}
         /\ \A i \in DOMAIN shorter : live_blocks[i] # b => shorter[i] = live_blocks[i]
  <1> DEFINE shorter == Unregistered(b)
  <1>1. Remaining \in Nat /\ DOMAIN live_blocks = 1..Remaining
        /\ \A i \in 1..Remaining : live_blocks[i] \in Blocks
    BY LenProperties, ElementOfSeq DEF RegistryOK, Remaining
  <1>2. PICK k \in 1..Remaining : live_blocks[k] = b
    BY <1>1 DEF Registered
  <1>3. Remaining \in Nat \ {0}
    BY <1>1, <1>2
  <1>4. /\ DOMAIN shorter = 1..(Remaining - 1)
        /\ \A i \in 1..(Remaining - 1) :
             shorter[i] = IF live_blocks[i] = b THEN live_blocks[Remaining] ELSE live_blocks[i]
    BY DEF Unregistered
  <1>5. \A i \in 1..(Remaining - 1) : i \in 1..Remaining /\ i # Remaining
    BY <1>3
  <1>6. Remaining \in 1..Remaining
    BY <1>3
  <1>7. \A i, j \in 1..Remaining : live_blocks[i] = live_blocks[j] => i = j
    BY <1>1 DEF RegistryOK
  <1>8. shorter \in Seq(Blocks)
    <2>1. shorter \in [1..(Remaining - 1) -> Blocks]
      BY <1>1, <1>4, <1>5, <1>6 DEF Unregistered
    <2>2. Remaining - 1 \in Nat
      BY <1>3
    <2> QED BY <2>1, <2>2, SeqDef
  <1>9. \A i, j \in DOMAIN shorter : shorter[i] = shorter[j] => i = j
    BY <1>2, <1>4, <1>5, <1>6, <1>7
  <1>10. {shorter[i] : i \in DOMAIN shorter} = Registered \ {b}
    <2>1. ASSUME NEW i \in DOMAIN shorter PROVE shorter[i] \in Registered \ {b}
      <3>1. i \in 1..Remaining /\ i # Remaining
        BY <1>4, <1>5
      <3>2. live_blocks[i] = b => live_blocks[Remaining] # b
        BY <1>2, <1>6, <1>7, <3>1
      <3> QED BY <1>1, <1>4, <1>6, <3>1, <3>2 DEF Registered
    <2>2. ASSUME NEW c \in Registered \ {b} PROVE \E i \in DOMAIN shorter : shorter[i] = c
      <3>1. PICK m \in 1..Remaining : live_blocks[m] = c
        BY <1>1 DEF Registered
      <3>2. CASE m = Remaining
        <4>1. k # Remaining
          BY <1>2, <3>1, <3>2
        <4>2. k \in DOMAIN shorter /\ shorter[k] = c
          BY <1>2, <1>3, <1>4, <3>1, <3>2, <4>1
        <4> QED BY <4>2
      <3>3. CASE m # Remaining
        <4>1. m \in DOMAIN shorter /\ shorter[m] = c
          BY <1>3, <1>4, <3>1, <3>3
        <4> QED BY <4>1
      <3> QED BY <3>2, <3>3
    <2> QED BY <2>1, <2>2
  <1>11. \A i \in DOMAIN shorter : live_blocks[i] # b => shorter[i] = live_blocks[i]
    BY <1>4
  <1> QED BY <1>3, <1>4, <1>8, <1>9, <1>10, <1>11

(* Freeing a block that is registered takes it out of table and registry.  *)
LEMMA FreeBlock ==
  ASSUME TableInvariant, GetsIdle, RegistryOK, NEW h \in LiveSlots, Free(h),
         live_blocks' = Unregistered(slots[h].ptr), UNCHANGED <<gvars, handle_of>>
  PROVE  /\ TableInvariant' /\ GetsIdle' /\ RegistryOK'
         /\ LiveSlots' = LiveSlots \ {h}
         /\ \A g \in LiveSlots' : slots'[g] = slots[g]
         /\ DOMAIN live_blocks' = 1..(Remaining - 1)
         /\ \A i \in DOMAIN live_blocks' :
              live_blocks[i] # slots[h].ptr => live_blocks'[i] = live_blocks[i]
  <1> DEFINE b == slots[h].ptr
  <1>1. h \in DOMAIN slots /\ b \in Registered /\ handle_of[b] = h
    BY DEF LiveSlots, RegistryOK
  <1>2. /\ LiveSlots' = LiveSlots \ {h}
        /\ \A i \in LiveSlots' : i \in DOMAIN slots /\ slots'[i] = slots[i]
    BY <1>1, FreeEffect DEF LiveSlots
  <1>3. /\ live_blocks' \in Seq(Blocks) /\ DOMAIN live_blocks' = 1..(Remaining - 1)
        /\ \A i, j \in DOMAIN live_blocks' : live_blocks'[i] = live_blocks'[j] => i = j
        /\ Registered' = Registered \ {b}
        /\ \A i \in DOMAIN live_blocks' : live_blocks[i] # b => live_blocks'[i] = live_blocks[i]
    BY <1>1, Unregister DEF Registered
  <1>4. \A c \in Registered' : handle_of'[c] \in LiveSlots' /\ slots'[handle_of'[c]].ptr = c
    BY <1>1, <1>2, <1>3 DEF RegistryOK
  <1>5. \A g \in LiveSlots' : slots'[g].ptr \in Registered' /\ handle_of'[slots'[g].ptr] = g
    BY <1>1, <1>2, <1>3 DEF RegistryOK
  <1>6. RegistryOK'
    BY <1>3, <1>4, <1>5 DEF RegistryOK
  <1>7. TableInvariant'
    BY <1>1, FreeEffect DEF TableInvariant, TypeOK, Slot, GetsIdle, gvars
  <1> QED BY <1>2, <1>3, <1>6, <1>7 DEF GetsIdle, gvars

LEMMA MemAllocKeeps ==
  ASSUME MemInv, NEW b \in Blocks, MemAlloc(b)
  PROVE  MemInv'
  <1>1. /\ TableInvariant /\ TypeOK /\ Alloc(b) /\ b \notin Registered /\ b \in Objects
        /\ gc = "idle" /\ UNCHANGED <<gvars, gc, next>>
        /\ live_blocks' = Append(live_blocks, b)
        /\ handle_of' = [handle_of EXCEPT ![b] = AllocIdx]
        /\ reach' = reach \cup {handle_of'[b]}
    BY DEF MemAlloc, MemInv, TableInvariant, AllocIdx, Blocks, ProgramRuns
  <1>2. /\ AllocIdx \notin LiveSlots /\ LiveSlots' = LiveSlots \cup {AllocIdx}
        /\ \A i \in LiveSlots : slots'[i] = slots[i]
    BY <1>1, AllocEffect
  <1>3. slots'[AllocIdx].ptr = b
    <2>1. slots'[AllocIdx] = [live |-> TRUE, marked |-> FALSE, ptr |-> b]
      BY <1>1, AllocEffect
    <2> QED BY <2>1
  <1>4. TableInvariant'
    <2>1. /\ FreeListIsDeadSlots' /\ capacity' \in Nat \ {0} /\ free_head' \in FreeLinks'
          /\ slots' \in [0..(capacity' - 1) -> Slot']
          /\ \A i \in DOMAIN slots' : slots'[i].ptr \in IF slots'[i].live THEN Objects ELSE FreeLinks'
      BY <1>1, AllocEffect
    <2> QED BY <1>1, <2>1 DEF TableInvariant, TypeOK, Slot, GetsIdle, MemInv, gvars
  <1>5. /\ RegistryOK /\ live_blocks \in Seq(Blocks) /\ Remaining \in Nat
        /\ DOMAIN live_blocks = 1..Remaining /\ \A i \in 1..Remaining : live_blocks[i] \in Registered
    BY LenProperties DEF MemInv, RegistryOK, Remaining, Registered
  <1>6. /\ live_blocks' \in Seq(Blocks) /\ DOMAIN live_blocks' = 1..(Remaining + 1)
        /\ live_blocks'[Remaining + 1] = b
        /\ \A i \in 1..Remaining : live_blocks'[i] = live_blocks[i]
    <2>1. /\ live_blocks' \in Seq(Blocks) /\ Len(live_blocks') = Remaining + 1
          /\ live_blocks'[Remaining + 1] = b
          /\ \A i \in 1..Remaining : live_blocks'[i] = live_blocks[i]
      BY <1>1, <1>5, AppendProperties DEF Remaining
    <2> QED BY <2>1, LenProperties
  <1>7. \A i \in 1..(Remaining + 1) : i \in 1..Remaining \/ i = Remaining + 1
    BY <1>5
  <1>8. Registered' = Registered \cup {b}
    <2>1. \A i \in 1..Remaining : i \in 1..(Remaining + 1)
      BY <1>5
    <2>2. Remaining + 1 \in 1..(Remaining + 1)
      BY <1>5
    <2> QED BY <1>5, <1>6, <1>7, <2>1, <2>2 DEF Registered
  <1>9. \A i, j \in DOMAIN live_blocks' : live_blocks'[i] = live_blocks'[j] => i = j
    <2>1. \A i, j \in 1..Remaining : live_blocks[i] = live_blocks[j] => i = j
      BY <1>5 DEF RegistryOK
    <2> QED BY <1>1, <1>5, <1>6, <1>7, <2>1
  <1>10. /\ DOMAIN handle_of' = Blocks /\ handle_of'[b] = AllocIdx
         /\ \A c \in Registered : handle_of'[c] = handle_of[c]
    BY <1>1, <1>5 DEF RegistryOK, Blocks
  <1>11. RegistryOK'
    <2>1. \A c \in Registered' : handle_of'[c] \in LiveSlots' /\ slots'[handle_of'[c]].ptr = c
      BY <1>2, <1>3, <1>5, <1>8, <1>10 DEF RegistryOK
    <2>2. \A h \in LiveSlots' : slots'[h].ptr \in Registered' /\ handle_of'[slots'[h].ptr] = h
      BY <1>2, <1>3, <1>5, <1>8, <1>10 DEF RegistryOK
    <2> QED BY <1>6, <1>9, <1>10, <2>1, <2>2 DEF RegistryOK, Blocks
  <1>12. MarksAreRoots' /\ GetsIdle' /\ reach' \subseteq LiveSlots'
    BY <1>1, <1>2, <1>10 DEF MemInv, MarksAreRoots, GetsIdle, gvars
  <1> QED BY <1>4, <1>11, <1>12 DEF MemInv

LEMMA MemFreeKeeps ==
  ASSUME MemInv, NEW h \in reach, MemFree(h)
  PROVE  MemInv'
  <1>1. /\ TableInvariant /\ GetsIdle /\ RegistryOK /\ h \in LiveSlots
        /\ Free(h) /\ live_blocks' = Unregistered(slots[h].ptr)
        /\ reach' = reach \ {h} /\ gc = "idle" /\ UNCHANGED <<gvars, handle_of, gc, next>>
    BY DEF MemInv, MemFree, ProgramRuns
  <1>2. /\ TableInvariant' /\ GetsIdle' /\ RegistryOK' /\ LiveSlots' = LiveSlots \ {h}
    BY <1>1, FreeBlock
  <1> QED BY <1>1, <1>2 DEF MemInv, MarksAreRoots

LEMMA SweepStepKeeps ==
  ASSUME MemInv, SweepStep
  PROVE  MemInv'
  <1> DEFINE b == live_blocks[next]
             h == handle_of[b]
  <1>1. /\ TableInvariant /\ GetsIdle /\ RegistryOK /\ MarksAreRoots
        /\ gc = "sweep" /\ next <= Remaining /\ next \in Nat \ {0}
        /\ UNCHANGED <<gvars, handle_of, reach, gc, roots>>
    BY DEF MemInv, SweepStep, MarksAreRoots
  <1>2. Remaining \in Nat /\ DOMAIN live_blocks = 1..Remaining
    BY <1>1, LenProperties DEF RegistryOK, Remaining
  <1>3. next \in DOMAIN live_blocks /\ b \in Registered
    BY <1>1, <1>2 DEF Registered
  <1>4. h \in LiveSlots /\ slots[h].ptr = b
    BY <1>1, <1>3 DEF RegistryOK
  <1>5. CASE ~slots[h].marked /\ live_blocks' = Unregistered(b) /\ Free(h) /\ UNCHANGED next
    <2>1. /\ TableInvariant' /\ GetsIdle' /\ RegistryOK' /\ LiveSlots' = LiveSlots \ {h}
          /\ \A g \in LiveSlots' : slots'[g] = slots[g]
          /\ DOMAIN live_blocks' = 1..(Remaining - 1)
          /\ \A i \in DOMAIN live_blocks' : live_blocks[i] # b => live_blocks'[i] = live_blocks[i]
      BY <1>1, <1>4, <1>5, FreeBlock
    <2>2. h \notin roots /\ roots = reach
      BY <1>1, <1>4, <1>5 DEF MarksAreRoots
    <2>3. ASSUME NEW i \in DOMAIN live_blocks', i < next
          PROVE  slots'[handle_of[live_blocks'[i]]].marked
      <3>1. i \in DOMAIN live_blocks /\ i # next
        BY <1>1, <1>2, <2>1, <2>3
      <3>2. live_blocks[i] # b
        BY <1>1, <1>3, <3>1 DEF RegistryOK
      <3>3. live_blocks'[i] = live_blocks[i] /\ slots[handle_of[live_blocks[i]]].marked
        BY <1>1, <2>1, <2>3, <3>1, <3>2 DEF MarksAreRoots
      <3>4. live_blocks[i] \in Registered
        BY <3>1 DEF Registered
      <3>5. handle_of[live_blocks[i]] \in LiveSlots /\ handle_of[live_blocks[i]] # h
        BY <1>1, <1>4, <3>2, <3>4 DEF RegistryOK
      <3> QED BY <2>1, <3>3, <3>5
    <2>4. MarksAreRoots'
      BY <1>1, <1>5, <2>1, <2>3 DEF MarksAreRoots
    <2>5. reach' \subseteq LiveSlots'
      BY <1>1, <2>1, <2>2 DEF MemInv
    <2> QED BY <2>1, <2>4, <2>5 DEF MemInv
  <1>6. CASE slots[h].marked /\ next' = next + 1 /\ UNCHANGED <<tvars, live_blocks>>
    <2>1. \A i \in DOMAIN live_blocks : i < next + 1 => i < next \/ i = next
      BY <1>1, <1>2
    <2>2. MarksAreRoots'
      BY <1>1, <1>6, <2>1 DEF MarksAreRoots, LiveSlots, tvars
    <2>3. TableInvariant' /\ LiveSlots' = LiveSlots
      <3>1. UNCHANGED vars
        BY <1>1, <1>6 DEF vars
      <3> QED BY <1>1, <3>1, TableStep DEF LiveSlots, vars, tvars
    <2>4. RegistryOK'
      BY <1>1, <1>6, <2>3 DEF RegistryOK, Registered, tvars
    <2> QED BY <1>1, <2>2, <2>3, <2>4 DEF MemInv, GetsIdle, gvars
  <1> QED BY <1>5, <1>6 DEF SweepStep

(* Setting and clearing marks.                                             *)
LEMMA Remarked ==
  ASSUME TableInvariant, GetsIdle, RegistryOK, NEW m \in [DOMAIN slots -> BOOLEAN],
         slots' = [h \in DOMAIN slots |-> [slots[h] EXCEPT !.marked = m[h]]],
         \A h \in DOMAIN slots : ~slots[h].live => m[h] = slots[h].marked,
         UNCHANGED <<capacity, count, free_head, gvars, live_blocks, handle_of>>
  PROVE  /\ TableInvariant' /\ GetsIdle' /\ RegistryOK'
         /\ LiveSlots' = LiveSlots
         /\ \A h \in LiveSlots : slots'[h].marked = m[h] /\ slots'[h].ptr = slots[h].ptr
  <1>1. TypeOK /\ slots \in [DOMAIN slots -> Slot]
    BY DEF TableInvariant, TypeOK, Slot
  <1>2. ASSUME NEW i \in DOMAIN slots
        PROVE  /\ slots'[i] \in Slot /\ slots'[i].live = slots[i].live
               /\ slots'[i].ptr = slots[i].ptr /\ slots'[i].marked = m[i]
               /\ ~slots[i].live => slots'[i] = slots[i]
    <2>1. slots'[i] = [slots[i] EXCEPT !.marked = m[i]] /\ slots[i] \in Slot
      BY <1>1
    <2> QED BY <2>1 DEF Slot
  <1>3. DOMAIN slots' = DOMAIN slots /\ slots' = [i \in DOMAIN slots |-> slots'[i]]
    OBVIOUS
  <1>4. \A i \in DOMAIN slots : slots[i].live => slots[i].ptr \in Objects
    BY <1>1 DEF TypeOK
  <1>5. /\ LiveSlots' = LiveSlots /\ FreeListIsDeadSlots'
        /\ slots' \in [0..(capacity' - 1) -> Slot'] /\ free_head' \in FreeLinks'
        /\ \A i \in DOMAIN slots' : slots'[i].ptr \in IF slots'[i].live THEN Objects ELSE FreeLinks'
    BY <1>2, <1>3, <1>4, SlotsRewritten
  <1>6. TableInvariant'
    BY <1>1, <1>5 DEF TableInvariant, TypeOK, Slot, GetsIdle, gvars
  <1>7. \A h \in LiveSlots : slots'[h].marked = m[h] /\ slots'[h].ptr = slots[h].ptr
    BY <1>2 DEF LiveSlots
  <1>8. RegistryOK'
    <2>1. Registered' = Registered /\ DOMAIN live_blocks' = DOMAIN live_blocks
      BY DEF Registered
    <2>2. \A b \in Registered' : handle_of'[b] \in LiveSlots' /\ slots'[handle_of'[b]].ptr = b
      BY <1>5, <1>7, <2>1 DEF RegistryOK
    <2>3. \A h \in LiveSlots' : slots'[h].ptr \in Registered' /\ handle_of'[slots'[h].ptr] = h
      BY <1>5, <1>7, <2>1 DEF RegistryOK
    <2> QED BY <2>1, <2>2, <2>3 DEF RegistryOK
  <1> QED BY <1>5, <1>6, <1>7, <1>8 DEF GetsIdle, gvars

(* Marking changes no name a handle has.                                   *)
LEMMA MarksKeepNames ==
  ASSUME LiveSlots' = LiveSlots, UNCHANGED count,
         \A h \in LiveSlots : slots'[h].ptr = slots[h].ptr
  PROVE  UNCHANGED Promise!hvars
  <1>1. [h \in LiveSlots' |-> slots'[h].ptr] = [h \in LiveSlots |-> slots[h].ptr]
    OBVIOUS
  <1> QED BY <1>1 DEF Promise!hvars

LEMMA CollectBeginKeeps ==
  ASSUME MemInv, CollectBegin
  PROVE  MemInv' /\ UNCHANGED Promise!hvars
  <1> DEFINE m == [h \in DOMAIN slots |-> FALSE]
  <1>1. /\ TableInvariant /\ GetsIdle /\ RegistryOK /\ MarksAreRoots /\ TypeOK
        /\ gc' = "mark" /\ roots' = reach /\ todo' = reach
        /\ slots' = [h \in DOMAIN slots |-> [slots[h] EXCEPT !.marked = FALSE]]
        /\ UNCHANGED <<capacity, count, free_head, gvars, live_blocks, handle_of, reach, next>>
    BY DEF MemInv, TableInvariant, CollectBegin
  <1>2. /\ m \in [DOMAIN slots -> BOOLEAN] /\ \A h \in DOMAIN slots : m[h] = FALSE
        /\ slots' = [h \in DOMAIN slots |-> [slots[h] EXCEPT !.marked = m[h]]]
    BY <1>1
  <1>3. \A h \in DOMAIN slots : ~slots[h].live => m[h] = slots[h].marked
    <2> SUFFICES ASSUME NEW h \in DOMAIN slots, ~slots[h].live PROVE slots[h].marked = FALSE
      BY <1>2
    <2>1. ~slots[h].marked
      BY <1>1 DEF TableInvariant, FreeListIsDeadSlots, DeadSlots
    <2>2. slots[h].marked \in BOOLEAN
      BY <1>1 DEF TypeOK
    <2> QED BY <2>1, <2>2
  <1> HIDE DEF m
  <1>4. /\ TableInvariant' /\ GetsIdle' /\ RegistryOK' /\ LiveSlots' = LiveSlots
        /\ \A h \in LiveSlots : slots'[h].marked = m[h] /\ slots'[h].ptr = slots[h].ptr
    BY <1>1, <1>2, <1>3, Remarked
  <1>5. MarksAreRoots' /\ reach' \subseteq LiveSlots'
    BY <1>1, <1>2, <1>4 DEF MarksAreRoots, MemInv, LiveSlots
  <1> QED BY <1>1, <1>4, <1>5, MarksKeepNames DEF MemInv

LEMMA MarkRootKeeps ==
  ASSUME MemInv, NEW g \in todo, MarkRoot(g)
  PROVE  MemInv' /\ UNCHANGED Promise!hvars
  <1> DEFINE m == [h \in DOMAIN slots |-> IF h = g THEN TRUE ELSE slots[h].marked]
  <1>1. /\ TableInvariant /\ GetsIdle /\ RegistryOK /\ MarksAreRoots /\ TypeOK
        /\ gc = "mark" /\ todo' = todo \ {g}
        /\ slots' = [slots EXCEPT ![g].marked = TRUE]
        /\ UNCHANGED <<capacity, count, free_head, gvars, live_blocks, handle_of,
                       reach, gc, roots, next>>
    BY DEF MemInv, TableInvariant, MarkRoot
  <1>2. /\ todo \subseteq roots /\ roots = reach /\ reach \subseteq LiveSlots /\ g \in LiveSlots
        /\ \A h \in LiveSlots : slots[h].marked <=> h \in roots \ todo
    BY <1>1 DEF MarksAreRoots, MemInv
  <1>3. /\ g \in DOMAIN slots /\ slots[g].live
        /\ \A h \in DOMAIN slots : slots[h] \in Slot /\ slots[h].marked \in BOOLEAN
    BY <1>1, <1>2 DEF LiveSlots, TypeOK, Slot
  <1>4. m \in [DOMAIN slots -> BOOLEAN]
    BY <1>3
  <1>5. slots' = [h \in DOMAIN slots |-> [slots[h] EXCEPT !.marked = m[h]]]
    <2>1. ASSUME NEW h \in DOMAIN slots PROVE slots'[h] = [slots[h] EXCEPT !.marked = m[h]]
      BY <1>1, <1>3 DEF Slot
    <2>2. slots' = [h \in DOMAIN slots |-> slots'[h]]
      BY <1>1
    <2> QED BY <2>1, <2>2
  <1>6. \A h \in DOMAIN slots : ~slots[h].live => m[h] = slots[h].marked
    BY <1>3
  <1>7. \A h \in DOMAIN slots : m[h] = IF h = g THEN TRUE ELSE slots[h].marked
    OBVIOUS
  <1> HIDE DEF m
  <1>8. /\ TableInvariant' /\ GetsIdle' /\ RegistryOK' /\ LiveSlots' = LiveSlots
        /\ \A h \in LiveSlots : slots'[h].marked = m[h] /\ slots'[h].ptr = slots[h].ptr
    BY <1>1, <1>4, <1>5, <1>6, Remarked
  <1>9. \A h \in LiveSlots' : slots'[h].marked <=> h \in roots' \ todo'
    BY <1>1, <1>2, <1>7, <1>8 DEF LiveSlots
  <1>10. MarksAreRoots' /\ reach' \subseteq LiveSlots'
    BY <1>1, <1>2, <1>8, <1>9 DEF MarksAreRoots
  <1> QED BY <1>1, <1>8, <1>10, MarksKeepNames DEF MemInv

(* The steps that leave table and registry alone.                          *)
LEMMA TableUntouched ==
  ASSUME MemInv, UNCHANGED <<tvars, gvars, live_blocks, handle_of>>
  PROVE  /\ TableInvariant' /\ GetsIdle' /\ RegistryOK' /\ LiveSlots' = LiveSlots
         /\ UNCHANGED Promise!hvars
  <1>1. TableInvariant' /\ LiveSlots' = LiveSlots
    BY TableStep DEF MemInv, vars, LiveSlots, tvars
  <1>2. RegistryOK' /\ GetsIdle'
    BY <1>1 DEF MemInv, RegistryOK, Registered, GetsIdle, gvars, tvars
  <1>3. UNCHANGED Promise!hvars
    BY <1>1, MarksKeepNames DEF tvars
  <1> QED BY <1>1, <1>2, <1>3

LEMMA SweepBeginKeeps ==
  ASSUME MemInv, SweepBegin
  PROVE  MemInv' /\ UNCHANGED Promise!hvars
  <1>1. /\ TableInvariant' /\ GetsIdle' /\ RegistryOK' /\ LiveSlots' = LiveSlots
        /\ UNCHANGED Promise!hvars
    BY TableUntouched DEF SweepBegin
  <1>2. /\ gc = "mark" /\ todo = {} /\ gc' = "sweep" /\ next' = 1 /\ MarksAreRoots /\ RegistryOK
        /\ UNCHANGED <<slots, live_blocks, handle_of, reach, roots, todo>>
    BY DEF SweepBegin, MemInv, tvars
  <1>3. \A i \in DOMAIN live_blocks' : ~(i < next')
    BY <1>2, LenProperties DEF RegistryOK
  <1>4. MarksAreRoots'
    BY <1>1, <1>2, <1>3 DEF MarksAreRoots
  <1> QED BY <1>1, <1>2, <1>4 DEF MemInv

LEMMA SweepEndKeeps ==
  ASSUME MemInv, SweepEnd
  PROVE  MemInv' /\ UNCHANGED Promise!hvars
  <1>1. /\ TableInvariant' /\ GetsIdle' /\ RegistryOK' /\ LiveSlots' = LiveSlots
        /\ UNCHANGED Promise!hvars
    BY TableUntouched DEF SweepEnd
  <1>2. MarksAreRoots' /\ reach' = reach
    BY DEF SweepEnd, MemInv, MarksAreRoots
  <1> QED BY <1>1, <1>2 DEF MemInv

LEMMA ForgetKeeps ==
  ASSUME MemInv, NEW h \in reach, Forget(h)
  PROVE  MemInv' /\ UNCHANGED Promise!hvars
  <1>1. /\ TableInvariant' /\ GetsIdle' /\ RegistryOK' /\ LiveSlots' = LiveSlots
        /\ UNCHANGED Promise!hvars
    BY TableUntouched DEF Forget
  <1>2. MarksAreRoots' /\ reach' = reach \ {h}
    BY DEF Forget, ProgramRuns, MemInv, MarksAreRoots
  <1> QED BY <1>1, <1>2 DEF MemInv

LEMMA MemStep ==
  ASSUME MemInv, [MemNext]_<<vars, mvars>>
  PROVE  MemInv' /\ [Promise!Next]_(Promise!hvars)
  <1>0. TableInvariant /\ RegistryOK /\ reach \subseteq LiveSlots
    BY DEF MemInv
  <1>1. ASSUME NEW b \in Blocks, MemAlloc(b) PROVE MemInv' /\ Promise!Next
    <2>1. MemInv'
      BY <1>1, MemAllocKeeps
    <2>2. Promise!Next
      BY <1>0, <1>1, OperationsKeepPromise DEF MemAlloc, Blocks
    <2> QED BY <2>1, <2>2
  <1>2. ASSUME NEW h \in reach, MemFree(h) PROVE MemInv' /\ Promise!Next
    <2>1. MemInv'
      BY <1>2, MemFreeKeeps
    <2>2. h \in DOMAIN slots /\ Free(h)
      BY <1>0, <1>2 DEF MemFree, LiveSlots
    <2> QED BY <1>0, <2>1, <2>2, OperationsKeepPromise
  <1>3. ASSUME NEW h \in reach, Forget(h) PROVE MemInv' /\ UNCHANGED Promise!hvars
    BY <1>3, ForgetKeeps
  <1>4. CASE CollectBegin
    BY <1>4, CollectBeginKeeps
  <1>5. CASE SweepBegin
    BY <1>5, SweepBeginKeeps
  <1>6. CASE SweepEnd
    BY <1>6, SweepEndKeeps
  <1>7. ASSUME NEW h \in todo, MarkRoot(h) PROVE MemInv' /\ UNCHANGED Promise!hvars
    BY <1>7, MarkRootKeeps
  <1>8. CASE SweepStep
    <2> DEFINE b == live_blocks[next]
               h == handle_of[b]
    <2>1. MemInv'
      BY <1>8, SweepStepKeeps
    <2>2. CASE Free(h)
      <3>1. next \in DOMAIN live_blocks
        BY <1>0, <1>8, LenProperties DEF SweepStep, Remaining, RegistryOK, MemInv, MarksAreRoots
      <3>2. h \in LiveSlots
        BY <1>0, <3>1 DEF RegistryOK, Registered
      <3>3. h \in DOMAIN slots
        BY <3>2 DEF LiveSlots
      <3> HIDE DEF h, b
      <3> QED BY <1>0, <2>1, <2>2, <3>3, OperationsKeepPromise
    <2>3. CASE UNCHANGED tvars
      <3>1. LiveSlots' = LiveSlots /\ UNCHANGED <<slots, count>>
        BY <2>3 DEF tvars, LiveSlots
      <3>2. UNCHANGED Promise!hvars
        BY <3>1, MarksKeepNames
      <3> QED BY <2>1, <3>2
    <2> QED BY <1>8, <2>2, <2>3 DEF SweepStep
  <1>9. CASE UNCHANGED <<vars, mvars>>
    <2>1. /\ TableInvariant' /\ GetsIdle' /\ RegistryOK' /\ LiveSlots' = LiveSlots
          /\ UNCHANGED Promise!hvars
      BY <1>9, TableUntouched DEF vars, mvars
    <2>2. MarksAreRoots' /\ reach' = reach
      BY <1>9 DEF MemInv, MarksAreRoots, vars, tvars, mvars, LiveSlots
    <2> QED BY <2>1, <2>2 DEF MemInv
  <1> QED BY <1>1, <1>2, <1>3, <1>4, <1>5, <1>6, <1>7, <1>8, <1>9 DEF MemNext

(* The registry maps one to one onto its blocks, so it is as long as they  *)
(* are many.                                                               *)
LEMMA RegistryIsCounted ==
  ASSUME RegistryOK
  PROVE  RegistryMatchesHandles
  <1>1. /\ Remaining \in Nat /\ DOMAIN live_blocks = 1..Remaining
        /\ live_blocks \in [1..Remaining -> Registered]
    BY LenProperties DEF RegistryOK, Remaining, Registered
  <1>2. live_blocks \in Bijection(1..Remaining, Registered)
    <2>1. IsInjective(live_blocks)
      BY <1>1 DEF RegistryOK, IsInjective
    <2> QED BY <1>1, <2>1 DEF Bijection, Injection, Surjection, Registered
  <1>3. ExistsBijection(1..Remaining, Registered)
    BY <1>2 DEF ExistsBijection
  <1>4. Cardinality(Registered) = Remaining
    <2>1. IsFiniteSet(1..Remaining) /\ Cardinality(1..Remaining) = Remaining
      BY <1>1, FS_Interval
    <2> QED BY <1>3, <2>1, FS_Bijection
  <1>5. {handle_of[b] : b \in Registered} = LiveSlots
    BY DEF RegistryOK
  <1> QED BY <1>4, <1>5 DEF RegistryOK, RegistryMatchesHandles

(* core/memory.c: the handle table stays consistent whatever is allocated, *)
(* freed, marked and swept.                                                *)
THEOREM MemoryTableIsConsistent == MemSpec => []TableInvariant
  <1>1. MemInv => TableInvariant
    BY DEF MemInv
  <1> QED BY <1>1, InitMemory, MemStep, PTL DEF MemSpec

(* live_register and live_unregister keep the registry to the live blocks, *)
(* each once, and a block and its handle name each other.                  *)
THEOREM RegistryIsRight == MemSpec => []RegistryMatchesHandles
  <1>1. MemInv => RegistryMatchesHandles
    BY RegistryIsCounted DEF MemInv
  <1> QED BY <1>1, InitMemory, MemStep, PTL DEF MemSpec

(* cando_gc_collect frees nothing that was a root, and cando_memctrl_free  *)
(* only what its caller gives up.                                          *)
THEOREM ReachableIsKept == MemSpec => []ReachableSurvives
  <1>1. MemInv => ReachableSurvives
    BY DEF MemInv, ReachableSurvives, LiveSlots
  <1> QED BY <1>1, InitMemory, MemStep, PTL DEF MemSpec

(* cando_gc_sweep looks at every block although each one it frees is       *)
(* replaced by the last of the registry: when it ends only roots are left. *)
THEOREM CollectionIsComplete == MemSpec => SweepIsComplete
  <1>1. ASSUME MemInv, SweepEnd PROVE LiveSlots \subseteq roots
    <2> SUFFICES ASSUME NEW h \in LiveSlots PROVE h \in roots
      OBVIOUS
    <2>1. PICK i \in DOMAIN live_blocks : live_blocks[i] = slots[h].ptr
      BY <1>1 DEF MemInv, RegistryOK, Registered
    <2>2. handle_of[live_blocks[i]] = h
      BY <1>1, <2>1 DEF MemInv, RegistryOK
    <2>3. i < next
      BY <1>1, <2>1, LenProperties DEF MemInv, RegistryOK, MarksAreRoots, SweepEnd, Remaining
    <2> QED BY <1>1, <2>2, <2>3 DEF MemInv, MarksAreRoots, SweepEnd
  <1> QED BY <1>1, InitMemory, MemStep, PTL DEF MemSpec, SweepIsComplete

(* To its users the collector is invisible: every step of core/memory.c is *)
(* an alloc or a free of handle.h, or changes no handle at all.            *)
THEOREM MemoryImplementsMap == MemSpec => ImplementsHandleMap
  <1>1. MemInit => Promise!Init
    <2> SUFFICES ASSUME MemInit PROVE Promise!Init
      OBVIOUS
    <2>1. \A i \in DOMAIN slots : ~slots[i].live
      BY DeadFields DEF MemInit, Init
    <2>2. LiveSlots = {} /\ count = 0
      BY <2>1 DEF LiveSlots, MemInit, Init
    <2> QED BY <2>2 DEF Promise!Init
  <1> QED BY <1>1, InitMemory, MemStep, PTL DEF MemSpec, ImplementsHandleMap, Promise!Spec

=============================================================================
