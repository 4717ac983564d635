----------------------------- MODULE HandleTable -----------------------------
(***************************************************************************)
(* The handle table of source/core/handle.c: scripts name objects by index *)
(* into a growing array of slots, and free slots are chained through their *)
(* ptr field.                                                              *)
(*                                                                         *)
(* alloc, set and free hold the table's write lock and are one action      *)
(* each.  get holds the read lock for the last of its steps only: its      *)
(* assertions read t->slots without it, and growing reallocates that array.*)
(***************************************************************************)
EXTENDS Integers, Sequences, FiniteSets

CONSTANTS
  Threads,
  Objects,   (* what slots point to                                        *)
  Invalid,   (* CANDO_INVALID_HANDLE                                       *)
  InitCap,   (* initial capacity; 256 in the code                          *)
  MaxCap,    (* bound: the largest capacity                                *)
  GrowUnderGet (* may the table grow while a thread is inside get?         *)

ASSUME HandleAssumption ==
  /\ InitCap \in Nat \ {0} /\ MaxCap \in Nat /\ InitCap <= MaxCap
  /\ Invalid \notin Nat /\ Invalid \notin Objects
  /\ Objects \cap Nat = {}
  /\ GrowUnderGet \in BOOLEAN

VARIABLES
  slots,     (* the slots 0 .. capacity-1                                  *)
  capacity,
  count,     (* live slots                                                 *)
  free_head,
  pc,        (* where each thread is in cando_handle_get                   *)
  arg,       (* the handle it was called with                              *)
  array,     (* the capacity of the array it loaded: arrays are told apart *)
             (* by their capacity, since growing doubles it                *)
  got        (* what its last call returned                                *)

tvars == <<slots, capacity, count, free_head>>
gvars == <<pc, arg, array, got>>
vars == <<tvars, gvars>>

Dead(link) == [live |-> FALSE, marked |-> FALSE, ptr |-> link]

(* cando_handle_table_init *)
Init ==
  /\ slots = [i \in 0..(InitCap - 1) |->
                Dead(IF i = InitCap - 1 THEN Invalid ELSE i + 1)]
  /\ capacity = InitCap
  /\ count = 0
  /\ free_head = 0
  /\ pc = [t \in Threads |-> "idle"]
  /\ arg = [t \in Threads |-> Invalid]
  /\ array = [t \in Threads |-> InitCap]
  /\ got = [t \in Threads |-> Invalid]

-----------------------------------------------------------------------------
(* handle_table_grow: the new slots go before the old free list. *)
Grown ==
  [i \in 0..(2 * capacity - 1) |->
     IF i < capacity THEN slots[i]
     ELSE Dead(IF i = 2 * capacity - 1 THEN free_head ELSE i + 1)]

MayGrow ==
  /\ 2 * capacity <= MaxCap
  /\ GrowUnderGet \/ \A t \in Threads : pc[t] # "loaded"

(* variant: the head of the list is not advanced *)
AllocKeepsHead(o) ==
  LET full == free_head = Invalid
      table == IF full THEN Grown ELSE slots
      idx == IF full THEN capacity ELSE free_head
  IN  /\ full => MayGrow
      /\ capacity' = IF full THEN 2 * capacity ELSE capacity
      /\ slots' = [table EXCEPT ![idx] =
                     [live |-> TRUE, marked |-> FALSE, ptr |-> o]]
      /\ free_head' = idx
      /\ count' = count + 1

(* cando_handle_alloc *)
Alloc(o) ==
  LET full == free_head = Invalid
      table == IF full THEN Grown ELSE slots
      idx == IF full THEN capacity ELSE free_head
  IN  /\ full => MayGrow
      /\ capacity' = IF full THEN 2 * capacity ELSE capacity
      /\ slots' = [table EXCEPT ![idx] =
                     [live |-> TRUE, marked |-> FALSE, ptr |-> o]]
      /\ free_head' = table[idx].ptr
      /\ count' = count + 1

(* variant: the freed slot is not linked in front of the list *)
FreeUnlinked(h) ==
  /\ slots[h].live
  /\ slots' = [slots EXCEPT ![h] = Dead(Invalid)]
  /\ free_head' = h
  /\ count' = count - 1
  /\ UNCHANGED capacity

(* cando_handle_free; its caller asserts the handle is live. *)
Free(h) ==
  /\ slots[h].live
  /\ slots' = [slots EXCEPT ![h] = Dead(free_head)]
  /\ free_head' = h
  /\ count' = count - 1
  /\ UNCHANGED capacity

(* cando_handle_set *)
SetPtr(h, o) ==
  /\ slots[h].live
  /\ slots' = [slots EXCEPT ![h].ptr = o]
  /\ UNCHANGED <<capacity, count, free_head>>

-----------------------------------------------------------------------------
(* cando_handle_get: the assertions load t->slots, *)
GetLoad(t, h) ==
  /\ pc[t] = "idle"
  /\ slots[h].live
  /\ pc' = [pc EXCEPT ![t] = "loaded"]
  /\ arg' = [arg EXCEPT ![t] = h]
  /\ array' = [array EXCEPT ![t] = capacity]
  /\ UNCHANGED <<tvars, got>>

(* then read the slot's live flag in the array they loaded, *)
GetAssert(t) ==
  /\ pc[t] = "loaded"
  /\ pc' = [pc EXCEPT ![t] = "checked"]
  /\ UNCHANGED <<tvars, arg, array, got>>

(* and ptr is read under the read lock. *)
GetLocked(t) ==
  /\ pc[t] = "checked"
  /\ pc' = [pc EXCEPT ![t] = "idle"]
  /\ got' = [got EXCEPT ![t] = slots[arg[t]].ptr]
  /\ UNCHANGED <<tvars, arg, array>>

(* Nobody uses a handle its owner frees; OP_THREAD, the only caller in the *)
(* VM, frees a handle no script has seen.                                  *)
InUse(h) == \E t \in Threads : pc[t] # "idle" /\ arg[t] = h

Next ==
  \/ \E o \in Objects : Alloc(o) /\ UNCHANGED gvars
  \/ \E h \in DOMAIN slots : ~InUse(h) /\ Free(h) /\ UNCHANGED gvars
  \/ \E h \in DOMAIN slots, o \in Objects : SetPtr(h, o) /\ UNCHANGED gvars
  \/ \E t \in Threads, h \in DOMAIN slots : GetLoad(t, h)
  \/ \E t \in Threads : GetAssert(t) \/ GetLocked(t)

Spec == Init /\ [][Next]_vars

-----------------------------------------------------------------------------
FreeLinks == 0..(capacity - 1) \cup {Invalid}
DeadSlots == {i \in DOMAIN slots : ~slots[i].live}
LiveSlots == {i \in DOMAIN slots : slots[i].live}

(* Every variable has its type: the ptr of a live slot is an object, that  *)
(* of a dead one a free-list link inside the table, and get is given a     *)
(* handle that stays live until it returns.                                *)
TypeOK ==
  /\ capacity \in Nat \ {0}
  /\ slots \in [0..(capacity - 1) -> [live: BOOLEAN, marked: BOOLEAN,
                                      ptr: Objects \cup FreeLinks]]
  /\ \A i \in DOMAIN slots :
       slots[i].ptr \in IF slots[i].live THEN Objects ELSE FreeLinks
  /\ free_head \in FreeLinks
  /\ pc \in [Threads -> {"idle", "loaded", "checked"}]
  /\ DOMAIN arg = Threads
  /\ \A t \in Threads : pc[t] # "idle" => arg[t] \in LiveSlots

(* The chain from free_head on is this list and ends after it.             *)
Link(list, n) == IF n \in DOMAIN list THEN list[n] ELSE Invalid
IsFreeList(list) ==
  /\ free_head = Link(list, 1)
  /\ \A n \in DOMAIN list : slots[list[n]].ptr = Link(list, n + 1)

(* The free list holds every dead slot once and no live one, so no slot is *)
(* lost to growing and alloc never hands out a handle that is in use; the  *)
(* count is that of the live slots.                                        *)
FreeListIsDeadSlots ==
  /\ \E list \in [1..(capacity - count) -> DeadSlots] :
       /\ IsFreeList(list)
       /\ \A m, n \in DOMAIN list : list[m] = list[n] => m = n
       /\ \A i \in DeadSlots : \E n \in DOMAIN list : list[n] = i
  /\ \A i \in DeadSlots : ~slots[i].marked
  /\ count = Cardinality(LiveSlots)

(* Every slot is named by one handle that is in use, or free exactly once. *)
TableInvariant == TypeOK /\ FreeListIsDeadSlots

(* The table is the map from handles to objects that handle.h promises:    *)
(* alloc gives a handle nothing else names, and no other operation changes *)
(* what a handle names.                                                    *)
Promise ==
  INSTANCE HandleMap WITH
    names <- [h \in LiveSlots |-> slots[h].ptr]

ImplementsHandleMap == Promise!Spec

(* handle.h: "structural changes (alloc / free / resize) are protected by  *)
(* the table's embedded write lock"; get reads an array that is still      *)
(* allocated.  Its assertions may not: this does not hold of the code.     *)
GetReadsCurrentArray ==
  \A t \in Threads : pc[t] = "loaded" => array[t] = capacity

=============================================================================
