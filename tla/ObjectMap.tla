------------------------------ MODULE ObjectMap ------------------------------
(***************************************************************************)
(* The plain object of source/object/object.c: an open-addressing hash     *)
(* table with linear probing and tombstones, its live slots chained into a *)
(* doubly linked list in insertion order.                                  *)
(*                                                                         *)
(* Every call holds the object's lock for its whole duration, so each is   *)
(* one action.  Keys are interned strings compared by address; Hash is the *)
(* mix of the address (ptr_hash), which only matters modulo the capacity.  *)
(***************************************************************************)
EXTENDS Integers, Sequences, FiniteSets, SequencesExt

CONSTANTS
  Keys, Values,
  StaticKeys,(* the keys some calls set as static fields                   *)
  Hash,      (* Hash[k]: ptr_hash of the key's address                     *)
  InitCap,   (* the first capacity; 8 in the code                          *)
  MaxCap,    (* bound: the largest capacity explored                       *)
  Empty,     (* the key of an unused slot: NULL                            *)
  Tombstone, (* the key of a deleted slot                                  *)
  NoValue,   (* cdo_null()                                                 *)
  None       (* UINT32_MAX, no slot                                        *)

ASSUME ObjectMapAssumption ==
  /\ Hash \in [Keys -> Nat]
  /\ StaticKeys \subseteq Keys
  /\ InitCap \in Nat \ {0, 1} /\ MaxCap \in Nat
  /\ Empty # Tombstone /\ Empty \notin Keys /\ Tombstone \notin Keys
  /\ None \notin Nat

VARIABLES
  slots,            (* the slots 0 .. slot_cap-1                           *)
  slot_cap,
  field_count,
  tombstone_count,
  fifo_head,
  fifo_tail,
  readonly,
  answer            (* what the last call returned                         *)

vars == <<slots, slot_cap, field_count, tombstone_count, fifo_head, fifo_tail,
          readonly, answer>>

EmptySlot == [key |-> Empty, value |-> NoValue, static |-> FALSE,
              prev |-> None, next |-> None]

(* cdo_obj_alloc *)
Init ==
  /\ slots = <<>>
  /\ slot_cap = 0
  /\ field_count = 0
  /\ tombstone_count = 0
  /\ fifo_head = None
  /\ fifo_tail = None
  /\ readonly = FALSE
  /\ answer = TRUE

-----------------------------------------------------------------------------
(* The list *)

(* The slots of table t from slot h along the next links, after[n] the one   *)
(* reached by n of them.                                                   *)
Chain(t, h) ==
  LET c == Cardinality(DOMAIN t)
      succ == [i \in DOMAIN t \cup {None} |-> IF i = None THEN None ELSE t[i].next]
      after[n \in 0..c] == IF n = 0 THEN h ELSE succ[after[n - 1]]
      len == CHOOSE n \in 0..c : /\ n = c \/ after[n] = None
                                 /\ n = 0 \/ after[n - 1] # None
  IN  [n \in 1..len |-> after[n - 1]]

(* Where the key order of the object comes from. *)
Fifo == Chain(slots, fifo_head)

-----------------------------------------------------------------------------
(* obj_lookup *)

(* The slots a search for k inspects, in order. *)
Probe(t, k) ==
  LET c == Cardinality(DOMAIN t)
  IN  [i \in 1..c |-> (Hash[k] + i - 1) % c]

(* The search ends at the key, at an empty slot, or where it began. *)
ProbeEnd(t, k) ==
  LET p == Probe(t, k)
      stops == {i \in DOMAIN p : t[p[i]].key \in {k, Empty}}
  IN  IF stops = {} THEN Len(p) + 1 ELSE Min(stops)

Lookup(t, k) ==
  LET p == Probe(t, k) e == ProbeEnd(t, k)
  IN  IF e <= Len(p) /\ t[p[e]].key = k THEN p[e] ELSE None

(* Where a key that was not found goes: the first tombstone on the way. *)
InsertSlot(t, k) ==
  LET p == Probe(t, k) e == ProbeEnd(t, k)
      tombs == {i \in 1..(e - 1) : t[p[i]].key = Tombstone}
  IN  IF tombs # {} THEN p[Min(tombs)]
      ELSE IF e <= Len(p) THEN p[e] ELSE None

-----------------------------------------------------------------------------
(* obj_rehash, obj_ensure_capacity *)

FreshTable(cap) ==
  [slots |-> [i \in 0..(cap - 1) |-> EmptySlot], head |-> None, tail |-> None]

(* A field put into slot i and at the end of the list. *)
Enter(table, i, f) ==
  LET placed == [table.slots EXCEPT
                   ![i] = [key |-> f.key, value |-> f.value, static |-> f.static,
                           prev |-> table.tail, next |-> None]]
  IN  [slots |-> IF table.head = None THEN placed
                 ELSE [placed EXCEPT ![table.tail].next = i],
       head  |-> IF table.head = None THEN i ELSE table.head,
       tail  |-> i]

(* One field of the old table moved to a new one. *)
Reinsert(table, old) == Enter(table, InsertSlot(table.slots, old.key), old)

(* Fields move in list order; tombstones are dropped. *)
Rehashed(cap) ==
  LET from == Fifo
      moved[n \in 0..Len(from)] ==
        IF n = 0 THEN FreshTable(cap) ELSE Reinsert(moved[n - 1], slots[from[n]])
  IN  moved[Len(from)]

(* variant: the 75% test ignores tombstones *)
CrowdedByFields == (field_count + 1) * 4 > slot_cap * 3

(* One more entry must leave the table at most three quarters used. *)
Crowded == (field_count + tombstone_count + 1) * 4 > slot_cap * 3

(* Only a capacity of 0 is not doubled; doubling always makes room, since  *)
(* a table is never more than three quarters full of fields.               *)
NewCap == IF slot_cap = 0 THEN InitCap ELSE slot_cap * 2

Table ==
  IF slot_cap = 0 \/ Crowded
  THEN Rehashed(NewCap)
  ELSE [slots |-> slots, head |-> fifo_head, tail |-> fifo_tail]

TombstonesLeft == IF slot_cap = 0 \/ Crowded THEN 0 ELSE tombstone_count

-----------------------------------------------------------------------------
(* cdo_object_rawset, cdo_object_rawdelete, cdo_object_set_readonly *)

Refuse ==
  /\ answer' = FALSE
  /\ UNCHANGED <<slots, slot_cap, field_count, tombstone_count, fifo_head,
                 fifo_tail, readonly>>

(* The table is made to have room before the key is looked up, so a call   *)
(* that only updates a field, or fails on a static one, may rehash too.    *)
Grow ==
  /\ slot_cap' = IF slot_cap = 0 \/ Crowded THEN NewCap ELSE slot_cap
  /\ slot_cap' <= MaxCap

(* variant: a static field is overwritten *)
RawSetUpdateStatic(k, v, s) ==
  LET t == Table f == Lookup(t.slots, k)
  IN  /\ ~readonly
      /\ f # None
      /\ Grow
      /\ slots' = [t.slots EXCEPT ![f].value = v, ![f].static = s]
      /\ answer' = TRUE
      /\ fifo_head' = t.head
      /\ fifo_tail' = t.tail
      /\ tombstone_count' = TombstonesLeft
      /\ UNCHANGED <<field_count, readonly>>

RawSetUpdate(k, v, s) ==
  LET t == Table f == Lookup(t.slots, k)
  IN  /\ ~readonly
      /\ f # None
      /\ Grow
      /\ slots' = IF t.slots[f].static THEN t.slots
                  ELSE [t.slots EXCEPT ![f].value = v, ![f].static = s]
      /\ answer' = ~t.slots[f].static
      /\ fifo_head' = t.head
      /\ fifo_tail' = t.tail
      /\ tombstone_count' = TombstonesLeft
      /\ UNCHANGED <<field_count, readonly>>

RawSetInsert(k, v, s) ==
  LET t == Table
      i == InsertSlot(t.slots, k)
      new == Enter(t, i, [key |-> k, value |-> v, static |-> s])
  IN  /\ ~readonly
      /\ Lookup(t.slots, k) = None
      /\ Grow
      /\ slots' = new.slots
      /\ fifo_head' = new.head
      /\ fifo_tail' = new.tail
      /\ field_count' = field_count + 1
      /\ tombstone_count' =
           IF t.slots[i].key = Tombstone THEN TombstonesLeft - 1
           ELSE TombstonesLeft
      /\ answer' = TRUE
      /\ UNCHANGED readonly

RawSet(k, v, s) ==
  \/ readonly /\ Refuse
  \/ RawSetUpdate(k, v, s)
  \/ RawSetInsert(k, v, s)

(* The list without slot i, and the slot turned into a tombstone. *)
Unlink(i) ==
  LET p == slots[i].prev n == slots[i].next
      left == IF p = None THEN slots ELSE [slots EXCEPT ![p].next = n]
      right == IF n = None THEN left ELSE [left EXCEPT ![n].prev = p]
  IN  [right EXCEPT ![i] = [EmptySlot EXCEPT !.key = Tombstone]]

RawDelete(k) ==
  LET i == Lookup(slots, k)
  IN  \/ (readonly \/ i = None) /\ Refuse
      \/ ~readonly /\ i # None /\ slots[i].static /\ Refuse
      \/ /\ ~readonly /\ i # None /\ ~slots[i].static
         /\ slots' = Unlink(i)
         /\ fifo_head' = IF slots[i].prev = None THEN slots[i].next ELSE fifo_head
         /\ fifo_tail' = IF slots[i].next = None THEN slots[i].prev ELSE fifo_tail
         /\ field_count' = field_count - 1
         /\ tombstone_count' = tombstone_count + 1
         /\ answer' = TRUE
         /\ UNCHANGED <<slot_cap, readonly>>

SetReadonly(b) ==
  /\ readonly' = b
  /\ answer' = TRUE
  /\ UNCHANGED <<slots, slot_cap, field_count, tombstone_count, fifo_head,
                 fifo_tail>>

Next ==
  \/ \E k \in Keys, v \in Values, s \in BOOLEAN :
       (s => k \in StaticKeys) /\ RawSet(k, v, s)
  \/ \E k \in Keys : RawDelete(k)
  \/ \E b \in BOOLEAN : SetReadonly(b)

Spec == Init /\ [][Next]_vars

-----------------------------------------------------------------------------
(* Correctness of the table and the list, and the ordered map they implement. *)

Live == {i \in DOMAIN slots : slots[i].key \in Keys}
Tombs == {i \in DOMAIN slots : slots[i].key = Tombstone}
Links == DOMAIN slots \cup {None}

(* Every variable has its type, and the two counters count what they say.  *)
TypeOK ==
  /\ DOMAIN slots = 0..(slot_cap - 1)
  /\ \A i \in DOMAIN slots :
       /\ slots[i].key \in Keys \cup {Empty, Tombstone}
       /\ slots[i].prev \in Links /\ slots[i].next \in Links
  /\ fifo_head \in Links /\ fifo_tail \in Links
  /\ field_count = Cardinality(Live)
  /\ tombstone_count = Cardinality(Tombs)

(* A field that is in the list is found by the probe, and no other: after  *)
(* any history of deletions, reused tombstones and rehashes, no key is     *)
(* hidden behind a gap or present twice.                                   *)
EveryFieldIsFound ==
  /\ \A k \in Keys :
       LET i == Lookup(slots, k)
       IN  (i # None) <=> (\E j \in Live : slots[j].key = k)
  /\ \A i, j \in Live : slots[i].key = slots[j].key => i = j

(* The list runs through exactly the live slots, once each, and can be     *)
(* walked both ways: what deletion and rehashing relink stays a list.      *)
ListThreadsLiveSlots ==
  LET l == Fifo
  IN  /\ ToSet(l) = Live
      /\ Len(l) = Cardinality(Live)
      /\ \A n \in 1..Len(l) :
           /\ slots[l[n]].prev = IF n = 1 THEN None ELSE l[n - 1]
           /\ n = Len(l) => fifo_tail = l[n]
      /\ l = <<>> => fifo_tail = None

(* The assertion insert_at != UINT32_MAX of cdo_object_rawset holds, and a *)
(* failed search ends early: there is always an unused slot, so tombstones *)
(* never fill the table.                                                   *)
SearchesEnd ==
  slot_cap > 0 => \E i \in DOMAIN slots : slots[i].key = Empty

(* A table that has every key where it is looked for, in a sound list.     *)
TableInvariant ==
  TypeOK /\ EveryFieldIsFound /\ ListThreadsLiveSlots /\ SearchesEnd

(* The keys in list order, and what is stored under each. *)
KeyOrder == LET l == Fifo IN [n \in 1..Len(l) |-> slots[l[n]].key]
FieldMap ==
  [k \in {slots[i].key : i \in DOMAIN slots} \cap Keys |->
     LET i == CHOOSE j \in DOMAIN slots : slots[j].key = k
     IN  [value |-> slots[i].value, static |-> slots[i].static]]

(* The table implements the ordered map: the key order is the list, the    *)
(* fields are its slots.                                                   *)
Promise == INSTANCE OrderedMap WITH order <- KeyOrder, field <- FieldMap,
                                    locked <- readonly

ImplementsOrderedMap == Promise!Spec

=============================================================================
