---------------------------- MODULE ObjectForeach ----------------------------
(***************************************************************************)
(* cdo_object_foreach (source/object/object.c) running while other threads *)
(* use the object.  The walk drops the read lock around every callback and *)
(* goes on from the slot index it read before, in the table as it is then. *)
(***************************************************************************)
EXTENDS ObjectMap

CONSTANTS
  MaxSeen,   (* bound: callbacks in one walk; deletions and insertions     *)
             (* ahead of it can keep it going for ever                     *)
  Freed      (* what is read from a table a rehash has freed               *)

VARIABLES
  walk,      (* "idle", "read" when the walk has let go of the lock and is *)
             (* about to load the key, "call" while the callback runs      *)
  at,        (* the slot the walk is at                                    *)
  size,      (* the capacity of the table it found the slot in: tables are *)
             (* told apart by capacity, since a rehash doubles it          *)
  idx,       (* the slot the walk goes on from                             *)
  seen,      (* the keys given to the callback so far                      *)
  due,       (* the keys of the object when the walk began                 *)
  disturbed  (* has a field been deleted or the table rebuilt since?       *)

wvars == <<walk, at, size, idx, seen, due, disturbed>>
allvars == <<vars, wvars>>

WalkInit ==
  /\ Init
  /\ walk = "idle" /\ at = None /\ size = 0 /\ idx = None
  /\ seen = <<>> /\ due = <<>> /\ disturbed = FALSE

(* Under the read lock: the slot, and its successor. *)
VisitFrom(i) ==
  /\ i # None
  /\ walk' = "read"
  /\ at' = i
  /\ size' = slot_cap
  /\ idx' = slots[i].next

(* variant: the walk starts from the newest field *)
BeginAtTail ==
  /\ walk = "idle"
  /\ VisitFrom(fifo_tail)
  /\ seen' = <<>>
  /\ due' = KeyOrder
  /\ disturbed' = FALSE
  /\ UNCHANGED vars

Begin ==
  /\ walk = "idle"
  /\ VisitFrom(fifo_head)
  /\ seen' = <<>>
  /\ due' = KeyOrder
  /\ disturbed' = FALSE
  /\ UNCHANGED vars

(* The lock released, s->key is loaded and the callback called with it. *)
CallFn ==
  /\ walk = "read"
  /\ walk' = "call"
  /\ seen' = Append(seen, IF size = slot_cap THEN slots[at].key ELSE Freed)
  /\ at' = None /\ size' = 0
  /\ UNCHANGED <<vars, idx, due, disturbed>>

(* The callback returned true and there is a slot to go on from. *)
Continue ==
  /\ walk = "call"
  /\ Len(seen) < MaxSeen
  /\ VisitFrom(idx)
  /\ UNCHANGED <<vars, seen, due, disturbed>>

(* No slot is left; a callback that returns false also ends the walk, but  *)
(* promises nothing about the rest.                                        *)
Finish ==
  /\ walk = "call"
  /\ idx = None
  /\ walk' = "idle"
  /\ seen' = <<>> /\ due' = <<>> /\ disturbed' = FALSE
  /\ UNCHANGED <<vars, at, size, idx>>

(* Another thread takes the object's lock while the walk does not hold it. *)
Interfere ==
  /\ Next
  /\ disturbed' = (walk # "idle" /\ (disturbed \/ field_count' < field_count
                                                \/ slot_cap' # slot_cap))
  /\ UNCHANGED <<walk, at, size, idx, seen, due>>

WalkNext == Begin \/ CallFn \/ Continue \/ Finish \/ Interfere

WalkSpec == WalkInit /\ [][WalkNext]_allvars

-----------------------------------------------------------------------------
(* A walk during which fields are only added and updated, in a table that  *)
(* keeps its size, gives the callback every field the object had when the  *)
(* walk began, in insertion order, and after them only fields added since. *)
UndisturbedWalkIsComplete ==
  walk = "call" /\ ~disturbed =>
    /\ IsPrefix(seen, KeyOrder)
    /\ idx = None => IsPrefix(due, seen)

=============================================================================
