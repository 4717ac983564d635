------------------------------ MODULE ArrayList ------------------------------
(***************************************************************************)
(* What source/object/array.h promises of an array: a list of values that  *)
(* grows as it is written to, and that readonly protects.  Taking from the *)
(* end is array.pop's.                                                     *)
(*                                                                         *)
(* In one call the code differs from the header: an insert past the end    *)
(* is an append in the code, and so a Push here, and fills the gap with    *)
(* null in the header (InsertPastEnd).  InsertedPastEnd is what the header *)
(* says of an array that is only inserted into past its end.               *)
(***************************************************************************)
EXTENDS Integers, Sequences, SequencesExt

CONSTANTS Vals, NullVal, MaxIndex

VARIABLES list, frozen

lvars == <<list, frozen>>

Init == list = <<>> /\ frozen = FALSE

Push(v) == list' = Append(list, v)

Insert(i, v) == i <= Len(list) /\ list' = InsertAt(list, i + 1, v)

Take(i) == i < Len(list) /\ list' = RemoveAt(list, i + 1)

(* Assigning past the end fills the gap with null. *)
Assign(i, v) ==
  list' = [n \in 1..(IF i >= Len(list) THEN i + 1 ELSE Len(list)) |->
             IF n = i + 1 THEN v
             ELSE IF n > Len(list) THEN NullVal ELSE list[n]]

InsertPastEnd(i, v) == i > Len(list) /\ Assign(i, v)

Pop == list # <<>> /\ list' = Front(list)

Next ==
  \/ /\ ~frozen
     /\ \/ \E v \in Vals : \/ Push(v)
                          \/ \E i \in 0..MaxIndex : Insert(i, v) \/ Assign(i, v)
        \/ \E i \in 0..MaxIndex : Take(i)
     /\ UNCHANGED frozen
  \/ Pop /\ UNCHANGED frozen
  \/ \E b \in BOOLEAN : frozen' = b /\ UNCHANGED list

Spec == Init /\ [][Next]_lvars

InsertedPastEnd ==
  Init /\ [][\E i \in 0..MaxIndex, v \in Vals : InsertPastEnd(i, v)]_lvars

=============================================================================
