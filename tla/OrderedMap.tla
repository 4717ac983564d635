----------------------------- MODULE OrderedMap -----------------------------
(***************************************************************************)
(* What source/object/object.h promises of a plain object: a finite map    *)
(* that remembers the order in which its fields were first set, whose      *)
(* static fields keep their value, and which refuses every change while it *)
(* is readonly.                                                            *)
(***************************************************************************)
EXTENDS Integers, SequencesExt

CONSTANTS Keys, Values

VARIABLES
  order,     (* the keys, oldest field first                               *)
  field,     (* field[k] for each key in order: its value, is it static    *)
  locked,    (* the readonly flag                                          *)
  answer     (* what the last call returned                                *)

mvars == <<order, field, locked, answer>>

Fields == DOMAIN field

Init ==
  /\ order = <<>>
  /\ field = <<>>
  /\ locked = FALSE
  /\ answer = TRUE

Refuse ==
  /\ answer' = FALSE
  /\ UNCHANGED <<order, field, locked>>

Frozen(k) == locked \/ (k \in Fields /\ field[k].static)

Set(k, v, s) ==
  \/ Frozen(k) /\ Refuse
  \/ /\ ~Frozen(k)
     /\ answer' = TRUE
     /\ UNCHANGED locked
     /\ field' = [x \in Fields \cup {k} |->
                    IF x = k THEN [value |-> v, static |-> s] ELSE field[x]]
     /\ order' = IF k \in Fields THEN order ELSE Append(order, k)

Delete(k) ==
  \/ (Frozen(k) \/ k \notin Fields) /\ Refuse
  \/ /\ ~Frozen(k) /\ k \in Fields
     /\ answer' = TRUE
     /\ UNCHANGED locked
     /\ field' = [x \in Fields \ {k} |-> field[x]]
     /\ \E i \in DOMAIN order : order[i] = k /\ order' = RemoveAt(order, i)

SetReadonly(b) ==
  /\ locked' = b
  /\ answer' = TRUE
  /\ UNCHANGED <<order, field>>

Next ==
  \/ \E k \in Keys, v \in Values, s \in BOOLEAN : Set(k, v, s)
  \/ \E k \in Keys : Delete(k)
  \/ \E b \in BOOLEAN : SetReadonly(b)

Spec == Init /\ [][Next]_mvars

=============================================================================
