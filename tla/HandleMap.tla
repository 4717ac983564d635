------------------------------ MODULE HandleMap ------------------------------
(***************************************************************************)
(* What source/core/handle.h promises: a handle names one object from its  *)
(* allocation until it is freed or set, whatever happens to other handles. *)
(***************************************************************************)
EXTENDS Integers

CONSTANT Objects

VARIABLES
  names,     (* the object each handle in use names                        *)
  count      (* how many there are                                         *)

hvars == <<names, count>>

Init == names = [h \in {} |-> h] /\ count = 0

(* The handle is one that names nothing yet. *)
Alloc(o) ==
  /\ \E h \in DOMAIN names' \ DOMAIN names :
       names' = [x \in DOMAIN names \cup {h} |-> IF x = h THEN o ELSE names[x]]
  /\ count' = count + 1

SetPtr(h, o) ==
  /\ names' = [names EXCEPT ![h] = o]
  /\ UNCHANGED count

Free(h) ==
  /\ names' = [x \in DOMAIN names \ {h} |-> names[x]]
  /\ count' = count - 1

Next ==
  \/ \E o \in Objects : Alloc(o)
  \/ \E h \in DOMAIN names : Free(h) \/ \E o \in Objects : SetPtr(h, o)

Spec == Init /\ [][Next]_hvars

=============================================================================
