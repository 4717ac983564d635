--------------------------- MODULE MCObjectForeach ---------------------------
(* Instances of ObjectMap and ObjectForeach for TLC: k1 and k2 collide in  *)
(* every table and probe over the end of it, k3 starts next to them.       *)
EXTENDS ObjectForeach

CONSTANTS k1, k2, k3

Hashes == [k \in Keys |-> IF k = k3 THEN 6 ELSE 7]

=============================================================================
