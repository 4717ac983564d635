--------------------------- MODULE MCArrayStorage ---------------------------
(* Instances of ArrayStorage for TLC. *)
EXTENDS ArrayStorage, TLC

Symmetry == Permutations(Strings)

=============================================================================
