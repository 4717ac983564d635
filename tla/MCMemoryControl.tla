--------------------------- MODULE MCMemoryControl ---------------------------
(* Instances of MemoryControl for TLC. *)
EXTENDS MemoryControl, TLC

Symmetry == Permutations(Objects)

=============================================================================
