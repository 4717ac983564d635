-------------------------- MODULE MCSharedGlobals --------------------------
(* SharedGlobals for TLC: two threads, one global, a literal and a string  *)
(* that a thread makes.                                                    *)
EXTENDS SharedGlobals, TLC

CONSTANTS t1, t2, literal, made

Symmetry == Permutations(Threads)

=============================================================================
