-------------------------- MODULE MCModuleLoading --------------------------
(* Instances of ModuleLoading: a module and a shared library in one         *)
(* directory and a module in another, under names that cross.               *)
EXTENDS ModuleLoading

MCDirOf(p) == IF p = "b" THEN "sub" ELSE "main"

MCResolve(d, n) == CASE n = "a" /\ d = "main" -> "a"
                     [] n = "b" -> "b"
                     [] n = "up" /\ d = "sub" -> "a"
                     [] n = "lib" /\ d = "main" -> "lib"
                     [] OTHER -> "no such file"
=============================================================================
