------------------------------- MODULE MCProc --------------------------------
(* Proc with interchangeable CPUs. *)
EXTENDS Proc, TLC

Symmetry == Permutations(Cpu)
=============================================================================
