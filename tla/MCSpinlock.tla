----------------------------- MODULE MCSpinlock -----------------------------
(* Spinlock on two CPUs and two nested locks. *)
EXTENDS Spinlock, TLC

Symmetry == Permutations(Cpu)
=============================================================================
