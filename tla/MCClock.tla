------------------------------- MODULE MCClock -------------------------------
(* Clock with interchangeable CPUs and channels. *)
EXTENDS Clock, TLC

Symmetry == Permutations(Cpu) \cup Permutations(Chan)

NapTimes == {-1, 2}
=============================================================================
