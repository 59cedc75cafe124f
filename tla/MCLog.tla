-------------------------------- MODULE MCLog --------------------------------
(* Log with interchangeable processes and blocks. *)
EXTENDS Log, TLC

Symmetry == Permutations(Op) \cup Permutations(Block)
=============================================================================
