------------------------------ MODULE MCBcache -------------------------------
EXTENDS Bcache, TLC

\* Processes, blocks and values are interchangeable.
Symmetry == Permutations(Proc) \cup Permutations(Block) \cup Permutations(Value)
=============================================================================
