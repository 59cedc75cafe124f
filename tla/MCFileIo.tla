------------------------------- MODULE MCFileIo -------------------------------
(* FileIo with an image of one short file and interchangeable readers of a pipe. *)
EXTENDS FileIo, TLC

OneCell == <<7>>

Symmetry == Permutations(Reader)
=============================================================================
