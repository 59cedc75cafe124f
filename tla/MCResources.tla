----------------------------- MODULE MCResources ------------------------------
(* Resources with small programs. *)
EXTENDS Resources, TLC

Seg(vaddr, memsz, w, read) == [vaddr |-> vaddr, memsz |-> memsz, filesz |-> 1, w |-> w, read |-> read]
Arg == [va |-> 1, len |-> 1]

\* A program whose second segment is below the end of its text, one whose second
\* segment cannot be read, and one with an argument that does not fit.
Images == {
  [args |-> <<>>,    segs |-> <<Seg(0, 2, FALSE, TRUE), Seg(0, 1, TRUE, TRUE)>>, fits |-> TRUE, text |-> {0}],
  [args |-> <<Arg>>, segs |-> <<Seg(0, 3, TRUE, TRUE), Seg(4, 1, FALSE, FALSE)>>, fits |-> TRUE, text |-> {}],
  [args |-> <<Arg>>, segs |-> <<Seg(0, 1, FALSE, TRUE)>>, fits |-> FALSE, text |-> {0}]}

\* The first address and the last.
Addrs == {0, WORD - 1}

Grows == {-100, -3, 3}

\* Bound: while files are open, only processes of one page go on.
FilesOrMemory ==
  (\A f \in File : ftable[f].ref = 0) \/ (\A p \in Proc : pr[p].sz <= PGSIZE)

Symmetry == Permutations(Pipe)
=============================================================================
