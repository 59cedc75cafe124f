-------------------------------- MODULE MCFs ----------------------------------
(* Fs with paths up to two names deep. *)
EXTENDS Fs

Abs(names) == [abs |-> TRUE, names |-> names]
Rel(names) == [abs |-> FALSE, names |-> names]
On(op, w)  == [op |-> op, w |-> w, w2 |-> None]

Requests ==
  {On("creat", Abs(<<"a">>)), On("mkdir", Abs(<<"a">>)), On("unlink", Abs(<<"a">>)),
   On("mkdir", Rel(<<"b">>)), On("mknod", Abs(<<"a", "b">>)), On("unlink", Abs(<<"a", "b">>)), On("unlink", Rel(<<".">>)),
   On("chdir", Abs(<<"a">>)), On("open", Rel(<<"..">>)), 
   [op |-> "link", w |-> Abs(<<"a">>), w2 |-> Rel(<<"b">>)]}

\* Two processes that make and remove the same file.
FewRequests == {On("creat", Abs(<<"a">>)), On("unlink", Abs(<<"a">>))}

\* What follows the misuse of a removed directory is not explored.
Used == ~misused

Symmetry == Permutations(Proc)
=============================================================================
