----------------------------- MODULE BoundedFifo -----------------------------
(***************************************************************************)
(* What a pipe promises: bytes come out in the order in which they went    *)
(* in, each at most once, and no more than Size of them are inside.        *)
(***************************************************************************)
EXTENDS Naturals, Sequences

CONSTANTS Byte, Size

VARIABLES
  q,          \* the bytes inside
  readable,   \* somebody can still read
  writable    \* somebody can still write

vars == <<q, readable, writable>>

Init == q = <<>> /\ readable = TRUE /\ writable = TRUE

Put(x) == /\ writable /\ Len(q) < Size
          /\ q' = Append(q, x)
          /\ UNCHANGED <<readable, writable>>

Get == /\ readable /\ q # <<>>
       /\ q' = Tail(q)
       /\ UNCHANGED <<readable, writable>>

CloseRead  == readable' = FALSE /\ UNCHANGED <<q, writable>>
CloseWrite == writable' = FALSE /\ UNCHANGED <<q, readable>>

Next == (\E x \in Byte : Put(x)) \/ Get \/ CloseRead \/ CloseWrite

Spec == Init /\ [][Next]_vars
=============================================================================
