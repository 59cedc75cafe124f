----------------------------- MODULE BlockStore ------------------------------
(***************************************************************************)
(* What bread(), the holder's stores and brelse() promise: one copy of     *)
(* every block, which one process at a time has, and which a process finds *)
(* as the last one left it.                                                *)
(***************************************************************************)
CONSTANTS Proc, Block, Value, None

VARIABLES
  val,    \* the contents of each block
  view    \* what each process has: [no, data], or None

Has(p, n) == view[p] # None /\ view[p].no = n

Init == val \in [Block -> Value] /\ view = [p \in Proc |-> None]

Read(p, n) ==
  /\ view[p] = None
  /\ \A q \in Proc : ~Has(q, n)
  /\ view' = [view EXCEPT ![p] = [no |-> n, data |-> val[n]]]
  /\ UNCHANGED val

Store(p, n, v) ==
  /\ Has(p, n)
  /\ view' = [view EXCEPT ![p].data = v]
  /\ val' = [val EXCEPT ![n] = v]

Release(p) == view[p] # None /\ view' = [view EXCEPT ![p] = None] /\ UNCHANGED val

Next == \E p \in Proc :
          \/ Release(p)
          \/ \E n \in Block : Read(p, n) \/ \E v \in Value : Store(p, n, v)

Spec == Init /\ [][Next]_<<val, view>>
=============================================================================
