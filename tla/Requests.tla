------------------------------ MODULE Requests -------------------------------
(***************************************************************************)
(* What virtio_disk_rw() promises: the transfer that a process asks for is *)
(* made once, after the call and before the return.                        *)
(***************************************************************************)
CONSTANT Proc

VARIABLE phase   \* of each process: "idle", "asked" or "done"

Init == phase = [p \in Proc |-> "idle"]

Move(p, from, to) == phase[p] = from /\ phase' = [phase EXCEPT ![p] = to]

Next == \E p \in Proc : \/ Move(p, "idle", "asked")   \* the call
                        \/ Move(p, "asked", "done")   \* the transfer
                        \/ Move(p, "done", "idle")    \* the return

Spec == Init /\ [][Next]_phase
=============================================================================
