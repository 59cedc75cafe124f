------------------------------- MODULE Virtio --------------------------------
(***************************************************************************)
(* kernel/virtio_disk.c: virtio_disk_rw() of several processes, the        *)
(* interrupt handler, and a device that takes the requests of the avail    *)
(* ring in order and answers them in any order.  Shown to implement        *)
(* Requests.                                                               *)
(*                                                                         *)
(* A section under vdisk_lock is one step, except for the handler, whose   *)
(* loop races with the device.  sleep() and wakeup() are the atomic ones   *)
(* of Monitor.  Callers hold the lock of their buffer, so that a process   *)
(* stands for its buffer and its block.  A ring entry becomes None when it *)
(* has been read, so that a second read of it would show.                  *)
(***************************************************************************)
EXTENDS Naturals, FiniteSets

CONSTANTS
  Proc,    \* processes, each with its buffer
  None,    \* no buffer, no next descriptor
  NUM,     \* descriptors, and entries of each ring
  UINT16   \* values of a ring index: 2^16 in the driver

ASSUME VirtioAssumption ==
  /\ NUM \in Nat /\ NUM >= 3
  /\ UINT16 \in Nat /\ UINT16 % NUM = 0 /\ UINT16 > NUM
  /\ None \notin Proc \cup (0 .. NUM - 1)

Desc == 0 .. NUM - 1

VARIABLES
  free,      \* the descriptors whose disk.free[] is set
  next,      \* disk.desc[].next, None without VRING_DESC_F_NEXT
  addr,      \* the buffer that the chain at the descriptor transfers
  b, ok,     \* disk.info[].b, and disk.info[].status == 0
  avail,     \* disk.avail: ring and idx
  used,      \* disk.used: ring and idx
  used_idx,  \* disk.used_idx
  disk,      \* the buffers whose b->disk is 1
  handler,   \* the interrupt handler holds vdisk_lock
  irq,       \* the device's interrupt is pending
  seen,      \* device: how far it has read the avail ring
  taken,     \* device: the chains it works on
  pc, idx,   \* of each process; idx[0] of its request
  phase      \* how far the transfer is

driver == <<free, next, addr, b, disk>>
device == <<seen, taken>>
vars   == <<driver, ok, avail, used, used_idx, handler, irq, device, pc, idx, phase>>

\* virtio_disk_init().
Init ==
  /\ free = Desc
  /\ next = [i \in Desc |-> None]
  /\ addr = [i \in Desc |-> None]
  /\ b = [i \in Desc |-> None]
  /\ ok = [i \in Desc |-> TRUE]
  /\ avail = [ring |-> [i \in Desc |-> None], idx |-> 0]
  /\ used = [ring |-> [i \in Desc |-> None], idx |-> 0]
  /\ used_idx = 0 /\ disk = {}
  /\ handler = FALSE /\ irq = FALSE
  /\ seen = 0 /\ taken = {}
  /\ pc = [p \in Proc |-> "user"]
  /\ idx = [p \in Proc |-> None]
  /\ phase = [p \in Proc |-> "idle"]

\* An index of 16 bits, counted up.
Inc(i) == (i + 1) % UINT16

\* The lowest descriptor of a set, which is the one alloc_desc() finds.
Lowest(S) == CHOOSE i \in S : \A j \in S : i <= j

\* Mutant: free_desc() wakes nobody.
WakeDescNone == pc

\* wakeup(&disk.free[0]).
WakeDesc == [p \in Proc |-> IF pc[p] = "nodesc" THEN "alloc" ELSE pc[p]]

-----------------------------------------------------------------------------
(* virtio_disk_rw().                                                       *)

Call(p) ==
  /\ pc[p] = "user"
  /\ pc' = [pc EXCEPT ![p] = "alloc"]
  /\ phase' = [phase EXCEPT ![p] = "asked"]
  /\ UNCHANGED <<driver, ok, avail, used, used_idx, handler, irq, device, idx>>

\* alloc3_desc() fails: what it has got it gives back with free_desc(), which
\* wakes those who wait for descriptors, and then the process waits too.
NoDesc(p) ==
  /\ pc[p] = "alloc" /\ ~handler
  /\ Cardinality(free) < 3
  /\ pc' = [(IF free # {} THEN WakeDesc ELSE pc) EXCEPT ![p] = "nodesc"]
  /\ UNCHANGED <<driver, ok, avail, used, used_idx, handler, irq, device, idx, phase>>

\* alloc3_desc() succeeds: the request is written into the descriptors and put
\* into the avail ring, and the process sleeps until its b->disk is 0.
Submit(p) ==
  /\ pc[p] = "alloc" /\ ~handler
  /\ Cardinality(free) >= 3
  /\ LET i0 == Lowest(free)
         i1 == Lowest(free \ {i0})
         i2 == Lowest(free \ {i0, i1})
     IN /\ free' = free \ {i0, i1, i2}
        /\ next' = [next EXCEPT ![i0] = i1, ![i1] = i2, ![i2] = None]
        /\ addr' = [addr EXCEPT ![i0] = p]
        /\ ok' = [ok EXCEPT ![i0] = FALSE]
        /\ b' = [b EXCEPT ![i0] = p]
        /\ idx' = [idx EXCEPT ![p] = i0]
        /\ avail' = [ring |-> [avail.ring EXCEPT ![avail.idx % NUM] = i0],
                     idx |-> Inc(avail.idx)]
  /\ disk' = disk \cup {p}
  /\ pc' = [pc EXCEPT ![p] = "sleep"]
  /\ UNCHANGED <<used, used_idx, handler, irq, device, phase>>

\* The descriptors that free_chain(i) follows.
Chain(i) == LET j == next[i]
                k == IF j = None THEN None ELSE next[j]
            IN {i, j, k} \ {None}

\* Mutant: b->disk is not looked at again after the sleep.
BusyOnce(p) == FALSE

\* b->disk == 1.
Busy(p) == p \in disk

\* After the wakeup: b->disk is looked at again, and when it is 0 the
\* descriptors are freed.
Return(p) ==
  /\ pc[p] = "woken" /\ ~handler
  /\ IF Busy(p)
     THEN /\ pc' = [pc EXCEPT ![p] = "sleep"]
          /\ UNCHANGED <<driver, idx, phase>>
     ELSE IF Chain(idx[p]) \cap free # {}
     THEN /\ pc' = [pc EXCEPT ![p] = "panic"]
          /\ UNCHANGED <<driver, idx, phase>>
     ELSE /\ b' = [b EXCEPT ![idx[p]] = None]
          /\ free' = free \cup Chain(idx[p])
          /\ next' = [i \in Desc |-> IF i \in Chain(idx[p]) THEN None ELSE next[i]]
          /\ addr' = [addr EXCEPT ![idx[p]] = None]
          /\ pc' = [WakeDesc EXCEPT ![p] = "user"]
          /\ idx' = [idx EXCEPT ![p] = None]
          /\ phase' = [phase EXCEPT ![p] = "idle"]
          /\ UNCHANGED disk
  /\ UNCHANGED <<ok, avail, used, used_idx, handler, irq, device>>

\* kill() ends the sleep of a process; what it waits for has not come.
Interrupted(p) ==
  /\ pc[p] \in {"nodesc", "sleep"}
  /\ pc' = [pc EXCEPT ![p] = IF @ = "sleep" THEN "woken" ELSE "alloc"]
  /\ UNCHANGED <<driver, ok, avail, used, used_idx, handler, irq, device, idx, phase>>

-----------------------------------------------------------------------------
(* virtio_disk_intr().                                                     *)

\* The lock is taken and the interrupt acknowledged.
IntrAck ==
  /\ irq /\ ~handler
  /\ handler' = TRUE
  /\ irq' = FALSE
  /\ UNCHANGED <<driver, ok, avail, used, used_idx, device, pc, idx, phase>>

\* disk.used_idx != disk.used->idx.
More == used_idx # used.idx

Answer == used.ring[used_idx % NUM]

\* The buffer whose request is complete.
Done == b[Answer]

\* One iteration of the handler's loop.
IntrOne ==
  /\ handler /\ More
  /\ IF ~ok[Answer] \/ Done = None
     THEN /\ pc' = [p \in Proc |-> "panic"]
          /\ UNCHANGED <<disk, used, used_idx>>
     ELSE /\ disk' = disk \ {Done}
          /\ pc' = [pc EXCEPT ![Done] = IF @ = "sleep" THEN "woken" ELSE @]
          /\ used' = [used EXCEPT !.ring[used_idx % NUM] = None]
          /\ used_idx' = Inc(used_idx)
  /\ UNCHANGED <<free, next, addr, b, ok, avail, handler, irq, device, idx, phase>>

IntrEnd ==
  /\ handler /\ ~More
  /\ handler' = FALSE
  /\ UNCHANGED <<driver, ok, avail, used, used_idx, irq, device, pc, idx, phase>>

-----------------------------------------------------------------------------
(* The device.                                                             *)

\* The next chain of the avail ring.
DeviceTake ==
  /\ seen # avail.idx
  /\ taken' = taken \cup {avail.ring[seen % NUM]}
  /\ avail' = [avail EXCEPT !.ring[seen % NUM] = None]
  /\ seen' = Inc(seen)
  /\ UNCHANGED <<driver, ok, used, used_idx, handler, irq, pc, idx, phase>>

\* The transfer is made, the status written, the chain put into the used ring
\* and the interrupt raised.
DeviceAnswer(i) ==
  /\ i \in taken
  /\ taken' = taken \ {i}
  /\ phase' = IF addr[i] = None THEN phase ELSE [phase EXCEPT ![addr[i]] = "done"]
  /\ ok' = [ok EXCEPT ![i] = TRUE]
  /\ used' = [ring |-> [used.ring EXCEPT ![used.idx % NUM] = i], idx |-> Inc(used.idx)]
  /\ irq' = TRUE
  /\ UNCHANGED <<driver, avail, used_idx, handler, seen, pc, idx>>

-----------------------------------------------------------------------------
Handler == IntrAck \/ IntrOne \/ IntrEnd
Device  == DeviceTake \/ \E i \in Desc : DeviceAnswer(i)

Next ==
  \/ \E p \in Proc : Call(p) \/ NoDesc(p) \/ Submit(p) \/ Return(p) \/ Interrupted(p)
  \/ Handler \/ Device

Spec == Init /\ [][Next]_vars

\* The device answers, interrupts are taken, and processes that can go on do;
\* one that is woken again and again while there are descriptors gets some.
Fairness ==
  /\ WF_vars(DeviceTake) /\ \A i \in Desc : WF_vars(DeviceAnswer(i))
  /\ WF_vars(Handler)
  /\ \A p \in Proc : SF_vars(Submit(p) \/ Return(p))

FairSpec == Spec /\ Fairness

-----------------------------------------------------------------------------
Q == INSTANCE Requests

\* A process returns from virtio_disk_rw() after its own transfer and not
\* before, in whatever order the device answers and however late it is seen.
ImplementsRequests == Q!Spec

\* Every call returns: no answer is left in the used ring without an interrupt,
\* and nobody waits for descriptors forever.
CallReturns == \A p \in Proc : pc[p] # "user" ~> pc[p] = "user"
=============================================================================
