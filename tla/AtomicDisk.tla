----------------------------- MODULE AtomicDisk ------------------------------
(***************************************************************************)
(* What the log promises to the file system: system calls update blocks in *)
(* memory, and a crash takes the disk back to a moment at which no system  *)
(* call was under way, so that the updates of each are durable all         *)
(* together or not at all.                                                 *)
(***************************************************************************)
CONSTANTS Op, Block, Value

VARIABLES
  mem,      \* the blocks as system calls see them
  durable,  \* the blocks as they will be after a crash
  active    \* the system calls between begin_op() and end_op()

vars == <<mem, durable, active>>

Init == /\ mem \in [Block -> Value]
        /\ durable = mem
        /\ active = {}

Begin(o) == /\ o \notin active
            /\ active' = active \cup {o}
            /\ UNCHANGED <<mem, durable>>

Write(o, b, v) == /\ o \in active
                  /\ mem' = [mem EXCEPT ![b] = v]
                  /\ UNCHANGED <<durable, active>>

End(o) == /\ o \in active
          /\ active' = active \ {o}
          /\ UNCHANGED <<mem, durable>>

Commit == /\ active = {}
          /\ durable' = mem
          /\ UNCHANGED <<mem, active>>

Crash == /\ mem' = durable
         /\ active' = {}
         /\ UNCHANGED durable

Next == \/ \E o \in Op : \/ Begin(o) \/ End(o)
                         \/ \E b \in Block, v \in Value : Write(o, b, v)
        \/ Commit \/ Crash

Spec == Init /\ [][Next]_vars
=============================================================================
