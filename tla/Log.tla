--------------------------------- MODULE Log ----------------------------------
(***************************************************************************)
(* The write-ahead log of kernel/log.c over the buffer cache and the disk, *)
(* with crashes at any moment and recovery at boot.  Shown to implement    *)
(* AtomicDisk.                                                             *)
(*                                                                         *)
(* A section under log.lock is one step, and so is one block written to    *)
(* the disk by bwrite(), which returns when the disk has it.  sleep() and  *)
(* wakeup() are the atomic ones of Monitor.                                *)
(***************************************************************************)
EXTENDS Naturals, Sequences, FiniteSets

CONSTANTS
  Op,           \* processes that make file system calls
  Block,        \* blocks outside the log
  Value,        \* contents of a block
  NoBuf,        \* the block is not in the buffer cache
  LOGSIZE,      \* entries of struct logheader
  SIZE,         \* sb.nlog: blocks of the log on disk, its header included
  MAXOPBLOCKS,  \* blocks that begin_op() reserves for a system call
  OPBLOCKS      \* blocks that a system call does write

ASSUME SizeAssumption == /\ LOGSIZE \in Nat \ {0} /\ SIZE \in Nat \ {0, 1}
                         /\ MAXOPBLOCKS \in 1 .. LOGSIZE
                         /\ OPBLOCKS \in 1 .. MAXOPBLOCKS
ASSUME NoBufAssumption == NoBuf \notin Value

VARIABLES
  home,         \* disk: the blocks at their own places
  slot,         \* disk: the log's data blocks
  head,         \* disk: the log's header block
  cache,        \* the data of cached buffers
  lh,           \* log.lh
  pinned,       \* blocks whose buffer log_write() has pinned
  outstanding,  \* log.outstanding
  committing,   \* log.committing
  pc,           \* where each process is
  wrote,        \* the blocks it has written in its current system call
  boot,         \* where recover_from_log() is; "up" after it
  tail          \* the entry that the loop over log.lh is at

disk   == <<home, slot, head>>
memory == <<cache, lh, pinned, outstanding, committing, pc, wrote>>
vars   == <<disk, memory, boot, tail>>

Slot == 1 .. SIZE - 1

\* The file system that mkfs made, whose log is empty, at boot.
Init ==
  /\ home \in [Block -> Value]
  /\ slot \in {[i \in Slot |-> v] : v \in Value}
  /\ head = <<>>
  /\ cache = [b \in Block |-> NoBuf]
  /\ lh = <<>> /\ pinned = {}
  /\ outstanding = 0 /\ committing = FALSE
  /\ pc = [o \in Op |-> "idle"]
  /\ wrote = [o \in Op |-> {}]
  /\ boot = "read_head"
  /\ tail = 1

Logged == {lh[i] : i \in DOMAIN lh}

\* The contents that bread() finds.
Data(b) == IF cache[b] # NoBuf THEN cache[b] ELSE home[b]

-----------------------------------------------------------------------------
(* The buffer cache.                                                       *)

\* A read of a block that is not cached.
Bread(b) ==
  /\ boot = "up"
  /\ cache[b] = NoBuf
  /\ cache' = [cache EXCEPT ![b] = home[b]]
  /\ UNCHANGED <<disk, lh, pinned, outstanding, committing, pc, wrote, boot, tail>>

\* bget() recycles the buffer of b for another block; none that is pinned.
Recycle(b) ==
  /\ boot = "up"
  /\ cache[b] # NoBuf /\ b \notin pinned
  /\ cache' = [cache EXCEPT ![b] = NoBuf]
  /\ UNCHANGED <<disk, lh, pinned, outstanding, committing, pc, wrote, boot, tail>>

-----------------------------------------------------------------------------
(* begin_op(), log_write() and end_op().                                   *)

\* There is room in the log for one more system call.
Fits == Len(lh) + (outstanding + 1) * MAXOPBLOCKS <= LOGSIZE

\* A process calls begin_op().
Call(o) ==
  /\ boot = "up" /\ pc[o] = "idle"
  /\ pc' = [pc EXCEPT ![o] = "begin"]
  /\ UNCHANGED <<disk, cache, lh, pinned, outstanding, committing, wrote, boot, tail>>

\* One iteration of begin_op()'s loop.
BeginOp(o) ==
  /\ pc[o] = "begin"
  /\ IF committing \/ ~Fits
     THEN pc' = [pc EXCEPT ![o] = "asleep"] /\ UNCHANGED <<outstanding, wrote>>
     ELSE /\ pc' = [pc EXCEPT ![o] = "op"]
          /\ outstanding' = outstanding + 1
          /\ wrote' = [wrote EXCEPT ![o] = {}]
  /\ UNCHANGED <<disk, cache, lh, pinned, committing, boot, tail>>

\* bpin() when the block is new in the log.
Pin(b) == pinned \cup {b}

\* A system call changes a buffer that it has locked, and log_write()s it.
LogWrite(o, b, v) ==
  /\ pc[o] = "op"
  /\ Cardinality(wrote[o] \cup {b}) <= OPBLOCKS
  /\ IF Len(lh) >= LOGSIZE \/ Len(lh) >= SIZE - 1
     THEN /\ pc' = [pc EXCEPT ![o] = "panic"]
          /\ UNCHANGED <<cache, lh, pinned, wrote>>
     ELSE /\ cache' = [cache EXCEPT ![b] = v]
          /\ wrote' = [wrote EXCEPT ![o] = @ \cup {b}]
          /\ IF b \in Logged
             THEN UNCHANGED <<lh, pinned>>
             ELSE lh' = Append(lh, b) /\ pinned' = Pin(b)
          /\ UNCHANGED pc
  /\ UNCHANGED <<disk, outstanding, committing, boot, tail>>

\* The processes asleep on &log go back into begin_op()'s loop.
Wakeup == [o \in Op |-> IF pc[o] = "asleep" THEN "begin" ELSE pc[o]]

\* Mutant: end_op() looks at the count it had before.
NoneLeftBefore == outstanding = 2

\* log.outstanding == 0, after the decrement.
NoneLeft == outstanding = 1

\* log.outstanding -= 1.
Ended == outstanding - 1

\* end_op(), up to commit().
EndOp(o) ==
  /\ pc[o] = "op"
  /\ outstanding' = Ended
  /\ IF committing
     THEN pc' = [pc EXCEPT ![o] = "panic"] /\ UNCHANGED committing
     ELSE IF NoneLeft
     THEN pc' = [pc EXCEPT ![o] = "commit"] /\ committing' = TRUE
     ELSE pc' = [Wakeup EXCEPT ![o] = "idle"] /\ UNCHANGED committing
  /\ wrote' = [wrote EXCEPT ![o] = {}]
  /\ UNCHANGED <<disk, cache, lh, pinned, boot, tail>>

-----------------------------------------------------------------------------
(* commit().                                                               *)

Step(o, from, to) == pc[o] = from /\ pc' = [pc EXCEPT ![o] = to]

\* The loop over log.lh goes on, or ends: where the process is then.
Loop(here, after) == IF tail < Len(lh) THEN here ELSE after
NextTail == IF tail < Len(lh) THEN tail + 1 ELSE 1

\* Mutant: the header is written first.
CommitHeadFirst == "write_head"

\* What commit() does first with the blocks of a transaction.
CommitFirst == "write_log"

Commit(o) ==
  /\ Step(o, "commit", IF lh # <<>> THEN CommitFirst ELSE "finish")
  /\ UNCHANGED <<disk, cache, lh, pinned, outstanding, committing, wrote, boot, tail>>

\* One iteration of write_log().
WriteLog(o) ==
  /\ Step(o, "write_log", Loop("write_log", "write_head"))
  /\ slot' = [slot EXCEPT ![tail] = Data(lh[tail])]
  /\ tail' = NextTail
  /\ UNCHANGED <<home, head, cache, lh, pinned, outstanding, committing, wrote, boot>>

\* write_head(), "the true point at which the current transaction commits".
WriteHead(o) ==
  /\ Step(o, "write_head", "install")
  /\ head' = lh
  /\ UNCHANGED <<home, slot, cache, lh, pinned, outstanding, committing, wrote, boot, tail>>

\* One iteration of install_trans(), but for bunpin().
InstallBlock ==
  /\ home' = [home EXCEPT ![lh[tail]] = slot[tail]]
  /\ cache' = [cache EXCEPT ![lh[tail]] = slot[tail]]
  /\ tail' = NextTail
  /\ UNCHANGED <<slot, head, lh, outstanding, committing, wrote>>

InstallTrans(o) ==
  /\ Step(o, "install", Loop("install", "clear"))
  /\ InstallBlock
  /\ pinned' = pinned \ {lh[tail]}
  /\ UNCHANGED boot

\* log.lh.n = 0 and write_head().
Clear == lh' = <<>> /\ head' = <<>>

ClearLog(o) ==
  /\ Step(o, "clear", "finish")
  /\ Clear
  /\ UNCHANGED <<home, slot, cache, pinned, outstanding, committing, wrote, boot, tail>>

\* Mutant: end_op() wakes nobody after commit().
FinishSilently(o) ==
  /\ Step(o, "finish", "idle")
  /\ committing' = FALSE
  /\ UNCHANGED <<disk, cache, lh, pinned, outstanding, wrote, boot, tail>>

\* The end of end_op() after commit().
FinishCommit(o) ==
  /\ pc[o] = "finish"
  /\ committing' = FALSE
  /\ pc' = [Wakeup EXCEPT ![o] = "idle"]
  /\ UNCHANGED <<disk, cache, lh, pinned, outstanding, wrote, boot, tail>>

-----------------------------------------------------------------------------
(* Crash and recovery.                                                     *)

Writing(label) == boot = label \/ \E o \in Op : pc[o] = label

\* The machine stops.  Memory is lost, and the block that is being written may
\* be torn; the header cannot be, as what is used of it fits in one sector.
Crash ==
  /\ \/ UNCHANGED disk
     \/ /\ Writing("write_log")
        /\ \E v \in Value : slot' = [slot EXCEPT ![tail] = v]
        /\ UNCHANGED <<home, head>>
     \/ /\ Writing("install")
        /\ \E v \in Value : home' = [home EXCEPT ![lh[tail]] = v]
        /\ UNCHANGED <<slot, head>>
  /\ cache' = [b \in Block |-> NoBuf]
  /\ lh' = <<>> /\ pinned' = {}
  /\ outstanding' = 0 /\ committing' = FALSE
  /\ pc' = [o \in Op |-> "idle"]
  /\ wrote' = [o \in Op |-> {}]
  /\ boot' = "read_head"
  /\ tail' = 1

\* read_head().
ReadHead ==
  /\ boot = "read_head"
  /\ lh' = head
  /\ boot' = IF head # <<>> THEN "install" ELSE "clear"
  /\ UNCHANGED <<disk, cache, pinned, outstanding, committing, pc, wrote, tail>>

\* One iteration of install_trans(1).
RecoverInstall ==
  /\ boot = "install"
  /\ InstallBlock
  /\ boot' = Loop("install", "clear")
  /\ UNCHANGED <<pinned, pc>>

RecoverClear ==
  /\ boot = "clear"
  /\ Clear
  /\ boot' = "up"
  /\ UNCHANGED <<home, slot, cache, pinned, outstanding, committing, pc, wrote, tail>>

-----------------------------------------------------------------------------
\* What process o goes on to do by itself.
Proceed(o) ==
  \/ BeginOp(o) \/ EndOp(o)
  \/ Commit(o) \/ WriteLog(o) \/ WriteHead(o) \/ InstallTrans(o) \/ ClearLog(o)
  \/ FinishCommit(o)

Next ==
  \/ \E b \in Block : Bread(b) \/ Recycle(b)
  \/ \E o \in Op :
       \/ Call(o) \/ Proceed(o)
       \/ \E b \in Block, v \in Value : LogWrite(o, b, v)
  \/ Crash \/ ReadHead \/ RecoverInstall \/ RecoverClear

Spec == Init /\ [][Next]_vars

-----------------------------------------------------------------------------
\* What the disk will hold after recovery.
Recovered ==
  [b \in Block |-> IF \E i \in DOMAIN head : head[i] = b
                   THEN slot[CHOOSE i \in DOMAIN head : head[i] = b]
                   ELSE home[b]]

Seen == IF boot = "up" THEN [b \in Block |-> Data(b)] ELSE Recovered

A == INSTANCE AtomicDisk WITH
       mem <- Seen, durable <- Recovered,
       active <- {o \in Op : pc[o] \in {"op", "panic"}}

\* The log makes system calls atomic: wherever the machine stops, in commit()
\* and in recovery too, recovery brings the disk to a state between system
\* calls; and neither recovery, nor the installation of a transaction, nor the
\* recycling of buffers changes what system calls see.
ImplementsAtomicDisk == A!Spec

\* Whenever no system call is under way and none is committing, everything
\* that system calls have written survives a crash.
ReturnedIsDurable ==
  boot = "up" /\ outstanding = 0 /\ ~committing => Seen = Recovered

\* begin_op() sleeps for two reasons, and whoever takes one of them away wakes
\* it: nobody sleeps there while the log could admit a call.
WaitersHeldBack == \A o \in Op : pc[o] = "asleep" => committing \/ ~Fits
=============================================================================
