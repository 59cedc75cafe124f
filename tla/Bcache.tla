------------------------------- MODULE Bcache --------------------------------
(***************************************************************************)
(* kernel/bio.c with kernel/sleeplock.c: the buffer cache, whose buffers   *)
(* are locked while they are used, pinned while the log has yet to write   *)
(* them home, and recycled in the order of their last use.  Shown to       *)
(* implement BlockStore.                                                   *)
(*                                                                         *)
(* A section under bcache.lock or under a sleep-lock's spin-lock is one    *)
(* step; sleep() and wakeup() are the atomic ones of Monitor and           *)
(* virtio_disk_rw() the transfer and the return of Requests.               *)
(***************************************************************************)
EXTENDS Naturals, FiniteSets

CONSTANTS
  Proc, Block, Value,
  None,      \* no process, no buffer, no block
  NBUF,      \* buffers
  LOGBLOCKS  \* blocks that the log has pinned at a time

Buf == 1 .. NBUF

ASSUME BcacheAssumption == NBUF \in Nat \ {0} /\ LOGBLOCKS \in Nat
ASSUME NoneAssumption   == None \notin Proc \cup Block \cup Buf \cup [no : Block, data : Value]

VARIABLES
  blockno, valid, refcnt, data,   \* of each buffer
  lock,     \* pid of each buffer's sleep-lock, None when not locked
  lru,      \* the list from head.next, the most recently used, on
  disk,     \* the blocks on the disk
  logged,   \* the buffers pinned by log_write()
  pc, buf   \* of each process

cache == <<blockno, valid, refcnt, lru>>
vars  == <<cache, data, lock, disk, logged, pc, buf>>

\* binit(); no buffer has a block yet.
Init ==
  /\ blockno = [b \in Buf |-> None]
  /\ valid = [b \in Buf |-> FALSE]
  /\ refcnt = [b \in Buf |-> 0]
  /\ lru = [i \in Buf |-> NBUF + 1 - i]
  /\ lock = [b \in Buf |-> None]
  /\ disk \in [Block -> Value]
  /\ \E v \in Value : data = [b \in Buf |-> v]
  /\ logged = {}
  /\ pc = [p \in Proc |-> "idle"]
  /\ buf = [p \in Proc |-> None]

\* bcache.lock can be had: bget() panics with it.
BcacheLock == \A p \in Proc : pc[p] # "panic"

-----------------------------------------------------------------------------
(* bget() and bread().                                                     *)

\* The buffers that the first loop of bget() stops at.
Cached(n) == {b \in Buf : blockno[b] = n}

\* Where in the list the second loop of bget() finds a buffer.
Unused == {i \in Buf : refcnt[lru[i]] = 0}

Hit(p, n) ==
  /\ pc[p] = "idle" /\ BcacheLock
  /\ \E b \in Cached(n) :
       /\ refcnt' = [refcnt EXCEPT ![b] = @ + 1]
       /\ buf' = [buf EXCEPT ![p] = b]
  /\ pc' = [pc EXCEPT ![p] = "lock"]
  /\ UNCHANGED <<blockno, valid, lru, data, lock, disk, logged>>

\* Mutant: a recycled buffer stays valid.
InvalidKept(b) == valid

\* valid once the buffer is given to another block.
Invalid(b) == [valid EXCEPT ![b] = FALSE]

Recycle(p, n) ==
  /\ pc[p] = "idle" /\ BcacheLock
  /\ Cached(n) = {}
  /\ \E i \in Unused :
       /\ \A j \in Unused : j <= i
       /\ blockno' = [blockno EXCEPT ![lru[i]] = n]
       /\ valid' = Invalid(lru[i])
       /\ refcnt' = [refcnt EXCEPT ![lru[i]] = 1]
       /\ buf' = [buf EXCEPT ![p] = lru[i]]
  /\ pc' = [pc EXCEPT ![p] = "lock"]
  /\ UNCHANGED <<lru, data, lock, disk, logged>>

NoBuffers(p, n) ==
  /\ pc[p] = "idle" /\ BcacheLock
  /\ Cached(n) = {} /\ Unused = {}
  /\ pc' = [pc EXCEPT ![p] = "panic"]
  /\ UNCHANGED <<cache, data, lock, disk, logged, buf>>

\* acquiresleep(&b->lock), and bread()'s look at b->valid.
AcquireSleep(p) ==
  /\ pc[p] = "lock"
  /\ IF lock[buf[p]] # None
     THEN pc' = [pc EXCEPT ![p] = "sleep"] /\ UNCHANGED lock
     ELSE /\ lock' = [lock EXCEPT ![buf[p]] = p]
          /\ pc' = [pc EXCEPT ![p] = IF valid[buf[p]] THEN "hold" ELSE "read"]
  /\ UNCHANGED <<cache, data, disk, logged, buf>>

\* The device has made the transfer of virtio_disk_rw(b, 0) ...
ReadTransfer(p) ==
  /\ pc[p] = "read"
  /\ data' = [data EXCEPT ![buf[p]] = disk[blockno[buf[p]]]]
  /\ pc' = [pc EXCEPT ![p] = "valid"]
  /\ UNCHANGED <<cache, lock, disk, logged, buf>>

\* ... and bread() goes on.
SetValid(p) ==
  /\ pc[p] = "valid"
  /\ valid' = [valid EXCEPT ![buf[p]] = TRUE]
  /\ pc' = [pc EXCEPT ![p] = "hold"]
  /\ UNCHANGED <<blockno, refcnt, lru, data, lock, disk, logged, buf>>

-----------------------------------------------------------------------------
(* What callers do with a buffer: they store into it, and then log_write() *)
(* or bwrite() it before they let it go.                                   *)

Store(p, v) ==
  /\ pc[p] \in {"hold", "dirty"}
  /\ data' = [data EXCEPT ![buf[p]] = v]
  /\ pc' = [pc EXCEPT ![p] = "dirty"]
  /\ UNCHANGED <<cache, lock, disk, logged, buf>>

\* Mutant: log_write() pins a block that is in the log already.
NewInLogAlways(b) == TRUE

\* log_write() finds no slot of the log that has the block.
NewInLog(b) == b \notin logged

\* log_write(b), with bpin().
LogWrite(p) ==
  /\ pc[p] = "dirty"
  /\ buf[p] \in logged \/ Cardinality(logged) < LOGBLOCKS
  /\ NewInLog(buf[p]) => BcacheLock
  /\ refcnt' = IF NewInLog(buf[p]) THEN [refcnt EXCEPT ![buf[p]] = @ + 1] ELSE refcnt
  /\ logged' = logged \cup {buf[p]}
  /\ pc' = [pc EXCEPT ![p] = "hold"]
  /\ UNCHANGED <<blockno, valid, lru, data, lock, disk, buf>>

\* bwrite(b) of a block of the log itself, which is not logged, or by
\* install_trans() of one that is: virtio_disk_rw(b, 1) up to the transfer.
WriteTransfer(p) ==
  /\ \/ pc[p] = "dirty" /\ buf[p] \notin logged
     \/ pc[p] = "hold" /\ buf[p] \in logged
  /\ disk' = [disk EXCEPT ![blockno[buf[p]]] = data[buf[p]]]
  /\ pc' = [pc EXCEPT ![p] = "written"]
  /\ UNCHANGED <<cache, data, lock, logged, buf>>

\* bwrite() returns; install_trans() goes on with bunpin().
Written(p) ==
  /\ pc[p] = "written"
  /\ buf[p] \in logged => BcacheLock
  /\ refcnt' = IF buf[p] \in logged THEN [refcnt EXCEPT ![buf[p]] = @ - 1] ELSE refcnt
  /\ logged' = logged \ {buf[p]}
  /\ pc' = [pc EXCEPT ![p] = "hold"]
  /\ UNCHANGED <<blockno, valid, lru, data, lock, disk, buf>>

-----------------------------------------------------------------------------
(* brelse().                                                               *)

\* Mutant: releasesleep() does not call wakeup().
WakeupNone(b) == pc

\* wakeup(lk) for the sleep-lock of b.
Wakeup(b) == [q \in Proc |-> IF pc[q] = "sleep" /\ buf[q] = b THEN "lock" ELSE pc[q]]

\* releasesleep(&b->lock).
ReleaseSleep(p) ==
  /\ pc[p] = "hold"
  /\ lock' = [lock EXCEPT ![buf[p]] = None]
  /\ pc' = [Wakeup(buf[p]) EXCEPT ![p] = "unref"]
  /\ UNCHANGED <<cache, data, disk, logged, buf>>

\* b unlinked and put at head.next.
ToFront(b) ==
  LET k == CHOOSE i \in Buf : lru[i] = b
  IN [i \in Buf |-> IF i = 1 THEN b ELSE IF i <= k THEN lru[i - 1] ELSE lru[i]]

\* The second half of brelse(), under bcache.lock.
Unref(p) ==
  /\ pc[p] = "unref" /\ BcacheLock
  /\ refcnt' = [refcnt EXCEPT ![buf[p]] = @ - 1]
  /\ lru' = IF refcnt[buf[p]] = 1 THEN ToFront(buf[p]) ELSE lru
  /\ pc' = [pc EXCEPT ![p] = "idle"]
  /\ buf' = [buf EXCEPT ![p] = None]
  /\ UNCHANGED <<blockno, valid, data, lock, disk, logged>>

\* kill() ends a sleep although the lock is still held.
Interrupted(p) ==
  /\ pc[p] = "sleep"
  /\ pc' = [pc EXCEPT ![p] = "lock"]
  /\ UNCHANGED <<cache, data, lock, disk, logged, buf>>

\* panic() is an endless loop.
Panicked(p) == pc[p] = "panic" /\ UNCHANGED vars

Next == \E p \in Proc :
  \/ \E n \in Block : Hit(p, n) \/ Recycle(p, n) \/ NoBuffers(p, n)
  \/ AcquireSleep(p) \/ ReadTransfer(p) \/ SetValid(p) \/ Interrupted(p) \/ Panicked(p)
  \/ \E v \in Value : Store(p, v)
  \/ LogWrite(p) \/ WriteTransfer(p) \/ Written(p) \/ ReleaseSleep(p) \/ Unref(p)

Spec == Init /\ [][Next]_vars

-----------------------------------------------------------------------------
\* A reference count is the number of processes between bget() and the end of
\* brelse(), plus one while the buffer is pinned: it never keeps a buffer from
\* being recycled for good, and never lets one go that is in use.
RefcntCounts == \A b \in Buf :
  refcnt[b] = Cardinality({p \in Proc : buf[p] = b}) + (IF b \in logged THEN 1 ELSE 0)

\* Nobody sleeps on a sleep-lock that is not locked: releasesleep() misses no
\* process that acquiresleep() has put to sleep.
SleepersWaitForHolder == \A p \in Proc : pc[p] = "sleep" => lock[buf[p]] # None

Holds(p) == pc[p] \in {"hold", "dirty", "written"}

\* The contents of each block: its valid buffer's if it has one.
Contents ==
  [n \in Block |-> IF \E b \in Buf : blockno[b] = n /\ valid[b]
                   THEN data[CHOOSE b \in Buf : blockno[b] = n /\ valid[b]]
                   ELSE disk[n]]

\* What each process has between bread() and brelse().
View == [p \in Proc |-> IF Holds(p) THEN [no |-> blockno[buf[p]], data |-> data[buf[p]]] ELSE None]

BS == INSTANCE BlockStore WITH val <- Contents, view <- View

\* The cache, the disk and the pins together behave as one copy of each block:
\* what bread() returns is what was stored last, and nobody else has it.
ImplementsBlockStore == BS!Spec
=============================================================================
