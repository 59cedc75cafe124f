--------------------------------- MODULE Pipe ---------------------------------
(***************************************************************************)
(* kernel/pipe.c: one pipe with processes that write, read, are killed and *)
(* close their ends.  Shown to implement BoundedFifo.                      *)
(*                                                                         *)
(* The loops run under pi->lock.  Their steps are cut where killed() looks *)
(* at p->killed, as kill() needs p->lock only.  sleep() and wakeup() are   *)
(* the atomic ones of Monitor.                                             *)
(***************************************************************************)
EXTENDS Naturals, Sequences, FiniteSets

CONSTANTS
  Writer, Reader,  \* processes with the write end, or the read end, open
  None,            \* no holder of pi->lock
  Byte,            \* what a char can be
  PIPESIZE,        \* bytes in pi->data
  UINT,            \* values of a uint: 2^32 in the kernel
  MaxN             \* the largest n of a call

Proc == Writer \cup Reader

\* The size of the ring divides the range of its indices: 512 divides 2^32.
PipeConstants ==
  /\ Writer \cap Reader = {} /\ None \notin Proc
  /\ Byte # {} /\ MaxN \in Nat
  /\ PIPESIZE \in Nat \ {0} /\ UINT \in Nat \ {0} /\ UINT > PIPESIZE /\ UINT % PIPESIZE = 0

ASSUME PipeAssumption == PipeConstants

VARIABLES
  data, nread, nwrite, readopen, writeopen,  \* struct pipe
  lk,      \* the holder of pi->lock
  freed,   \* the pipe has been given to kfree()
  open,    \* the processes that have not closed their end
  killed,  \* p->killed
  pc, i, n,
  cut      \* a killed writer has left bytes since the last wakeup(&pi->nread)

pipe  == <<data, nread, nwrite, readopen, writeopen>>
calls == <<i, n>>
pipeVars  == <<pipe, lk, freed, open, killed, pc, calls, cut>>

\* pipealloc(), after which the ends are inherited by the processes.  kalloc() has
\* filled the page with one byte.
PipeInit ==
  /\ data = [k \in 0 .. PIPESIZE - 1 |-> CHOOSE x \in Byte : TRUE]
  /\ nread = 0 /\ nwrite = 0
  /\ readopen = TRUE /\ writeopen = TRUE
  /\ lk = None /\ freed = FALSE
  /\ open = Proc
  /\ killed = [p \in Proc |-> FALSE]
  /\ pc = [p \in Proc |-> "user"]
  /\ i = [p \in Proc |-> 0] /\ n = [p \in Proc |-> 0]
  /\ cut = FALSE

\* Mutant: wakeup() forgets the readers.
WakeNone(label) == pc

\* wakeup(): the processes asleep at the label go on to acquire pi->lock.
Wake(label) == [p \in Proc |-> IF pc[p] = label THEN "lock" ELSE pc[p]]

\* A call gives pi->lock back and returns.
Return(p) == /\ i' = [i EXCEPT ![p] = 0]
             /\ n' = [n EXCEPT ![p] = 0]
             /\ lk' = None

-----------------------------------------------------------------------------
\* read() or write() of k bytes.
Call(p, k) ==
  /\ pc[p] = "user" /\ p \in open /\ ~killed[p]
  /\ pc' = [pc EXCEPT ![p] = "lock"]
  /\ n' = [n EXCEPT ![p] = k]
  /\ UNCHANGED <<pipe, lk, freed, open, killed, i, cut>>

\* acquire(&pi->lock), on entry and at the end of sleep().
Acquire(p) ==
  /\ pc[p] = "lock" /\ lk = None
  /\ lk' = p
  /\ pc' = [pc EXCEPT ![p] = IF p \in Writer THEN "wtest" ELSE "rtest"]
  /\ UNCHANGED <<pipe, freed, open, killed, calls, cut>>

\* The condition of the loops over the caller's bytes.
More(p) == i[p] < n[p]

\* The head of pipewrite()'s loop, and what follows the loop.
WriteTest(p) ==
  /\ pc[p] = "wtest"
  /\ IF ~More(p)
     THEN /\ pc' = [Wake("rasleep") EXCEPT ![p] = "user"]
          /\ Return(p)
          /\ cut' = FALSE
     ELSE IF ~readopen \/ killed[p]
     THEN /\ pc' = [pc EXCEPT ![p] = "user"]
          /\ Return(p)
          /\ cut' = (cut \/ i[p] > 0)
     ELSE /\ pc' = [pc EXCEPT ![p] = "wput"]
          /\ UNCHANGED <<lk, calls, cut>>
  /\ UNCHANGED <<pipe, freed, open, killed>>

\* Mutant: the test for a full pipe is off by one.
FullLate == nwrite = (nread + PIPESIZE + 1) % UINT

Full  == nwrite = (nread + PIPESIZE) % UINT
Empty == nread = nwrite

\* pipewrite()'s sleep() when the pipe is full.
WriteSleep(p) ==
  /\ pc[p] = "wput" /\ Full
  /\ pc' = [Wake("rasleep") EXCEPT ![p] = "wasleep"]
  /\ lk' = None
  /\ cut' = FALSE
  /\ UNCHANGED <<pipe, freed, open, killed, calls>>

\* The byte x is copied in.
WriteByte(p, x) ==
  /\ pc[p] = "wput" /\ ~Full
  /\ data' = [data EXCEPT ![nwrite % PIPESIZE] = x]
  /\ nwrite' = (nwrite + 1) % UINT
  /\ i' = [i EXCEPT ![p] = @ + 1]
  /\ pc' = [pc EXCEPT ![p] = "wtest"]
  /\ UNCHANGED <<nread, readopen, writeopen, lk, freed, open, killed, n, cut>>

\* copyin() fails: the loop ends.
WriteFault(p) ==
  /\ pc[p] = "wput" /\ ~Full
  /\ pc' = [Wake("rasleep") EXCEPT ![p] = "user"]
  /\ Return(p)
  /\ cut' = FALSE
  /\ UNCHANGED <<pipe, freed, open, killed>>

\* Mutant: a killed reader leaves the loop instead of returning.
MustWaitAlive(p) == Empty /\ writeopen /\ ~killed[p]

\* The condition of piperead()'s first loop.
MustWait(p) == Empty /\ writeopen

\* The head of piperead()'s first loop.
ReadTest(p) ==
  /\ pc[p] = "rtest"
  /\ IF ~MustWait(p)
     THEN pc' = [pc EXCEPT ![p] = "rcopy"] /\ UNCHANGED <<lk, calls>>
     ELSE IF killed[p]
     THEN pc' = [pc EXCEPT ![p] = "user"] /\ Return(p)
     ELSE pc' = [pc EXCEPT ![p] = "rsleep"] /\ UNCHANGED <<lk, calls>>
  /\ UNCHANGED <<pipe, freed, open, killed, cut>>

ReadSleep(p) ==
  /\ pc[p] = "rsleep"
  /\ pc' = [pc EXCEPT ![p] = "rasleep"]
  /\ lk' = None
  /\ UNCHANGED <<pipe, freed, open, killed, calls, cut>>

\* The end of piperead().
ReadDone(p) ==
  /\ pc' = [Wake("wasleep") EXCEPT ![p] = "user"]
  /\ Return(p)

\* One iteration of piperead()'s second loop; copyout() may fail when it has
\* taken the byte.
ReadByte(p) ==
  /\ pc[p] = "rcopy"
  /\ IF ~More(p) \/ Empty
     THEN ReadDone(p) /\ UNCHANGED nread
     ELSE /\ nread' = (nread + 1) % UINT
          /\ \/ i' = [i EXCEPT ![p] = @ + 1] /\ UNCHANGED <<lk, pc, n>>
             \/ ReadDone(p)
  /\ UNCHANGED <<data, nwrite, readopen, writeopen, freed, open, killed, cut>>

-----------------------------------------------------------------------------
\* p has the last descriptor of its end.
Last(p) == open \cap (IF p \in Writer THEN Writer ELSE Reader) = {p}

\* Mutant: the first pipeclose() frees the pipe.
FreedFirst == TRUE

\* Both ends are closed after pipeclose().
Freed == ~readopen' /\ ~writeopen'

\* fileclose(), with pipeclose() when the last descriptor goes; close() or
\* exit().
Close(p) ==
  /\ pc[p] = "user" /\ p \in open /\ lk = None
  /\ open' = open \ {p}
  /\ writeopen' = (writeopen /\ ~(Last(p) /\ p \in Writer))
  /\ readopen'  = (readopen  /\ ~(Last(p) /\ p \in Reader))
  /\ pc' = IF Last(p) THEN Wake(IF p \in Writer THEN "rasleep" ELSE "wasleep") ELSE pc
  /\ freed' = (freed \/ (Last(p) /\ Freed))
  /\ UNCHANGED <<data, nread, nwrite, lk, killed, calls, cut>>

\* kill() of p by somebody.
Kill(p) ==
  /\ ~killed[p] /\ p \in open
  /\ killed' = [killed EXCEPT ![p] = TRUE]
  /\ pc' = [pc EXCEPT ![p] = IF @ \in {"rasleep", "wasleep"} THEN "lock" ELSE @]
  /\ UNCHANGED <<pipe, lk, freed, open, calls, cut>>

PipeNext ==
  \E p \in Proc :
    \/ \E k \in 0 .. MaxN : Call(p, k)
    \/ Acquire(p)
    \/ WriteTest(p) \/ WriteSleep(p) \/ WriteFault(p)
    \/ \E x \in Byte : WriteByte(p, x)
    \/ ReadTest(p) \/ ReadSleep(p) \/ ReadByte(p)
    \/ Close(p) \/ Kill(p)

PipeSpec == PipeInit /\ [][PipeNext]_pipeVars

-----------------------------------------------------------------------------
\* The bytes in the ring, in the order in which they came.
Count == (nwrite + UINT - nread) % UINT
Queue == [k \in 1 .. Count |-> data[((nread + k - 1) % UINT) % PIPESIZE]]

F == INSTANCE BoundedFifo WITH
       Size <- PIPESIZE, q <- Queue, readable <- readopen, writable <- writeopen

\* The ring is a bounded FIFO, also when nread and nwrite have wrapped around.
ImplementsFifo == F!Spec

\* Nobody sleeps on a condition that has come true: when pi->lock is free, a
\* sleeping reader has nothing to read and a writer to wait for, and a sleeping
\* writer has no room and a reader to wait for.  The exception is a killed
\* writer that returns -1 with bytes already in the pipe: it wakes nobody, and readers
\* sleep on until somebody else wakes them.
NoLostWakeup ==
  lk = None =>
    \A p \in Proc :
      /\ pc[p] = "rasleep" => (Empty \/ cut) /\ writeopen
      /\ pc[p] = "wasleep" => Full /\ readopen

\* kfree() gets the pipe only when nobody can use it any more: no process is
\* inside, or holds or awaits pi->lock.
NoUseAfterFree == freed => open = {} /\ \A p \in Proc : pc[p] = "user"

\* A read of at least one byte comes to its end with nothing only at the end of
\* the file, however many readers were woken for the same bytes.
EndOfFile ==
  \A p \in Reader : pc[p] = "rcopy" /\ i[p] = 0 /\ n[p] > 0 /\ Empty => ~writeopen
=============================================================================
