------------------------------ MODULE LogProofs ------------------------------
(***************************************************************************)
(* The log makes system calls atomic for any number of processes and       *)
(* blocks and any size of the log, wherever the machine stops.             *)
(*                                                                         *)
(* The invariant says, for each part of commit() and of recovery, where    *)
(* the current contents of a block are: in its pinned buffer, in its slot  *)
(* of the log, or at home.                                                 *)
(***************************************************************************)
EXTENDS Log, FiniteSetTheorems, TLAPS

Committing == {"commit", "write_log", "write_head", "install", "clear", "finish"}

TypeOK ==
  /\ home \in [Block -> Value] /\ slot \in [Slot -> Value] /\ head \in Seq(Block)
  /\ cache \in [Block -> Value \cup {NoBuf}] /\ lh \in Seq(Block) /\ pinned \subseteq Block
  /\ outstanding \in Nat /\ committing \in BOOLEAN
  /\ pc \in [Op -> {"idle", "begin", "asleep", "op", "panic"} \cup Committing]
  /\ boot \in {"read_head", "install", "clear", "up"}
  /\ tail \in Nat

\* A header names distinct blocks, as many as there are slots at most.
Header(s) ==
  /\ Len(s) <= SIZE - 1
  /\ \A i, j \in 1 .. Len(s) : s[i] = s[j] => i = j

\* The system calls under way.
Active == {o \in Op : pc[o] \in {"op", "panic"}}

Counted == IsFiniteSet(Active) /\ outstanding = Cardinality(Active)

\* One process at a time commits, while no system call is under way, and nothing
\* happens before recovery is over.
OneCommitter ==
  /\ \A o \in Op : pc[o] \in Committing => committing
  /\ \A o, p \in Op : pc[o] \in Committing /\ pc[p] \in Committing => o = p
  /\ committing => outstanding = 0
  /\ boot # "up" => ~committing /\ pinned = {} /\ \A o \in Op : pc[o] = "idle"
  /\ lh # <<>> /\ boot = "up" => committing \/ outstanding > 0

\* The loops over log.lh.
LoopAt ==
  IF Writing("write_log") \/ Writing("install") THEN tail \in 1 .. Len(lh) ELSE tail = 1

\* The entries of log.lh that install_trans() has still to write home.
Pending == {i \in 1 .. Len(lh) : ~Writing("clear") /\ (Writing("install") => i >= tail)}

\* A pinned buffer is in the cache, and any other one there is as it is at home.
Buffers ==
  /\ boot = "up" => pinned = {lh[i] : i \in Pending}
  /\ \A b \in pinned : cache[b] # NoBuf
  /\ \A b \in Block \ pinned : cache[b] \in {NoBuf, home[b]}

\* The log on disk is empty but from write_head() to its being cleared.
HeadWritten ==
  /\ boot = "read_head" => lh = <<>>
  /\ IF Writing("install") \/ Writing("clear") THEN head = lh
     ELSE boot = "up" => head = <<>>

\* What is in the slots and at home by the time.
Copied ==
  /\ \A o \in Op : pc[o] = "finish" => lh = <<>>
  /\ Writing("write_log") => \A i \in 1 .. tail - 1 : slot[i] = cache[lh[i]]
  /\ Writing("write_head") => lh # <<>> /\ \A i \in 1 .. Len(lh) : slot[i] = cache[lh[i]]
  /\ Writing("install") =>
       /\ \A i \in 1 .. tail - 1 : home[lh[i]] = slot[i]
       /\ boot = "up" => \A i \in tail .. Len(lh) : cache[lh[i]] = slot[i]
  /\ Writing("clear") => \A i \in 1 .. Len(lh) : home[lh[i]] = slot[i]

IInv ==
  /\ TypeOK /\ Header(lh) /\ Header(head) /\ Counted
  /\ OneCommitter /\ LoopAt /\ Buffers /\ HeadWritten /\ Copied
  /\ WaitersHeldBack

-----------------------------------------------------------------------------
(* Every step keeps the invariant.                                         *)

\* A disk with an empty log satisfies the invariant.
LEMMA InitIInv == Init => IInv
<1> SUFFICES ASSUME Init PROVE IInv
  OBVIOUS
<1> USE DEF Init, Committing
<1>1. TypeOK
  <2>1. PICK v \in Value : slot = [i \in Slot |-> v]
    OBVIOUS
  <2>2. committing \in BOOLEAN
    BY Zenon
  <2> QED
    BY <2>1, <2>2 DEF TypeOK
<1>2. Active = {} /\ Counted
  BY FS_EmptySet, Zenon DEF Active, Counted
<1>3. Header(lh) /\ Header(head)
  BY SizeAssumption DEF Header
<1>4. OneCommitter /\ LoopAt /\ Buffers /\ HeadWritten /\ Copied /\ WaitersHeldBack
  BY DEF OneCommitter, LoopAt, Buffers, Pending, HeadWritten, Copied, WaitersHeldBack, Writing
<1> QED
  BY <1>1, <1>2, <1>3, <1>4 DEF IInv

\* A step of a process or of recovery that leaves the active calls alone.
LEMMA StillCounted == ASSUME Counted, Active' = Active, outstanding' = outstanding PROVE Counted'
BY DEF Counted

\* Where one process commits, nobody else does, and recovery is over.
LEMMA OnlyHere ==
  ASSUME IInv, NEW o \in Op, pc[o] \in Committing
  PROVE  /\ boot = "up" /\ committing /\ outstanding = 0
         /\ \A p \in Op : pc[p] \in Committing => p = o
         /\ \A l \in Committing : Writing(l) <=> l = pc[o]
<1>1. boot = "up" /\ committing /\ outstanding = 0 /\ \A p \in Op : pc[p] \in Committing => p = o
  BY DEF IInv, OneCommitter, Committing
<1> QED
  BY <1>1 DEF Writing, Committing

\* During recovery nobody commits.
LEMMA Recovering ==
  ASSUME IInv, boot # "up"
  PROVE  /\ pinned = {} /\ ~committing /\ \A o \in Op : pc[o] = "idle"
         /\ \A l \in Committing : Writing(l) <=> l = boot
BY DEF IInv, OneCommitter, Writing, Committing

\* The buffer of a block that is still to be installed is in the cache.
LEMMA PendingCached ==
  ASSUME IInv, boot = "up", NEW i \in Pending
  PROVE  lh[i] \in Block /\ lh[i] \in pinned /\ cache[lh[i]] \in Value
BY DEF IInv, TypeOK, Buffers, Pending

\* The entries of log.lh whose buffers a phase of commit() relies on.
LEMMA PendingEntries ==
  ASSUME IInv
  PROVE  /\ Writing("write_log") => 1 .. Len(lh) \subseteq Pending /\ 1 .. tail - 1 \subseteq Pending
         /\ Writing("write_head") => 1 .. Len(lh) \subseteq Pending
         /\ Writing("install") => tail .. Len(lh) \subseteq Pending
<1> USE DEF Writing, Committing
<1>1. Writing("write_log") \/ Writing("write_head") => ~Writing("install") /\ ~Writing("clear")
  BY OnlyHere DEF IInv, TypeOK
<1>2. Writing("install") => ~Writing("clear")
  BY OnlyHere, Recovering
<1> QED
  BY <1>1, <1>2 DEF IInv, LoopAt, TypeOK, Pending

-----------------------------------------------------------------------------
(* The buffer cache: bread() and the recycling of buffers that are not pinned. *)

\* Steps that only read a block into the cache or drop one that is not pinned.
LEMMA CacheKeeps ==
  ASSUME IInv, boot = "up", NEW b \in Block \ pinned, NEW d \in {NoBuf, home[b]},
         cache' = [cache EXCEPT ![b] = d],
         UNCHANGED <<disk, lh, pinned, outstanding, committing, pc, wrote, boot, tail>>
  PROVE  IInv'
<1> USE DEF IInv, disk
<1>1. TypeOK'
  BY DEF TypeOK
<1>2. Counted'
  BY StillCounted DEF Active
<1>3. OneCommitter' /\ LoopAt' /\ HeadWritten' /\ WaitersHeldBack'
  BY DEF OneCommitter, LoopAt, HeadWritten, WaitersHeldBack, Fits, Writing
<1>4. Pending' = Pending /\ \A l : Writing(l)' <=> Writing(l)
  BY DEF Pending, Writing
<1>5. Buffers'
  BY <1>4 DEF TypeOK, Buffers
<1>6. \A i \in Pending : cache'[lh[i]] = cache[lh[i]]
  BY PendingCached DEF TypeOK
<1>7. Copied'
  BY <1>4, <1>6, PendingEntries DEF Copied
<1> QED
  BY <1>1, <1>2, <1>3, <1>5, <1>7 DEF Header

\* bread() fills a buffer from the disk; bget() recycles one that is not pinned.
LEMMA BreadKeeps == ASSUME IInv, NEW b \in Block, Bread(b) \/ Recycle(b) PROVE IInv'
<1>1. b \notin pinned
  BY DEF Bread, Recycle, IInv, Buffers
<1> QED
  BY <1>1, CacheKeeps DEF Bread, Recycle

-----------------------------------------------------------------------------
(* begin_op(), log_write() and end_op().                                   *)

\* A step in which nobody begins, continues or ends a commit().
CommitUntouched ==
  boot' = boot /\ \A o \in Op : pc'[o] = pc[o] \/ (pc[o] \notin Committing /\ pc'[o] \notin Committing)

\* Steps outside commit() leave the phase of the commit alone.
LEMMA SamePhase ==
  ASSUME CommitUntouched
  PROVE  \A l \in Committing : Writing(l)' <=> Writing(l)
BY DEF CommitUntouched, Writing

\* Such a step keeps the log and the buffers in order if it does not change them.
LEMMA DiskKept ==
  ASSUME IInv, CommitUntouched, UNCHANGED <<disk, cache, lh, pinned, tail>>
  PROVE  Header(lh)' /\ Header(head)' /\ LoopAt' /\ Buffers' /\ HeadWritten' /\ Copied'
<1>1. \A l \in Committing : Writing(l)' <=> Writing(l)
  BY SamePhase
<1> USE <1>1 DEF IInv, disk, Committing, CommitUntouched
<1>2. Pending' = Pending
  BY DEF Pending
<1>3. Header(lh)' /\ Header(head)' /\ LoopAt' /\ HeadWritten'
  BY DEF Header, LoopAt, HeadWritten
<1>4. Buffers'
  BY <1>2 DEF Buffers
<1>5. Copied'
  BY DEF Copied
<1> QED
  BY <1>3, <1>4, <1>5

\* A system call that enters begin_op().
LEMMA CallKeeps == ASSUME IInv, NEW o \in Op, Call(o) PROVE IInv'
<1> USE DEF IInv, Call, disk
<1>1. TypeOK'
  BY DEF TypeOK
<1>2. Counted'
  BY StillCounted DEF Active, TypeOK
<1>3. CommitUntouched
  BY DEF CommitUntouched, Committing, TypeOK
<1>4. OneCommitter' /\ WaitersHeldBack'
  BY DEF OneCommitter, WaitersHeldBack, Fits, TypeOK, Committing
<1> QED
  BY <1>1, <1>2, <1>3, <1>4, DiskKept

\* begin_op() reserves room, or sleeps.
LEMMA BeginOpKeeps == ASSUME IInv, NEW o \in Op, BeginOp(o) PROVE IInv'
<1> USE DEF IInv, BeginOp, disk
<1>1. TypeOK'
  BY DEF TypeOK
<1>2. CommitUntouched
  BY DEF CommitUntouched, Committing, TypeOK
<1>3. Counted'
  <2>1. CASE committing \/ ~Fits
    BY <2>1, StillCounted DEF Active, TypeOK
  <2>2. CASE ~(committing \/ ~Fits)
    <3>1. Active' = Active \cup {o} /\ o \notin Active
      BY <2>2 DEF Active, TypeOK
    <3> QED
      BY <2>2, <3>1, FS_AddElement DEF Counted, TypeOK
  <2> QED
    BY <2>1, <2>2
<1>4. OneCommitter'
  BY DEF OneCommitter, TypeOK, Committing
<1>5. WaitersHeldBack'
  BY DEF WaitersHeldBack, Fits, TypeOK
<1> QED
  BY <1>1, <1>2, <1>3, <1>4, <1>5, DiskKept

\* The last call that ends starts commit(); the others wake who waits in begin_op().
LEMMA EndOpKeeps == ASSUME IInv, NEW o \in Op, EndOp(o) PROVE IInv'
<1> USE DEF IInv, EndOp, disk, Ended
<1>1. o \in Active /\ outstanding > 0 /\ ~committing
  <2>1. o \in Active /\ Active # {}
    BY DEF Active
  <2> QED
    BY <2>1, FS_EmptySet DEF Counted, OneCommitter, TypeOK
<1>2. TypeOK'
  <2>1. committing' \in BOOLEAN
    BY Zenon DEF TypeOK
  <2>2. pc' \in [Op -> {"idle", "begin", "asleep", "op", "panic"} \cup Committing]
    BY <1>1, Zenon DEF TypeOK, Wakeup, Committing
  <2>3. outstanding' \in Nat
    BY <1>1 DEF TypeOK
  <2> QED
    BY <2>1, <2>2, <2>3 DEF TypeOK
<1>3. Counted'
  <2>1. Active' = Active \ {o}
    BY <1>1, Zenon DEF Active, TypeOK, Wakeup, Committing
  <2> QED
    BY <1>1, <2>1, FS_RemoveElement DEF Counted, TypeOK
<1>4. WaitersHeldBack'
  BY <1>1, Zenon DEF WaitersHeldBack, TypeOK, Wakeup
<1>5. CASE NoneLeft
  <2>1. OneCommitter'
    BY <1>1, <1>5 DEF OneCommitter, TypeOK, Committing, NoneLeft
  <2>2. \A l \in Committing \ {"commit"} : Writing(l)' <=> Writing(l)
    BY <1>1, <1>5 DEF Writing, TypeOK, OneCommitter, Committing
  <2>3. Pending' = Pending
    BY <2>2 DEF Pending, Committing
  <2>4. Header(lh)' /\ Header(head)' /\ LoopAt' /\ HeadWritten'
    BY <2>2 DEF Header, LoopAt, HeadWritten, Committing
  <2>5. Buffers'
    BY <2>3 DEF Buffers
  <2>6. Copied'
    BY <1>1, <1>5, <2>2 DEF Copied, Committing, TypeOK
  <2> QED
    BY <1>2, <1>3, <1>4, <2>1, <2>4, <2>5, <2>6
<1>6. CASE ~NoneLeft
  <2>1. \A p \in Op : pc'[p] \notin Committing
    BY <1>1, <1>6, Zenon DEF OneCommitter, TypeOK, Committing, Wakeup
  <2>2. CommitUntouched
    BY <1>1, <1>6, <2>1 DEF CommitUntouched, OneCommitter
  <2>3. outstanding' > 0 /\ ~committing'
    BY <1>1, <1>6 DEF NoneLeft, TypeOK
  <2>4. OneCommitter'
    BY <1>1, <1>6, <2>1, <2>3 DEF OneCommitter
  <2> QED
    BY <1>2, <1>3, <1>4, <2>2, <2>4, DiskKept
<1> QED
  BY <1>5, <1>6

\* log_write() absorbs a write of a logged block, or logs and pins a new one.
LEMMA LogWriteKeeps ==
  ASSUME IInv, NEW o \in Op, NEW b \in Block, NEW v \in Value, LogWrite(o, b, v)
  PROVE  IInv'
<1> USE DEF IInv, disk
<1>1. /\ pc[o] = "op" /\ boot = "up" /\ ~committing
      /\ outstanding > 0 /\ \A p \in Op : pc[p] \notin Committing
  <2>1. pc[o] = "op" /\ o \in Active
    BY DEF LogWrite, Active
  <2> QED
    BY <2>1, FS_EmptySet DEF Counted, OneCommitter, TypeOK
<1>2. head = <<>> /\ tail = 1 /\ pinned = Logged /\ \A l \in Committing : ~Writing(l)
  <2>1. \A l \in Committing : ~Writing(l)
    BY <1>1 DEF Writing, Committing
  <2>2. Pending = 1 .. Len(lh) /\ DOMAIN lh = 1 .. Len(lh)
    BY <2>1 DEF Pending, TypeOK, Committing
  <2> QED
    BY <1>1, <2>1, <2>2 DEF HeadWritten, LoopAt, Buffers, Logged, Committing
<1>3. CASE Len(lh) >= LOGSIZE \/ Len(lh) >= SIZE - 1
  <2> USE <1>3 DEF LogWrite
  <2>1. TypeOK'
    BY DEF TypeOK
  <2>2. Counted'
    BY StillCounted DEF Active, TypeOK
  <2>3. CommitUntouched
    BY DEF CommitUntouched, TypeOK, Committing
  <2>4. OneCommitter' /\ WaitersHeldBack'
    BY DEF OneCommitter, WaitersHeldBack, Fits, TypeOK, Committing
  <2> QED
    BY <2>1, <2>2, <2>3, <2>4, DiskKept
<1>4. CASE ~(Len(lh) >= LOGSIZE \/ Len(lh) >= SIZE - 1)
  <2>1. /\ cache' = [cache EXCEPT ![b] = v]
        /\ IF b \in Logged THEN UNCHANGED <<lh, pinned>>
           ELSE lh' = Append(lh, b) /\ pinned' = Pin(b)
        /\ UNCHANGED <<disk, outstanding, committing, pc, boot, tail>>
    BY <1>4 DEF LogWrite
  <2>a. Logged = {lh[i] : i \in 1 .. Len(lh)}
    BY DEF Logged, TypeOK
  <2>b. /\ lh' \in Seq(Block) /\ \A i \in 1 .. Len(lh) : lh'[i] = lh[i]
        /\ IF b \in Logged THEN lh' = lh ELSE Len(lh') = Len(lh) + 1 /\ lh'[Len(lh) + 1] = b
        /\ pinned' = Logged \cup {b}
    <3>1. lh \in Seq(Block) /\ b \in Block
      BY DEF TypeOK
    <3>2. pinned = Logged
      BY <1>2
    <3>3. CASE b \in Logged
      BY ONLY <2>1, <3>1, <3>2, <3>3
    <3>4. CASE b \notin Logged
      BY ONLY SMTT(15), <2>1, <3>1, <3>2, <3>4 DEF Pin
    <3> QED
      BY ONLY <3>3, <3>4
  <2>2. TypeOK'
    BY <1>2, <2>1, <2>b DEF TypeOK
  <2>3. Header(lh)' /\ Header(head)'
    <3>1. CASE b \in Logged
      BY <2>1, <2>b, <3>1 DEF Header
    <3>2. CASE b \notin Logged
      <4>1. Len(lh') <= SIZE - 1 /\ \A i \in 1 .. Len(lh') : i = Len(lh) + 1 \/ i \in 1 .. Len(lh)
        BY <1>4, <2>b, <3>2, SizeAssumption DEF TypeOK
      <4>2. \A i \in 1 .. Len(lh) : lh[i] # b
        BY <2>a, <3>2
      <4> QED
        BY <2>1, <2>b, <3>2, <4>1, <4>2 DEF Header
    <3> QED
      BY <3>1, <3>2
  <2>4. Counted'
    BY <2>1, StillCounted DEF Active
  <2>5. OneCommitter'
    BY <1>1, <2>1 DEF OneCommitter
  <2>6. \A l \in Committing : ~Writing(l)'
    BY <1>2, <2>1 DEF Writing
  <2>7. LoopAt' /\ HeadWritten'
    BY <1>1, <1>2, <2>1, <2>6 DEF LoopAt, HeadWritten, Committing
  <2>8. pinned' = {lh'[i] : i \in 1 .. Len(lh')}
    <3>1. CASE b \in Logged
      BY <2>a, <2>b, <3>1
    <3>2. CASE b \notin Logged
      <4>1. \A i \in 1 .. Len(lh') : i = Len(lh) + 1 \/ i \in 1 .. Len(lh)
        BY <2>b, <3>2 DEF TypeOK
      <4>2. Len(lh) + 1 \in 1 .. Len(lh') /\ 1 .. Len(lh) \subseteq 1 .. Len(lh')
        BY <2>b, <3>2 DEF TypeOK
      <4> HIDE DEF IInv
      <4> QED
        BY <2>a, <2>b, <3>2, <4>1, <4>2
    <3> QED
      BY <3>1, <3>2
  <2>9. Buffers'
    <3>1. Pending' = 1 .. Len(lh')
      BY <2>6 DEF Pending, Committing
    <3> QED
      BY <1>2, <2>1, <2>b, <2>8, <3>1, NoBufAssumption DEF Buffers, TypeOK
  <2>10. Copied'
    BY <1>1, <2>1, <2>6 DEF Copied, Committing
  <2>11. WaitersHeldBack'
    BY <1>1, <2>1, SizeAssumption DEF WaitersHeldBack, Fits, TypeOK
  <2> QED
    BY <2>2, <2>3, <2>4, <2>5, <2>7, <2>9, <2>10, <2>11
<1> QED
  BY <1>3, <1>4

-----------------------------------------------------------------------------
(* commit().                                                               *)

\* A step of commit() from one of its parts to another.
CommitStep(o, from, to) ==
  /\ pc[o] = from /\ from \in Committing /\ to \in Committing
  /\ pc' = [pc EXCEPT ![o] = to]
  /\ UNCHANGED <<outstanding, committing, boot>>

\* What every such step keeps.
CommitKept(from, to) ==
  /\ pc' \in [Op -> {"idle", "begin", "asleep", "op", "panic"} \cup Committing]
  /\ Counted' /\ OneCommitter' /\ WaitersHeldBack'
  /\ boot = "up" /\ committing
  /\ \A l \in Committing : (Writing(l) <=> l = from) /\ (Writing(l)' <=> l = to)
  /\ \A p \in Op : pc'[p] = "finish" => to = "finish"

\* What a step from one phase of commit() to the next leaves in order.
LEMMA CommitStepKeeps ==
  ASSUME IInv, NEW o \in Op, NEW from, NEW to, CommitStep(o, from, to)
  PROVE  CommitKept(from, to)
<1> USE DEF IInv, CommitStep
<1>1. /\ boot = "up" /\ committing /\ outstanding = 0
      /\ \A p \in Op : pc[p] \in Committing => p = o
      /\ \A l \in Committing : Writing(l) <=> l = from
  BY OnlyHere
<1>2. pc' \in [Op -> {"idle", "begin", "asleep", "op", "panic"} \cup Committing]
  BY DEF TypeOK
<1>3. Counted'
  <2>1. Active' = Active
    BY DEF Active, TypeOK, Committing
  <2> QED
    BY <2>1, StillCounted
<1>4. \A l \in Committing : Writing(l)' <=> l = to
  BY <1>1 DEF Writing, TypeOK, Committing
<1>5. \A p \in Op : pc'[p] = "finish" => to = "finish"
  BY <1>1 DEF TypeOK, Committing
<1>6. OneCommitter'
  BY <1>1 DEF OneCommitter, TypeOK, Committing
<1>7. WaitersHeldBack'
  BY <1>1 DEF WaitersHeldBack, TypeOK, Committing
<1> QED
  BY <1>1, <1>2, <1>3, <1>4, <1>5, <1>6, <1>7 DEF CommitKept

\* commit() starts with a log that is empty or has blocks to write.
LEMMA CommitKeeps == ASSUME IInv, NEW o \in Op, Commit(o) PROVE IInv'
<1> DEFINE to == IF lh # <<>> THEN CommitFirst ELSE "finish"
<1>1. CommitStep(o, "commit", to)
  BY DEF Commit, Step, CommitStep, Committing, CommitFirst
<1>2. CommitKept("commit", to)
  BY <1>1, CommitStepKeeps
<1> USE DEF CommitKept
<1> USE DEF IInv, Commit, disk
<1>3. TypeOK' /\ Header(lh)' /\ Header(head)'
  BY <1>2 DEF TypeOK, Header
<1>4. tail = 1 /\ head = <<>> /\ Pending = 1 .. Len(lh) /\ Pending' = 1 .. Len(lh)
  BY <1>2 DEF LoopAt, HeadWritten, Pending, Committing, CommitFirst
<1>5. LoopAt' /\ HeadWritten'
  BY <1>2, <1>4 DEF LoopAt, HeadWritten, Committing, CommitFirst, TypeOK
<1>6. Buffers'
  BY <1>2, <1>4 DEF Buffers
<1>7. Copied'
  BY <1>2, <1>4 DEF Copied, Committing, CommitFirst
<1> QED
  BY <1>2, <1>3, <1>5, <1>6, <1>7

\* write_log() copies the buffers to their slots, one by one.
LEMMA WriteLogKeeps == ASSUME IInv, NEW o \in Op, WriteLog(o) PROVE IInv'
<1> DEFINE to == Loop("write_log", "write_head")
<1>1. CommitStep(o, "write_log", to)
  BY DEF WriteLog, Step, CommitStep, Committing, Loop
<1>2. CommitKept("write_log", to)
  BY <1>1, CommitStepKeeps
<1> USE DEF CommitKept
<1>3. /\ slot' = [slot EXCEPT ![tail] = Data(lh[tail])] /\ tail' = NextTail /\ boot' = boot
      /\ UNCHANGED <<home, head, cache, lh, pinned, outstanding, committing>>
  BY DEF WriteLog
<1> USE DEF IInv
<1>4. /\ tail \in 1 .. Len(lh) /\ head = <<>> /\ tail \in Slot
      /\ Pending = 1 .. Len(lh) /\ Pending' = 1 .. Len(lh)
  <2>1. tail \in 1 .. Len(lh) /\ head = <<>>
    BY <1>2 DEF LoopAt, HeadWritten, Committing
  <2>2. tail \in Slot
    BY <2>1, SizeAssumption DEF Slot, Header, TypeOK
  <2>3. Pending = 1 .. Len(lh) /\ Pending' = 1 .. Len(lh)
    BY <1>2, <1>3 DEF Pending, Committing, Loop
  <2> QED
    BY <2>1, <2>2, <2>3
<1>5. Data(lh[tail]) = cache[lh[tail]] /\ cache[lh[tail]] \in Value
  BY <1>2, <1>4, PendingCached, NoBufAssumption DEF Data
<1>6. TypeOK' /\ Header(lh)' /\ Header(head)'
  <2>1. slot' \in [Slot -> Value]
    BY <1>3, <1>5, Zenon DEF TypeOK
  <2>2. tail' \in Nat
    BY <1>3 DEF TypeOK, NextTail
  <2> QED
    BY <1>2, <1>3, <2>1, <2>2 DEF TypeOK, Header
<1>7. LoopAt' /\ HeadWritten'
  BY <1>2, <1>3, <1>4 DEF LoopAt, HeadWritten, Committing, TypeOK, Loop, NextTail
<1>8. Buffers'
  BY <1>2, <1>3, <1>4 DEF Buffers
<1>9. Copied'
  <2>1. \A i \in 1 .. tail : slot'[i] = cache[lh[i]]
    BY <1>2, <1>3, <1>4, <1>5 DEF Copied, TypeOK, Committing, Slot
  <2>2. IF tail < Len(lh) THEN to = "write_log" /\ tail' - 1 = tail ELSE to = "write_head" /\ tail = Len(lh)
    BY <1>3, <1>4 DEF Loop, NextTail, TypeOK
  <2>3. lh # <<>>
    BY <1>4
  <2> QED
    BY <1>2, <1>3, <2>1, <2>2, <2>3 DEF Copied, Committing
<1> QED
  BY <1>2, <1>6, <1>7, <1>8, <1>9

\* The commit point: the header names blocks whose slots are all written.
LEMMA WriteHeadKeeps == ASSUME IInv, NEW o \in Op, WriteHead(o) PROVE IInv'
<1>1. CommitStep(o, "write_head", "install")
  BY DEF WriteHead, Step, CommitStep, Committing
<1>2. CommitKept("write_head", "install")
  BY <1>1, CommitStepKeeps
<1> USE DEF CommitKept
<1> USE DEF IInv, WriteHead
<1>3. TypeOK' /\ Header(lh)' /\ Header(head)'
  BY <1>2 DEF TypeOK, Header
<1>4. tail = 1 /\ lh # <<>> /\ Pending' = Pending
  BY <1>2 DEF LoopAt, Pending, Committing, TypeOK, Copied
<1>5. LoopAt' /\ HeadWritten'
  BY <1>2, <1>4 DEF LoopAt, HeadWritten, Committing, TypeOK
<1>6. Buffers'
  BY <1>2, <1>4 DEF Buffers
<1>7. Copied'
  BY <1>2, <1>4 DEF Copied, Committing
<1> QED
  BY <1>2, <1>3, <1>5, <1>6, <1>7

\* One block is written from its slot to its home; its buffer, if it has one, has
\* the same contents.
InstallFacts ==
  /\ tail \in 1 .. Len(lh) /\ tail \in Slot /\ lh[tail] \in Block /\ slot[tail] \in Value
  /\ head = lh /\ head' = head /\ lh' = lh /\ slot' = slot
  /\ home' \in [Block -> Value] /\ cache' \in [Block -> Value \cup {NoBuf}]
  /\ home'[lh[tail]] = slot[tail] /\ cache'[lh[tail]] = slot[tail]
  /\ \A b \in Block \ {lh[tail]} : home'[b] = home[b] /\ cache'[b] = cache[b]
  /\ \A i \in 1 .. Len(lh) : lh[i] \in Block /\ (i # tail => lh[i] # lh[tail])
  /\ tail' \in Nat
  /\ IF tail < Len(lh) THEN tail' = tail + 1 ELSE tail' = 1 /\ tail = Len(lh)

\* What install_trans() changes when it writes one block home.
LEMMA InstallBlockFacts == ASSUME IInv, Writing("install"), InstallBlock PROVE InstallFacts
<1> USE DEF IInv
<1>1. tail \in 1 .. Len(lh) /\ head = lh
  BY DEF LoopAt, HeadWritten
<1>2. tail \in Slot /\ lh[tail] \in Block /\ slot[tail] \in Value
  BY <1>1, SizeAssumption DEF Slot, Header, TypeOK
<1>3. head' = head /\ lh' = lh /\ slot' = slot
  BY DEF InstallBlock
<1>4. /\ home' \in [Block -> Value] /\ cache' \in [Block -> Value \cup {NoBuf}]
      /\ home'[lh[tail]] = slot[tail] /\ cache'[lh[tail]] = slot[tail]
      /\ \A b \in Block \ {lh[tail]} : home'[b] = home[b] /\ cache'[b] = cache[b]
  BY <1>2 DEF InstallBlock, TypeOK
<1>5. \A i \in 1 .. Len(lh) : lh[i] \in Block /\ (i # tail => lh[i] # lh[tail])
  BY <1>1 DEF TypeOK, Header
<1>6. tail' \in Nat /\ IF tail < Len(lh) THEN tail' = tail + 1 ELSE tail' = 1 /\ tail = Len(lh)
  BY <1>1 DEF InstallBlock, NextTail, TypeOK
<1> QED
  BY <1>1, <1>2, <1>3, <1>4, <1>5, <1>6 DEF InstallFacts

\* install_trans() of a running system, which unpins what it has written.
LEMMA InstallTransKeeps == ASSUME IInv, NEW o \in Op, InstallTrans(o) PROVE IInv'
<1> DEFINE to == Loop("install", "clear")
<1>1. CommitStep(o, "install", to)
  BY DEF InstallTrans, InstallBlock, Step, CommitStep, Committing, Loop
<1>2. CommitKept("install", to)
  BY <1>1, CommitStepKeeps
<1> USE DEF CommitKept
<1>3. InstallFacts
  BY <1>2, InstallBlockFacts DEF InstallTrans, Committing
<1> USE DEF InstallFacts
<1>4. /\ pinned' = pinned \ {lh[tail]} /\ boot' = boot
      /\ outstanding' = outstanding /\ committing' = committing
  BY DEF InstallTrans, InstallBlock
<1> USE DEF IInv
<1>5. TypeOK' /\ Header(lh)' /\ Header(head)'
  BY <1>2, <1>3, <1>4 DEF TypeOK, Header
<1>6. LoopAt' /\ HeadWritten'
  BY <1>2, <1>3, <1>4 DEF LoopAt, HeadWritten, Committing, TypeOK, Loop
<1>7. Pending = tail .. Len(lh) /\ Pending' = tail + 1 .. Len(lh)
  <2>1. Len(lh) \in Nat /\ tail \in 1 .. Len(lh) /\ lh' = lh
    BY <1>3 DEF TypeOK
  <2>2. ~Writing("clear") /\ Writing("install")
    BY <1>2 DEF Committing
  <2>3. Pending = {i \in 1 .. Len(lh) : i >= tail}
    BY ONLY <2>2 DEF Pending
  <2>4. IF tail < Len(lh) THEN to = "install" /\ tail' = tail + 1 ELSE to = "clear" /\ tail = Len(lh)
    BY <1>3, <2>1, Zenon DEF Loop
  <2>5. (Writing("clear")' <=> "clear" = to) /\ (Writing("install")' <=> "install" = to)
    BY <1>2 DEF Committing
  <2>6. Pending' = {i \in 1 .. Len(lh) : to # "clear" /\ (to = "install" => i >= tail')}
    BY ONLY <2>1, <2>5 DEF Pending
  <2> HIDE DEF to
  <2>7. Pending = tail .. Len(lh)
    BY ONLY <2>1, <2>3
  <2>8. CASE tail < Len(lh)
    BY ONLY <2>1, <2>4, <2>6, <2>7, <2>8
  <2>9. CASE ~(tail < Len(lh))
    BY ONLY <2>1, <2>4, <2>6, <2>7, <2>9
  <2> QED
    BY ONLY <2>8, <2>9
<1>8. Buffers'
  <2>1. pinned' = {lh[i] : i \in tail + 1 .. Len(lh)}
    <3>1. pinned = {lh[i] : i \in tail .. Len(lh)}
      BY <1>2, <1>7 DEF Buffers
    <3>2. \A i \in tail .. Len(lh) : i \in 1 .. Len(lh) /\ (i = tail \/ i \in tail + 1 .. Len(lh))
      BY <1>3 DEF TypeOK
    <3>3. \A i \in tail + 1 .. Len(lh) : i # tail /\ i \in tail .. Len(lh)
      BY <1>3 DEF TypeOK
    <3> HIDE DEF IInv
    <3> QED
      BY ONLY InstallFacts, <1>3, <1>4, <3>1, <3>2, <3>3 DEF InstallFacts
  <2>2. /\ \A b \in pinned : cache[b] # NoBuf
        /\ \A b \in Block \ pinned : cache[b] \in {NoBuf, home[b]}
    BY DEF Buffers
  <2>3. \A b \in pinned' : cache'[b] # NoBuf
    BY <1>3, <1>4, <2>2, NoBufAssumption DEF TypeOK
  <2>4. \A b \in Block \ pinned' : cache'[b] \in {NoBuf, home'[b]}
    BY <1>3, <1>4, <2>2
  <2>5. lh' = lh
    BY <1>3
  <2> QED
    BY ONLY <1>7, <2>1, <2>3, <2>4, <2>5 DEF Buffers
<1>9. Copied'
  <2>1. \A i \in 1 .. tail : home'[lh[i]] = slot[i]
    BY <1>2, <1>3 DEF Copied, TypeOK, Committing
  <2>2. \A i \in tail + 1 .. Len(lh) : cache'[lh[i]] = slot[i]
    BY <1>2, <1>3 DEF Copied, TypeOK, Committing
  <2>3. IF tail < Len(lh) THEN to = "install" /\ tail' - 1 = tail /\ tail' = tail + 1
        ELSE to = "clear" /\ tail = Len(lh)
    <3>1. tail \in Nat /\ IF tail < Len(lh) THEN tail' = tail + 1 ELSE tail = Len(lh)
      BY <1>3 DEF TypeOK
    <3> QED
      BY ONLY <3>1 DEF Loop
  <2> QED
    BY <1>2, <1>3, <1>4, <2>1, <2>2, <2>3, Zenon DEF Copied, Committing
<1> QED
  BY <1>2, <1>5, <1>6, <1>8, <1>9

\* The header is emptied once every block is home, and the commit is over.
LEMMA ClearLogKeeps == ASSUME IInv, NEW o \in Op, ClearLog(o) PROVE IInv'
<1>1. CommitStep(o, "clear", "finish")
  BY DEF ClearLog, Clear, Step, CommitStep, Committing
<1>2. CommitKept("clear", "finish")
  BY <1>1, CommitStepKeeps
<1> USE DEF IInv, ClearLog, Clear, CommitKept
<1>3. TypeOK' /\ Header(lh)' /\ Header(head)'
  BY <1>2, SizeAssumption DEF TypeOK, Header
<1>4. tail = 1 /\ pinned = {} /\ Pending' = {}
  BY <1>2 DEF LoopAt, Buffers, Pending, Committing
<1>5. LoopAt' /\ HeadWritten' /\ Buffers'
  BY <1>2, <1>4 DEF LoopAt, HeadWritten, Buffers, Committing
<1>6. Copied'
  BY <1>2 DEF Copied, Committing
<1> QED
  BY <1>2, <1>3, <1>5, <1>6

\* The end of end_op() lets calls in again and wakes those who wait.
LEMMA FinishCommitKeeps == ASSUME IInv, NEW o \in Op, FinishCommit(o) PROVE IInv'
<1> USE DEF IInv, FinishCommit, disk
<1>1. /\ boot = "up" /\ lh = <<>> /\ \A p \in Op : pc[p] \in Committing => p = o
      /\ \A l \in Committing : Writing(l) <=> l = "finish"
  BY OnlyHere DEF Committing, Copied
<1>2. /\ \A p \in Op : pc'[p] \notin Committing /\ pc'[p] # "asleep"
      /\ \A p \in Op : pc'[p] \in {"op", "panic"} <=> pc[p] \in {"op", "panic"}
      /\ pc' \in [Op -> {"idle", "begin", "asleep", "op", "panic"} \cup Committing]
  BY <1>1 DEF TypeOK, Wakeup, Committing
<1>3. \A l \in Committing : ~Writing(l)'
  BY <1>1, <1>2 DEF Writing, Committing
<1>4. TypeOK' /\ Header(lh)' /\ Header(head)'
  <2>1. committing' \in BOOLEAN
    BY Zenon
  <2> QED
    BY <1>2, <2>1 DEF TypeOK, Header
<1>5. Counted'
  BY <1>2, StillCounted DEF Active
<1>6. OneCommitter' /\ WaitersHeldBack'
  BY <1>1, <1>2 DEF OneCommitter, WaitersHeldBack
<1>7. Pending = {} /\ Pending' = {}
  BY <1>1 DEF Pending
<1>8. LoopAt' /\ HeadWritten' /\ Buffers'
  BY <1>1, <1>3, <1>7 DEF LoopAt, HeadWritten, Buffers, Committing
<1>9. Copied'
  BY <1>1, <1>3 DEF Copied, Committing
<1> QED
  BY <1>4, <1>5, <1>6, <1>8, <1>9

-----------------------------------------------------------------------------
(* Crash and recovery.                                                     *)

\* A crash loses the memory and leaves the disk as it is.
LEMMA CrashKeeps == ASSUME IInv, Crash PROVE IInv'
<1> USE DEF IInv
<1>1. /\ cache' = [b \in Block |-> NoBuf] /\ lh' = <<>> /\ pinned' = {}
      /\ outstanding' = 0 /\ committing' = FALSE /\ pc' = [o \in Op |-> "idle"]
      /\ boot' = "read_head" /\ tail' = 1 /\ head' = head
  BY DEF Crash, disk
<1>2. home' \in [Block -> Value] /\ slot' \in [Slot -> Value]
  BY DEF Crash, disk, TypeOK
<1>3. TypeOK'
  <2>1. committing' \in BOOLEAN
    BY <1>1, Zenon
  <2> QED
    BY <1>1, <1>2, <2>1 DEF TypeOK
<1>4. Header(lh)' /\ Header(head)'
  BY <1>1, SizeAssumption DEF Header
<1>5. Active' = {} /\ Counted'
  <2>1. Active' = {}
    BY <1>1 DEF Active
  <2> QED
    BY <1>1, <2>1, FS_EmptySet DEF Counted
<1>6. \A l \in Committing : ~Writing(l)'
  BY <1>1 DEF Writing, Committing
<1>7. OneCommitter' /\ WaitersHeldBack'
  BY <1>1 DEF OneCommitter, WaitersHeldBack, Committing
<1>8. LoopAt' /\ HeadWritten' /\ Buffers' /\ Copied'
  BY <1>1, <1>6 DEF LoopAt, HeadWritten, Buffers, Copied, Committing
<1> QED
  BY <1>3, <1>4, <1>5, <1>7, <1>8

\* What the steps of recovery leave alone: no process does anything.
LEMMA RecoveryKeeps ==
  ASSUME IInv, boot # "up", UNCHANGED <<outstanding, committing, pc, pinned>>,
         boot' = "up" => lh' = <<>>
  PROVE  Counted' /\ OneCommitter' /\ WaitersHeldBack'
<1> USE DEF IInv
<1>1. ~committing /\ pinned = {} /\ \A o \in Op : pc[o] = "idle"
  BY Recovering
<1>2. Counted'
  BY StillCounted DEF Active
<1> QED
  BY <1>1, <1>2 DEF OneCommitter, WaitersHeldBack, Committing

\* recover_from_log() reads the header.
LEMMA ReadHeadKeeps == ASSUME IInv, ReadHead PROVE IInv'
<1> USE DEF IInv, ReadHead, disk
<1>1. Counted' /\ OneCommitter' /\ WaitersHeldBack'
  BY RecoveryKeeps
<1>2. TypeOK' /\ Header(lh)' /\ Header(head)'
  BY DEF TypeOK, Header
<1>3. /\ tail = 1 /\ pinned = {} /\ \A o \in Op : pc[o] = "idle"
  BY Recovering DEF LoopAt, Committing
<1>4. \A l \in Committing : Writing(l)' <=> l = boot'
  BY <1>3 DEF Writing, Committing
<1>5. LoopAt' /\ HeadWritten'
  BY <1>3, <1>4 DEF LoopAt, HeadWritten, Committing, TypeOK
<1>6. Buffers'
  BY <1>3 DEF Buffers
<1>7. Copied'
  <2>1. /\ ~Writing("write_log")' /\ ~Writing("write_head")' /\ boot' # "up"
        /\ (Writing("clear")' => Len(lh') = 0)
        /\ \A o \in Op : pc'[o] = "idle"
    BY <1>3, <1>4 DEF Committing
  <2>2. tail' = 1
    BY <1>3
  <2> QED
    BY ONLY <2>1, <2>2 DEF Copied
<1> QED
  BY <1>1, <1>2, <1>5, <1>6, <1>7

\* install_trans() of recovery.
LEMMA RecoverInstallKeeps == ASSUME IInv, RecoverInstall PROVE IInv'
<1>1. UNCHANGED <<outstanding, committing, pc, pinned>> /\ boot = "install"
      /\ boot' = Loop("install", "clear") /\ boot' # "up"
  BY DEF RecoverInstall, InstallBlock, Loop
<1>2. Counted' /\ OneCommitter' /\ WaitersHeldBack'
  BY <1>1, RecoveryKeeps
<1>3. InstallFacts
  BY <1>1, InstallBlockFacts DEF RecoverInstall, Writing
<1> USE DEF IInv
<1>4. TypeOK' /\ Header(lh)' /\ Header(head)'
  BY <1>1, <1>3 DEF TypeOK, Header, InstallFacts, Loop
<1>5. pinned = {} /\ \A o \in Op : pc[o] = "idle"
  BY <1>1, Recovering
<1>6. \A l \in Committing : (Writing(l) <=> l = "install") /\ (Writing(l)' <=> l = boot')
  BY <1>1, <1>5 DEF Writing, Committing
<1>7. LoopAt' /\ HeadWritten'
  BY <1>1, <1>3, <1>6 DEF LoopAt, HeadWritten, Committing, TypeOK, Loop, InstallFacts
<1>8. Buffers'
  BY <1>1, <1>3, <1>5 DEF Buffers, InstallFacts
<1>9. Copied'
  <2>1. \A i \in 1 .. tail : home'[lh[i]] = slot[i]
    BY <1>3, <1>6 DEF Copied, TypeOK, Committing, InstallFacts
  <2>2. IF tail < Len(lh) THEN boot' = "install" /\ tail' - 1 = tail
        ELSE boot' = "clear" /\ tail = Len(lh)
    <3>1. tail \in Nat /\ IF tail < Len(lh) THEN tail' = tail + 1 ELSE tail = Len(lh)
      BY <1>3 DEF TypeOK, InstallFacts
    <3> QED
      BY ONLY <1>1, <3>1 DEF Loop
  <2> QED
    BY <1>1, <1>3, <1>5, <1>6, <2>1, <2>2, Zenon DEF Copied, Committing, InstallFacts
<1> QED
  BY <1>2, <1>4, <1>7, <1>8, <1>9

\* Recovery empties the header, after which the system runs.
LEMMA RecoverClearKeeps == ASSUME IInv, RecoverClear PROVE IInv'
<1> USE DEF IInv, RecoverClear, Clear
<1>1. Counted' /\ OneCommitter' /\ WaitersHeldBack'
  BY RecoveryKeeps
<1>2. TypeOK' /\ Header(lh)' /\ Header(head)'
  BY SizeAssumption DEF TypeOK, Header
<1>3. /\ tail = 1 /\ pinned = {} /\ \A o \in Op : pc[o] = "idle"
  BY Recovering DEF LoopAt, Committing
<1>4. \A l \in Committing : ~Writing(l)'
  BY <1>3 DEF Writing, Committing
<1>5. Pending' = {}
  BY DEF Pending
<1>6. LoopAt' /\ HeadWritten' /\ Buffers' /\ Copied'
  BY <1>3, <1>4, <1>5 DEF LoopAt, HeadWritten, Buffers, Copied, Committing
<1> QED
  BY <1>1, <1>2, <1>6

\* A step that changes nothing of log.c's state keeps the invariant.
LEMMA StutterKeeps == ASSUME IInv, UNCHANGED vars PROVE IInv'
<1> USE DEF vars, disk, memory, IInv
<1>1. TypeOK' /\ Header(lh)' /\ Header(head)'
  BY DEF TypeOK, Header
<1>2. Counted' /\ WaitersHeldBack'
  BY DEF Counted, Active, WaitersHeldBack, Fits
<1>3. /\ UNCHANGED <<home, slot, head, cache, lh, pinned, committing, pc, boot, tail>>
      /\ \A l : Writing(l)' = Writing(l)
  BY DEF Writing
<1>4. OneCommitter'
  BY <1>3 DEF OneCommitter
<1>5. LoopAt' /\ HeadWritten'
  BY <1>3 DEF LoopAt, HeadWritten
<1>6. Buffers'
  <2>1. Pending' = Pending
    BY <1>3 DEF Pending
  <2> QED
    BY <1>3, <2>1 DEF Buffers
<1>7. Copied'
  BY <1>3 DEF Copied
<1> QED
  BY <1>1, <1>2, <1>4, <1>5, <1>6, <1>7

\* Every step of log.c keeps the invariant.
LEMMA NextKeeps == IInv /\ [Next]_vars => IInv'
<1> SUFFICES ASSUME IInv, [Next]_vars PROVE IInv'
  OBVIOUS
<1>1. CASE UNCHANGED vars
  BY <1>1, StutterKeeps
<1>2. CASE Next
  BY <1>2, BreadKeeps, CallKeeps, BeginOpKeeps, EndOpKeeps, LogWriteKeeps, CommitKeeps,
     WriteLogKeeps, WriteHeadKeeps, InstallTransKeeps, ClearLogKeeps, FinishCommitKeeps,
     CrashKeeps, ReadHeadKeeps, RecoverInstallKeeps, RecoverClearKeeps DEF Next, Proceed
<1> QED
  BY <1>1, <1>2

\* Every reachable state of log.c's log, buffers and disk satisfies the invariant.
THEOREM Invariance == Spec => []IInv
BY InitIInv, NextKeeps, PTL DEF Spec

\* Nobody is left asleep in begin_op() when end_op() has made room, for any number
\* of processes and any LOGSIZE and MAXOPBLOCKS.
THEOREM WaitersNotForgotten == Spec => []WaitersHeldBack
<1>1. IInv => WaitersHeldBack
  BY DEF IInv
<1> QED
  BY <1>1, Invariance, PTL

-----------------------------------------------------------------------------
(* The log implements AtomicDisk, and what has returned is durable.        *)

\* What recovery will find in a block: its slot if the header names it, its home
\* otherwise.
RecoveredIs ==
  /\ Recovered \in [Block -> Value]
  /\ \A i \in 1 .. Len(head) : head[i] \in Block /\ Recovered[head[i]] = slot[i]
  /\ \A b \in Block : (\A i \in 1 .. Len(head) : head[i] # b) => Recovered[b] = home[b]

\* The invariant determines what recovery would find.
LEMMA RecoveredFacts == IInv => RecoveredIs
<1> SUFFICES ASSUME IInv PROVE RecoveredIs
  OBVIOUS
<1>1. DOMAIN head = 1 .. Len(head) /\ \A i \in 1 .. Len(head) : head[i] \in Block /\ slot[i] \in Value
  BY SizeAssumption DEF IInv, TypeOK, Header, Slot
<1>2. ASSUME NEW i \in 1 .. Len(head) PROVE Recovered[head[i]] = slot[i]
  <2>1. (CHOOSE j \in DOMAIN head : head[j] = head[i]) = i
    BY <1>1 DEF IInv, Header
  <2> QED
    BY <1>1, <2>1, Zenon DEF Recovered
<1>3. ASSUME NEW b \in Block, \A i \in 1 .. Len(head) : head[i] # b PROVE Recovered[b] = home[b]
  BY <1>1, <1>3 DEF Recovered
<1>4. \A b \in Block : Recovered[b] \in Value
  BY <1>1, <1>2, <1>3 DEF IInv, TypeOK
<1>5. Recovered = [b \in Block |-> Recovered[b]]
  BY DEF Recovered
<1>6. Recovered \in [Block -> Value]
  BY <1>4, <1>5
<1> QED
  BY <1>1, <1>2, <1>3, <1>6, Zenon DEF RecoveredIs

\* Recovery does not depend on slots beyond the header, nor on the homes of blocks
\* that the header names.
LEMMA RecoveredStays ==
  ASSUME RecoveredIs, RecoveredIs', head' = head,
         \A i \in 1 .. Len(head) : slot'[i] = slot[i],
         \A b \in Block : (\A i \in 1 .. Len(head) : head[i] # b) => home'[b] = home[b]
  PROVE  Recovered' = Recovered
<1>1. \A b \in Block : Recovered'[b] = Recovered[b]
  <2> SUFFICES ASSUME NEW b \in Block PROVE Recovered'[b] = Recovered[b]
    OBVIOUS
  <2>1. CASE \E i \in 1 .. Len(head) : head[i] = b
    BY <2>1 DEF RecoveredIs
  <2>2. CASE \A i \in 1 .. Len(head) : head[i] # b
    BY <2>2 DEF RecoveredIs
  <2> QED
    BY <2>1, <2>2
<1>2. Recovered \in [Block -> Value] /\ Recovered' \in [Block -> Value]
  BY DEF RecoveredIs
<1> QED
  BY ONLY <1>1, <1>2

\* The blocks as system calls see them.
Visible == [b \in Block |-> Data(b)]

\* Outside a transaction in the log, a block is visible as it is at home.
LEMMA VisibleHome ==
  ASSUME IInv, NEW b \in Block \ pinned
  PROVE  Visible[b] = home[b]
BY DEF Visible, Data, IInv, Buffers

\* The log stutters: nothing that AtomicDisk sees has changed.
Stutter == Recovered' = Recovered /\ Seen' = Seen /\ Active' = Active

\* A step that changes neither the blocks nor the operations is a stutter.
LEMMA StutterRefines == ASSUME Stutter PROVE [A!Next]_(A!vars)
BY DEF Stutter, A!vars, Active

\* A step that leaves disk and buffers as they are.
LEMMA SameBlocks ==
  ASSUME UNCHANGED <<home, slot, head, cache, boot>>
  PROVE  Recovered' = Recovered /\ Seen' = Seen
BY DEF Recovered, Seen, Data

\* The initial states are those of an atomic disk.
LEMMA InitRefines == Init => A!Init
<1> SUFFICES ASSUME Init PROVE A!Init
  OBVIOUS
<1>1. Recovered = home
  <2>1. Recovered = [b \in Block |-> home[b]]
    BY DEF Init, Recovered
  <2> QED
    BY <2>1 DEF Init
<1>2. Seen = home
  BY <1>1 DEF Init, Seen
<1>3. Active = {}
  BY DEF Init, Active
<1> QED
  BY <1>1, <1>2, <1>3 DEF A!Init, Active, Init

\* Reading and recycling buffers is invisible.
LEMMA BufferRefines ==
  ASSUME IInv, NEW b \in Block, Bread(b) \/ Recycle(b)
  PROVE  Stutter
<1> USE DEF Bread, Recycle, disk
<1>1. b \notin pinned /\ cache[b] \in {NoBuf, home[b]} /\ cache'[b] \in {NoBuf, home[b]}
  BY DEF IInv, Buffers, TypeOK
<1>2. \A c \in Block : Data(c)' = Data(c)
  BY <1>1 DEF Data, IInv, TypeOK
<1>3. Recovered' = Recovered
  BY Zenon DEF Recovered
<1>4. Seen' = Seen
  BY <1>2, <1>3 DEF Seen
<1> QED
  BY <1>3, <1>4 DEF Stutter, Active

\* begin_op(), log_write() and end_op() are the steps of a system call.
LEMMA CallRefines ==
  ASSUME IInv, NEW o \in Op, Call(o) \/ BeginOp(o) \/ EndOp(o)
  PROVE  [A!Next]_(A!vars)
<1>1. Recovered' = Recovered /\ Seen' = Seen
  BY SameBlocks DEF Call, BeginOp, EndOp, disk
<1>2. \/ Active' = Active
      \/ o \notin Active /\ Active' = Active \cup {o}
      \/ o \in Active /\ Active' = Active \ {o}
  <2> USE DEF IInv, TypeOK, Active
  <2>1. CASE Call(o)
    BY <2>1 DEF Call
  <2>2. CASE BeginOp(o)
    BY <2>2 DEF BeginOp
  <2>3. CASE EndOp(o)
    <3>1. o \in Active /\ Active # {}
      BY <2>3 DEF EndOp
    <3>2. ~committing
      BY <3>1, FS_EmptySet, Zenon DEF Counted, OneCommitter
    <3> QED
      BY <2>3, <3>2, Zenon DEF EndOp, Wakeup, Committing
  <2> QED
    BY <2>1, <2>2, <2>3
<1> QED
  BY <1>1, <1>2 DEF A!Next, A!Begin, A!End, A!vars, Active

\* A store followed by log_write() is a write to the atomic disk.
LEMMA LogWriteRefines ==
  ASSUME IInv, NEW o \in Op, NEW b \in Block, NEW v \in Value, LogWrite(o, b, v)
  PROVE  [A!Next]_(A!vars)
<1> USE DEF IInv, disk
<1>1. pc[o] = "op" /\ boot = "up"
  BY DEF LogWrite, OneCommitter
<1>2. CASE Len(lh) >= LOGSIZE \/ Len(lh) >= SIZE - 1
  <2>1. Recovered' = Recovered /\ Seen' = Seen
    BY <1>2, SameBlocks DEF LogWrite
  <2>2. Active' = Active
    BY <1>1, <1>2 DEF LogWrite, Active, TypeOK
  <2> QED
    BY <2>1, <2>2, StutterRefines DEF Stutter
<1>3. CASE ~(Len(lh) >= LOGSIZE \/ Len(lh) >= SIZE - 1)
  <2>1. cache' = [cache EXCEPT ![b] = v] /\ UNCHANGED <<home, slot, head, pc, boot>>
    BY <1>3 DEF LogWrite
  <2>2. Recovered' = Recovered /\ Active' = Active
    BY <2>1 DEF Recovered, Active
  <2>3. \A c \in Block : Data(c)' = IF c = b THEN v ELSE Data(c)
    BY <2>1, NoBufAssumption DEF Data, TypeOK
  <2>4. Seen = [c \in Block |-> Data(c)] /\ Seen' = [c \in Block |-> Data(c)']
    BY <1>1, <2>1 DEF Seen
  <2>5. Seen' = [Seen EXCEPT ![b] = v]
    BY <2>3, <2>4
  <2> QED
    BY <1>1, <2>2, <2>5, Zenon DEF A!Next, A!Write, Active
<1> QED
  BY <1>2, <1>3

\* write_log() writes slots that the header does not name yet.
LEMMA WriteLogRefines ==
  ASSUME IInv, IInv', NEW o \in Op, Commit(o) \/ WriteLog(o) \/ FinishCommit(o)
  PROVE  Stutter
<1> USE DEF IInv, disk
<1>1. Active' = Active
  BY Zenon DEF Commit, WriteLog, FinishCommit, Step, Active, TypeOK, Wakeup, CommitFirst, Loop, Committing
<1>2. CASE Commit(o) \/ FinishCommit(o)
  BY <1>1, <1>2, SameBlocks DEF Stutter, Commit, FinishCommit
<1>3. CASE WriteLog(o)
  <2>1. boot = "up" /\ head = <<>>
    BY <1>3, OnlyHere DEF WriteLog, Step, HeadWritten, Committing
  <2>2. Recovered' = Recovered
    BY <1>3, <2>1 DEF WriteLog, Recovered
  <2>3. Seen' = Seen
    BY <1>3, <2>1 DEF WriteLog, Seen, Data
  <2> QED
    BY <1>1, <2>2, <2>3 DEF Stutter
<1> QED
  BY <1>2, <1>3

\* write_head() is the point at which everything written becomes durable.
LEMMA WriteHeadRefines ==
  ASSUME IInv, IInv', NEW o \in Op, WriteHead(o)
  PROVE  A!Commit
<1>0. RecoveredIs'
  BY RecoveredFacts, PTL
<1> USE DEF IInv
<1>1. /\ boot = "up" /\ outstanding = 0 /\ Writing("write_head")
      /\ ~Writing("install") /\ ~Writing("clear")
  BY OnlyHere DEF WriteHead, Step, Committing
<1>2. Active = {} /\ Active' = {}
  <2>1. Active = {}
    BY <1>1, FS_EmptySet, Zenon DEF Counted
  <2>2. Active' = Active
    BY DEF WriteHead, Step, Active, TypeOK
  <2> QED
    BY <2>1, <2>2
<1>3. head' = lh /\ UNCHANGED <<home, slot, cache, lh, boot>>
  BY DEF WriteHead
<1>4. Seen' = Seen /\ Seen = Visible
  BY <1>1, <1>3, Zenon DEF Seen, Data, Visible
<1>6. \A i \in 1 .. Len(lh) : Visible[lh[i]] = slot[i]
  <2>1. ASSUME NEW i \in 1 .. Len(lh) PROVE i \in Pending /\ slot[i] = cache[lh[i]]
    BY <1>1, PendingEntries, Zenon DEF Copied
  <2> QED
    BY <1>1, <2>1, PendingCached, NoBufAssumption, Zenon DEF Visible, Data
<1>7. \A b \in Block : (\A i \in 1 .. Len(lh) : lh[i] # b) => Visible[b] = home[b]
  <2>1. pinned = {lh[i] : i \in Pending} /\ Pending \subseteq 1 .. Len(lh)
    BY <1>1, Zenon DEF Buffers, Pending
  <2> HIDE DEF IInv
  <2> QED
    BY <2>1, VisibleHome
<1>8. Recovered' = Visible
  <2> HIDE DEF IInv
  <2>1. ASSUME NEW b \in Block PROVE Recovered'[b] = Visible[b]
    <3>1. ASSUME NEW i \in 1 .. Len(lh), lh[i] = b PROVE Recovered'[b] = Visible[b]
      <4>1. Recovered'[head'[i]] = slot'[i] /\ head'[i] = b
        BY <1>3, <1>0, <3>1 DEF RecoveredIs
      <4> QED
        BY <1>3, <1>6, <3>1, <4>1
    <3>2. CASE \A i \in 1 .. Len(lh) : lh[i] # b
      BY <1>3, <1>0, <1>7, <3>2, Zenon DEF RecoveredIs
    <3> QED
      BY <3>1, <3>2
  <2> QED
    BY <1>0, <2>1 DEF RecoveredIs, Visible
<1> QED
  BY <1>2, <1>4, <1>8, Zenon DEF A!Commit, Active

\* install_trans() changes the home of a block that the header names, to what its
\* buffer has.
LEMMA InstallRefines ==
  ASSUME IInv, IInv', (\E o \in Op : InstallTrans(o)) \/ RecoverInstall
  PROVE  Stutter
<1>1. RecoveredIs /\ RecoveredIs'
  BY RecoveredFacts, PTL
<1> USE DEF IInv
<1>2. InstallFacts
  BY InstallBlockFacts DEF InstallTrans, RecoverInstall, Step, Writing
<1>3. Recovered' = Recovered
  BY <1>1, <1>2, RecoveredStays DEF InstallFacts
<1>4. Active' = Active
  BY DEF InstallTrans, RecoverInstall, Step, Active, TypeOK, Loop
<1>5. CASE RecoverInstall
  <2>1. boot # "up" /\ boot' # "up"
    BY <1>5 DEF RecoverInstall, Loop
  <2> QED
    BY <1>3, <1>4, <2>1 DEF Stutter, Seen
<1>6. CASE \E o \in Op : InstallTrans(o)
  <2>1. PICK o \in Op : InstallTrans(o)
    BY <1>6
  <2>2. boot = "up" /\ boot' = "up" /\ Writing("install") /\ Len(lh) \in Nat
    <3>1. pc[o] = "install" /\ boot' = boot
      BY <2>1 DEF InstallTrans, Step
    <3>2. Len(lh) \in Nat
      BY DEF TypeOK
    <3> QED
      BY <3>1, <3>2, OnlyHere DEF Committing
  <2>3. cache[lh[tail]] = slot[tail]
    <3>1. \A i \in tail .. Len(lh) : cache[lh[i]] = slot[i]
      BY <2>2 DEF Copied
    <3>2. tail \in tail .. Len(lh)
      <4>1. tail \in 1 .. Len(lh)
        BY ONLY <1>2 DEF InstallFacts
      <4> QED
        BY ONLY <2>2, <4>1
    <3> QED
      BY ONLY <3>1, <3>2
  <2>4. \A b \in Block : Data(b)' = Data(b)
    <3>1. /\ slot[tail] \in Value /\ cache'[lh[tail]] = slot[tail]
          /\ \A b \in Block \ {lh[tail]} : home'[b] = home[b] /\ cache'[b] = cache[b]
      BY ONLY <1>2 DEF InstallFacts
    <3>2. slot[tail] # NoBuf
      BY ONLY <3>1, NoBufAssumption
    <3> QED
      BY ONLY <2>3, <3>1, <3>2 DEF Data
  <2> QED
    BY <1>3, <1>4, <2>2, <2>4 DEF Stutter, Seen
<1> QED
  BY <1>5, <1>6

\* Once everything is at home, the header may be cleared.
LEMMA ClearRefines ==
  ASSUME IInv, IInv', (\E o \in Op : ClearLog(o)) \/ RecoverClear
  PROVE  Stutter
<1>1. RecoveredIs /\ RecoveredIs'
  BY RecoveredFacts, PTL
<1> USE DEF IInv
<1>2. Writing("clear") /\ head' = <<>> /\ UNCHANGED <<home, slot, cache, pinned>>
  BY DEF ClearLog, RecoverClear, Clear, Step, Writing
<1>3. head = lh /\ \A i \in 1 .. Len(lh) : home[lh[i]] = slot[i]
  BY <1>2 DEF HeadWritten, Copied
<1>4. Recovered = home /\ Recovered' = home
  <2>1. \A b \in Block : Recovered[b] = home[b] /\ Recovered'[b] = home[b]
    <3>1. /\ \A i \in 1 .. Len(head) : Recovered[head[i]] = slot[i]
          /\ \A b \in Block : (\A i \in 1 .. Len(head) : head[i] # b) => Recovered[b] = home[b]
      BY ONLY <1>1 DEF RecoveredIs
    <3>2. \A b \in Block : (\A i \in 1 .. Len(head') : head'[i] # b) => Recovered'[b] = home'[b]
      BY ONLY <1>1 DEF RecoveredIs
    <3>3. ASSUME NEW b \in Block PROVE Recovered[b] = home[b]
      <4>1. CASE \A i \in 1 .. Len(head) : head[i] # b
        BY ONLY <3>1, <4>1, b \in Block
      <4>2. CASE \E i \in 1 .. Len(head) : head[i] = b
        <5>1. PICK i \in 1 .. Len(head) : head[i] = b
          BY ONLY <4>2
        <5>2. Recovered[head[i]] = slot[i] /\ home[head[i]] = slot[i]
          BY ONLY <1>3, <3>1, i \in 1 .. Len(head)
        <5> QED
          BY ONLY <5>1, <5>2
      <4> QED
        BY ONLY <4>1, <4>2
    <3>4. \A b \in Block : Recovered'[b] = home[b]
      BY ONLY <1>2, <3>2
    <3> QED
      BY ONLY <3>3, <3>4
  <2>2. home \in [Block -> Value] /\ Recovered \in [Block -> Value] /\ Recovered' \in [Block -> Value]
    BY <1>1 DEF RecoveredIs, TypeOK
  <2> QED
    BY ONLY <2>1, <2>2
<1>5. Active' = Active
  BY DEF ClearLog, RecoverClear, Step, Active, TypeOK
<1>6. CASE \E o \in Op : ClearLog(o)
  <2>1. boot = "up" /\ boot' = boot
    BY <1>6, OnlyHere DEF ClearLog, Step, Committing
  <2> QED
    BY <1>2, <1>4, <1>5, <2>1 DEF Stutter, Seen, Data
<1>7. CASE RecoverClear
  <2>1. boot # "up" /\ boot' = "up" /\ pinned = {}
    BY <1>7, Recovering DEF RecoverClear
  <2>2. Visible = home
    BY <2>1, VisibleHome DEF Visible, TypeOK
  <2>3. Seen' = Visible
    BY <1>2, <2>1, Zenon DEF Seen, Visible, Data
  <2> QED
    BY <1>4, <1>5, <2>1, <2>2, <2>3 DEF Stutter, Seen
<1> QED
  BY <1>6, <1>7

\* A crash may tear a slot that no header names, or the home of a block that has a
\* slot; memory goes back to what is durable.
LEMMA CrashRefines ==
  ASSUME IInv, IInv', Crash
  PROVE  A!Crash
<1>1. RecoveredIs /\ RecoveredIs'
  BY RecoveredFacts, PTL
<1> USE DEF IInv
<1>2. boot' = "read_head" /\ pc' = [o \in Op |-> "idle"] /\ head' = head
  BY DEF Crash, disk
<1>3. Recovered' = Recovered
  <2>1. CASE UNCHANGED disk
    BY <2>1, Zenon DEF Recovered, disk
  <2>2. CASE Writing("write_log") /\ UNCHANGED <<home, head>>
    <3>1. head = <<>>
      BY <2>2, OnlyHere DEF Writing, Committing, HeadWritten, TypeOK
    <3>2. 1 .. Len(head) = {}
      BY <3>1
    <3> HIDE DEF IInv
    <3> QED
      BY <1>1, <2>2, <3>2, RecoveredStays
  <2>3. CASE Writing("install") /\ UNCHANGED <<slot, head>> /\ \E v \in Value : home' = [home EXCEPT ![lh[tail]] = v]
    <3>1. head = lh /\ tail \in 1 .. Len(lh)
      BY <2>3 DEF HeadWritten, LoopAt
    <3>2. \A b \in Block : b # head[tail] => home'[b] = home[b]
      BY <2>3, <3>1 DEF TypeOK
    <3> QED
      BY <1>1, <2>3, <3>1, <3>2, RecoveredStays
  <2> QED
    BY <2>1, <2>2, <2>3 DEF Crash
<1>4. Seen' = Recovered /\ Active' = {}
  BY <1>2, <1>3 DEF Seen, Active
<1> QED
  BY <1>3, <1>4 DEF A!Crash, Active

\* Reading the header changes nothing that a caller sees.
LEMMA ReadHeadRefines == ASSUME ReadHead PROVE Stutter
BY Zenon DEF ReadHead, Stutter, Recovered, Seen, Active, disk

\* Every step of log.c is a step of the atomic disk or a stutter.
LEMMA NextRefines == IInv /\ IInv' /\ [Next]_vars => [A!Next]_(A!vars)
<1> SUFFICES ASSUME IInv, IInv', [Next]_vars PROVE [A!Next]_(A!vars)
  OBVIOUS
<1>1. CASE UNCHANGED vars
  BY <1>1, StutterRefines, SameBlocks DEF vars, disk, memory, Stutter, Active
<1>2. CASE Next
  <2>1. ASSUME NEW b \in Block, Bread(b) \/ Recycle(b) PROVE [A!Next]_(A!vars)
    BY <2>1, BufferRefines, StutterRefines
  <2>2. ASSUME NEW o \in Op, Call(o) \/ Proceed(o) PROVE [A!Next]_(A!vars)
    <3>1. CASE Call(o) \/ BeginOp(o) \/ EndOp(o)
      BY <3>1, CallRefines
    <3>2. CASE Commit(o) \/ WriteLog(o) \/ FinishCommit(o)
      BY <3>2, WriteLogRefines, StutterRefines
    <3>3. CASE WriteHead(o)
      BY <3>3, WriteHeadRefines DEF A!Next
    <3>4. CASE InstallTrans(o)
      BY <3>4, InstallRefines, StutterRefines
    <3>5. CASE ClearLog(o)
      BY <3>5, ClearRefines, StutterRefines
    <3> QED
      BY <2>2, <3>1, <3>2, <3>3, <3>4, <3>5 DEF Proceed
  <2>3. ASSUME NEW o \in Op, NEW b \in Block, NEW v \in Value, LogWrite(o, b, v)
        PROVE  [A!Next]_(A!vars)
    BY <2>3, LogWriteRefines
  <2>4. CASE Crash
    BY <2>4, CrashRefines DEF A!Next
  <2>5. CASE ReadHead
    BY <2>5, ReadHeadRefines, StutterRefines
  <2>6. CASE RecoverInstall
    BY <2>6, InstallRefines, StutterRefines
  <2>7. CASE RecoverClear
    BY <2>7, ClearRefines, StutterRefines
  <2> QED
    BY <1>2, <2>1, <2>2, <2>3, <2>4, <2>5, <2>6, <2>7 DEF Next
<1> QED
  BY <1>1, <1>2

\* log.c makes system calls atomic across crashes, for any number of processes,
\* blocks and log slots: wherever the machine stops, in commit() and in recovery
\* too, the disk recovers to a state between system calls.
THEOREM LogIsAtomic == Spec => ImplementsAtomicDisk
BY InitRefines, NextRefines, Invariance, PTL DEF Spec, ImplementsAtomicDisk, A!Spec

\* When end_op() has committed and no call is under way, what calls have written
\* survives a crash.
THEOREM DurableWhenReturned == Spec => []ReturnedIsDurable
<1>1. IInv => ReturnedIsDurable
  <2> SUFFICES ASSUME IInv, boot = "up", outstanding = 0, ~committing PROVE Seen = Recovered
    BY DEF ReturnedIsDurable
  <2> USE DEF IInv
  <2>1. lh = <<>> /\ \A o \in Op : pc[o] \notin Committing
    BY DEF OneCommitter
  <2>2. head = <<>> /\ pinned = {}
    BY <2>1 DEF Buffers, Pending, HeadWritten, Writing, Committing
  <2>3. \A b \in Block : Recovered[b] = home[b] /\ Visible[b] = home[b]
    BY <2>2, RecoveredFacts, VisibleHome DEF RecoveredIs
  <2>4. Visible = [b \in Block |-> Visible[b]] /\ Recovered = [b \in Block |-> Recovered[b]]
    BY ONLY DEF Visible, Recovered
  <2>5. Visible = Recovered
    BY ONLY <2>3, <2>4
  <2> QED
    BY <2>5 DEF Seen, Visible
<1> QED
  BY <1>1, Invariance, PTL
=============================================================================
