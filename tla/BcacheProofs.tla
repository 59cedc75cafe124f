---------------------------- MODULE BcacheProofs -----------------------------
(***************************************************************************)
(* The buffer cache keeps one copy of every block, which one process at a  *)
(* time uses, for any number of processes, blocks and buffers.             *)
(*                                                                         *)
(* The invariant says who holds a sleep-lock, what a reference count       *)
(* counts, and which buffers may differ from the disk: those that the log  *)
(* has pinned, and the one that a process is changing.                     *)
(***************************************************************************)
EXTENDS Bcache, FiniteSetTheorems, TLAPS

Labels == {"idle", "panic", "lock", "sleep", "read", "valid", "hold", "dirty", "written", "unref"}
Locked == {"read", "valid", "hold", "dirty", "written"}

TypeOK ==
  /\ blockno \in [Buf -> Block \cup {None}] /\ valid \in [Buf -> BOOLEAN]
  /\ refcnt \in [Buf -> Nat] /\ data \in [Buf -> Value] /\ disk \in [Block -> Value]
  /\ lock \in [Buf -> Proc \cup {None}] /\ lru \in [Buf -> Buf] /\ logged \subseteq Buf
  /\ pc \in [Proc -> Labels] /\ buf \in [Proc -> Buf \cup {None}]

\* A process has a buffer from bget() to the end of brelse().
HasBuffer ==
  \A p \in Proc : IF pc[p] \in {"idle", "panic"} THEN buf[p] = None
                  ELSE buf[p] \in Buf /\ blockno[buf[p]] \in Block

Users(b) == {p \in Proc : buf[p] = b}

UsersFinite == \A b \in Buf : IsFiniteSet(Users(b))

\* Every buffer is somewhere in the list.
Listed == \A b \in Buf : \E i \in Buf : lru[i] = b

\* A block has one buffer at most.
OneBuffer == \A a, b \in Buf : blockno[a] = blockno[b] /\ blockno[a] # None => a = b

\* A sleep-lock is held by the process that is between its acquire and its release.
LockHeld == \A b \in Buf, p \in Proc : lock[b] = p <=> buf[p] = b /\ pc[p] \in Locked

\* The holder reads a buffer that is not valid, and uses one that is.
Validity ==
  /\ \A p \in Proc : /\ Holds(p) => valid[buf[p]]
                     /\ pc[p] \in {"read", "valid"} => ~valid[buf[p]]
  /\ \A b \in Buf : valid[b] \/ b \in logged => blockno[b] \in Block
  /\ \A b \in logged : valid[b]

\* A buffer that is not pinned and not being changed is as the disk has it.
Clean ==
  /\ \A b \in Buf : valid[b] /\ b \notin logged /\ data[b] # disk[blockno[b]]
                     => \E p \in Proc : buf[p] = b /\ pc[p] = "dirty"
  /\ \A p \in Proc : pc[p] \in {"valid", "written"} => data[buf[p]] = disk[blockno[buf[p]]]

IInv ==
  /\ TypeOK /\ HasBuffer /\ UsersFinite /\ Listed /\ OneBuffer /\ LockHeld /\ Validity /\ Clean
  /\ RefcntCounts /\ SleepersWaitForHolder

-----------------------------------------------------------------------------
(* Every step keeps the invariant.                                         *)

\* binit() establishes the invariant.
LEMMA InitIInv == Init => IInv
<1> SUFFICES ASSUME Init PROVE IInv
  OBVIOUS
<1> USE BcacheAssumption, NoneAssumption DEF Init
<1>1. TypeOK
  <2>1. lru \in [Buf -> Buf] /\ refcnt \in [Buf -> Nat]
    BY DEF Buf
  <2>2. data \in [Buf -> Value]
    OBVIOUS
  <2>3. valid \in [Buf -> BOOLEAN]
    OBVIOUS
  <2> QED
    BY <2>1, <2>2, <2>3 DEF TypeOK, Labels
<1>2. \A b \in Buf : Users(b) = {}
  BY DEF Users
<1>3. UsersFinite /\ RefcntCounts
  <2>1. UsersFinite /\ \A b \in Buf : Cardinality(Users(b)) = 0
    BY <1>2, FS_EmptySet, Zenon DEF UsersFinite
  <2> QED
    BY <2>1 DEF RefcntCounts, Users
<1>4. Listed
  <2> SUFFICES ASSUME NEW b \in Buf PROVE lru[NBUF + 1 - b] = b /\ NBUF + 1 - b \in Buf
    BY Zenon DEF Listed
  <2> QED
    BY DEF Buf
<1>5. HasBuffer /\ OneBuffer /\ LockHeld /\ Validity /\ Clean /\ SleepersWaitForHolder
  BY DEF HasBuffer, OneBuffer, LockHeld, Locked, Validity, Holds, Clean, SleepersWaitForHolder
<1> QED
  BY <1>1, <1>3, <1>4, <1>5 DEF IInv

\* A buffer without references is nobody's and is not pinned.
LEMMA UnusedIsFree ==
  ASSUME IInv, NEW b \in Buf, refcnt[b] = 0
  PROVE  Users(b) = {} /\ b \notin logged
<1>1. Cardinality(Users(b)) \in Nat /\ IsFiniteSet(Users(b))
  BY FS_CardinalityType DEF IInv, UsersFinite
<1>2. refcnt[b] = Cardinality(Users(b)) + (IF b \in logged THEN 1 ELSE 0)
  BY DEF IInv, RefcntCounts, Users
<1>3. Cardinality(Users(b)) = 0 /\ b \notin logged
  BY <1>1, <1>2
<1> QED
  BY <1>1, <1>3, FS_EmptySet

\* Steps that give no buffer to a process and take none away.
LEMMA SameUsers ==
  ASSUME IInv, UNCHANGED <<buf, refcnt, logged>>
  PROVE  UsersFinite' /\ RefcntCounts'
BY DEF IInv, UsersFinite, RefcntCounts, Users

\* bget() gives a buffer to a process that had none.
LEMMA NewUser ==
  ASSUME IInv, NEW p \in Proc, NEW b \in Buf, buf[p] = None,
         buf' = [buf EXCEPT ![p] = b],
         refcnt' = [refcnt EXCEPT ![b] = refcnt[b] + 1],
         logged' = logged
  PROVE  UsersFinite' /\ RefcntCounts'
<1> USE NoneAssumption DEF IInv
<1>1. /\ Users(b)' = Users(b) \cup {p} /\ p \notin Users(b)
      /\ \A c \in Buf \ {b} : Users(c)' = Users(c)
  BY DEF Users, TypeOK
<1>2. IsFiniteSet(Users(b)') /\ Cardinality(Users(b)') = Cardinality(Users(b)) + 1
  BY <1>1, FS_AddElement DEF UsersFinite
<1>3. UsersFinite'
  BY <1>1, <1>2 DEF UsersFinite
<1>4. Cardinality(Users(b)) \in Nat
  BY FS_CardinalityType DEF UsersFinite
<1>5. \A c \in Buf : refcnt'[c] = Cardinality(Users(c)') + (IF c \in logged' THEN 1 ELSE 0)
  <2>1. \A c \in Buf : refcnt[c] = Cardinality(Users(c)) + (IF c \in logged THEN 1 ELSE 0)
    BY DEF RefcntCounts, Users
  <2>2. refcnt' = [refcnt EXCEPT ![b] = refcnt[b] + 1] /\ refcnt \in [Buf -> Nat]
    BY DEF TypeOK
  <2> HIDE DEF IInv
  <2>3. ASSUME NEW c \in Buf \ {b}
        PROVE  refcnt'[c] = Cardinality(Users(c)') + (IF c \in logged' THEN 1 ELSE 0)
    BY <1>1, <2>1, <2>2
  <2>4. refcnt'[b] = Cardinality(Users(b)') + (IF b \in logged' THEN 1 ELSE 0)
    BY <1>2, <1>4, <2>1, <2>2
  <2> QED
    BY <2>3, <2>4
<1> QED
  BY <1>3, <1>5 DEF RefcntCounts, Users

\* bget() of a block that is cached.
LEMMA HitKeeps == ASSUME IInv, NEW p \in Proc, NEW n \in Block, Hit(p, n) PROVE IInv'
<1>1. PICK b \in Cached(n) : refcnt' = [refcnt EXCEPT ![b] = @ + 1] /\ buf' = [buf EXCEPT ![p] = b]
  BY Zenon DEF Hit
<1>2. /\ b \in Buf /\ blockno[b] = n /\ pc[p] = "idle" /\ buf[p] = None
      /\ pc' = [pc EXCEPT ![p] = "lock"]
      /\ UNCHANGED <<blockno, valid, lru, data, lock, disk, logged>>
  BY DEF Hit, Cached, IInv, HasBuffer
<1> USE <1>1, <1>2 DEF IInv
<1>3. TypeOK'
  BY DEF TypeOK, Labels
<1>4. UsersFinite' /\ RefcntCounts'
  BY NewUser, Zenon
<1>5. HasBuffer' /\ Listed' /\ OneBuffer'
  BY DEF HasBuffer, Listed, OneBuffer, TypeOK
<1>6. LockHeld'
  BY NoneAssumption DEF LockHeld, Locked, TypeOK
<1>7. Validity' /\ SleepersWaitForHolder'
  BY DEF Validity, Holds, SleepersWaitForHolder, TypeOK
<1>8. Clean'
  BY DEF Clean, TypeOK
<1> QED
  BY <1>3, <1>4, <1>5, <1>6, <1>7, <1>8

\* bget() of a block that is not: the recycled buffer is nobody's.
LEMMA RecycleKeeps == ASSUME IInv, NEW p \in Proc, NEW n \in Block, Recycle(p, n) PROVE IInv'
<1>1. PICK i \in Unused : /\ blockno' = [blockno EXCEPT ![lru[i]] = n]
                          /\ valid' = Invalid(lru[i])
                          /\ refcnt' = [refcnt EXCEPT ![lru[i]] = 1]
                          /\ buf' = [buf EXCEPT ![p] = lru[i]]
  BY Zenon DEF Recycle
<1> DEFINE b == lru[i]
<1>2. /\ b \in Buf /\ refcnt[b] = 0 /\ pc[p] = "idle" /\ buf[p] = None
      /\ \A c \in Buf : blockno[c] # n
      /\ pc' = [pc EXCEPT ![p] = "lock"]
      /\ UNCHANGED <<lru, data, lock, disk, logged>>
  BY DEF Recycle, Unused, Cached, IInv, HasBuffer, TypeOK
<1>3. Users(b) = {} /\ b \notin logged
  BY <1>2, UnusedIsFree
<1>4. /\ blockno' = [blockno EXCEPT ![b] = n] /\ valid' = [valid EXCEPT ![b] = FALSE]
      /\ buf' = [buf EXCEPT ![p] = b] /\ refcnt' = [refcnt EXCEPT ![b] = refcnt[b] + 1]
  BY <1>1, <1>2 DEF Invalid
<1>5. \A q \in Proc : buf[q] # b
  BY <1>3 DEF Users
<1> HIDE DEF b
<1> USE <1>2, <1>3, <1>4, <1>5 DEF IInv
<1>6. TypeOK'
  BY DEF TypeOK, Labels
<1>7. UsersFinite' /\ RefcntCounts'
  BY NewUser, Zenon
<1>8. HasBuffer' /\ Listed' /\ OneBuffer'
  BY NoneAssumption DEF HasBuffer, Listed, OneBuffer, TypeOK
<1>9. LockHeld'
  BY NoneAssumption DEF LockHeld, Locked, TypeOK
<1>10. Validity' /\ SleepersWaitForHolder'
  BY DEF Validity, Holds, SleepersWaitForHolder, TypeOK, HasBuffer
<1>11. Clean'
  BY DEF Clean, TypeOK, HasBuffer
<1> QED
  BY <1>6, <1>7, <1>8, <1>9, <1>10, <1>11

\* bget() without a buffer to recycle panics.
LEMMA NoBuffersKeeps == ASSUME IInv, NEW p \in Proc, NEW n \in Block, NoBuffers(p, n) PROVE IInv'
<1> USE DEF IInv, NoBuffers, cache
<1>1. TypeOK'
  BY DEF TypeOK, Labels
<1>2. UsersFinite' /\ RefcntCounts'
  BY SameUsers
<1>3. HasBuffer' /\ Listed' /\ OneBuffer'
  BY DEF HasBuffer, Listed, OneBuffer, TypeOK
<1>4. LockHeld' /\ Validity' /\ SleepersWaitForHolder'
  BY DEF LockHeld, Locked, Validity, Holds, SleepersWaitForHolder, TypeOK
<1>5. Clean'
  BY DEF Clean, TypeOK
<1> QED
  BY <1>1, <1>2, <1>3, <1>4, <1>5

-----------------------------------------------------------------------------
(* The sleep-lock of a buffer and what its holder does.                    *)

\* A process that has locked its buffer is the only one.
LEMMA OneHolder ==
  ASSUME IInv, NEW p \in Proc, pc[p] \in Locked
  PROVE  /\ buf[p] \in Buf /\ blockno[buf[p]] \in Block /\ lock[buf[p]] = p
         /\ \A q \in Proc : pc[q] \in Locked /\ buf[q] = buf[p] => q = p
<1>1. buf[p] \in Buf /\ blockno[buf[p]] \in Block
  BY DEF IInv, HasBuffer, Locked
<1>2. lock[buf[p]] = p
  BY <1>1 DEF IInv, LockHeld
<1>3. ASSUME NEW q \in Proc, pc[q] \in Locked, buf[q] = buf[p] PROVE q = p
  BY <1>1, <1>2, <1>3 DEF IInv, LockHeld
<1> QED
  BY <1>1, <1>2, <1>3

\* acquiresleep() takes the lock or goes to sleep.
LEMMA AcquireSleepKeeps == ASSUME IInv, NEW p \in Proc, AcquireSleep(p) PROVE IInv'
<1> USE DEF IInv, AcquireSleep, cache
<1>1. pc[p] = "lock" /\ buf[p] \in Buf /\ blockno[buf[p]] \in Block
  BY DEF HasBuffer
<1>2. TypeOK'
  BY <1>1 DEF TypeOK, Labels
<1>3. UsersFinite' /\ RefcntCounts'
  BY SameUsers
<1>4. HasBuffer' /\ Listed' /\ OneBuffer'
  BY DEF HasBuffer, Listed, OneBuffer, TypeOK
<1>5. LockHeld'
  BY <1>1, NoneAssumption DEF LockHeld, Locked, TypeOK
<1>6. Validity'
  BY <1>1 DEF Validity, Holds, TypeOK
<1>7. Clean'
  BY <1>1 DEF Clean, TypeOK
<1>8. SleepersWaitForHolder'
  <2>1. CASE lock[buf[p]] # None
    BY <1>1, <2>1 DEF SleepersWaitForHolder, TypeOK
  <2>2. CASE lock[buf[p]] = None
    <3>1. p # None /\ lock' = [lock EXCEPT ![buf[p]] = p] /\ buf' = buf
      BY <2>2, NoneAssumption
    <3>2. \A q \in Proc : pc'[q] = "sleep" => pc[q] = "sleep" /\ buf[q] \in Buf
      BY <1>1, <2>2 DEF TypeOK, HasBuffer
    <3> QED
      BY <3>1, <3>2 DEF SleepersWaitForHolder, TypeOK
  <2> QED
    BY <2>1, <2>2
<1> QED
  BY <1>2, <1>3, <1>4, <1>5, <1>6, <1>7, <1>8

\* A sleeper that kill() wakes tries again.
LEMMA InterruptedKeeps == ASSUME IInv, NEW p \in Proc, Interrupted(p) PROVE IInv'
<1> USE DEF IInv, Interrupted, cache
<1>1. TypeOK'
  BY DEF TypeOK, Labels
<1>2. UsersFinite' /\ RefcntCounts'
  BY SameUsers
<1>3. HasBuffer' /\ Listed' /\ OneBuffer'
  BY DEF HasBuffer, Listed, OneBuffer, TypeOK
<1>4. LockHeld' /\ Validity' /\ SleepersWaitForHolder'
  BY DEF LockHeld, Locked, Validity, Holds, SleepersWaitForHolder, TypeOK
<1>5. Clean'
  BY DEF Clean, TypeOK
<1> QED
  BY <1>1, <1>2, <1>3, <1>4, <1>5

\* What the holder's steps have in common: they change nothing but the contents of
\* the buffer and of its block, its pin, and whether it is valid.
HolderStep(p, to) ==
  /\ pc[p] \in Locked /\ to \in Locked /\ pc' = [pc EXCEPT ![p] = to]
  /\ UNCHANGED <<blockno, lru, lock, buf>>

\* What no step of the holder of a buffer disturbs.
LEMMA HolderKeeps ==
  ASSUME IInv, NEW p \in Proc, NEW to, HolderStep(p, to)
  PROVE  /\ pc' \in [Proc -> Labels]
         /\ HasBuffer' /\ UsersFinite' /\ Listed' /\ OneBuffer' /\ LockHeld' /\ SleepersWaitForHolder'
<1> USE DEF IInv, HolderStep, Locked
<1>1. pc' \in [Proc -> Labels]
  BY DEF TypeOK, Labels
<1>2. UsersFinite'
  BY DEF UsersFinite, Users
<1>3. HasBuffer' /\ Listed' /\ OneBuffer'
  BY DEF HasBuffer, Listed, OneBuffer, TypeOK
<1>4. LockHeld' /\ SleepersWaitForHolder'
  BY DEF LockHeld, SleepersWaitForHolder, TypeOK
<1> QED
  BY <1>1, <1>2, <1>3, <1>4

\* bread() fills a buffer that is not valid, and then makes it valid.
LEMMA ReadKeeps ==
  ASSUME IInv, NEW p \in Proc, ReadTransfer(p) \/ SetValid(p)
  PROVE  IInv'
<1> DEFINE b == buf[p]
           to == IF ReadTransfer(p) THEN "valid" ELSE "hold"
<1>1. pc[p] \in {"read", "valid"} /\ HolderStep(p, to) /\ UNCHANGED <<refcnt, logged, disk>>
  BY DEF ReadTransfer, SetValid, HolderStep, Locked, cache
<1>2. /\ b \in Buf /\ blockno[b] \in Block /\ ~valid[b]
      /\ \A q \in Proc : pc[q] \in Locked /\ buf[q] = b => q = p
  BY <1>1, OneHolder DEF Locked, IInv, Validity
<1>3. /\ pc' \in [Proc -> Labels]
      /\ HasBuffer' /\ UsersFinite' /\ Listed' /\ OneBuffer' /\ LockHeld' /\ SleepersWaitForHolder'
  BY <1>1, HolderKeeps
<1>4. RefcntCounts'
  BY <1>1, SameUsers DEF HolderStep
<1> USE DEF IInv
<1>5. CASE ReadTransfer(p)
  <2>1. /\ data' = [data EXCEPT ![b] = disk[blockno[b]]] /\ UNCHANGED <<valid, blockno, buf, lru, lock>>
        /\ pc' = [pc EXCEPT ![p] = "valid"] /\ pc[p] = "read"
    BY <1>5 DEF ReadTransfer, cache
  <2> HIDE DEF b
  <2> USE <1>1, <1>2, <2>1
  <2>2. TypeOK'
    BY <1>3 DEF TypeOK
  <2>3. Validity'
    BY DEF Validity, Holds, TypeOK, b
  <2>4. Clean'
    BY DEF Clean, TypeOK, b, Locked
  <2> QED
    BY <1>3, <1>4, <2>2, <2>3, <2>4
<1>6. CASE SetValid(p)
  <2>1. /\ valid' = [valid EXCEPT ![b] = TRUE] /\ UNCHANGED <<data, blockno, buf, lru, lock>>
        /\ pc' = [pc EXCEPT ![p] = "hold"] /\ pc[p] = "valid"
    BY <1>6 DEF SetValid
  <2> HIDE DEF b
  <2> USE <1>1, <1>2, <2>1
  <2>2. TypeOK'
    BY <1>3 DEF TypeOK
  <2>3. Validity'
    BY DEF Validity, Holds, TypeOK, b, Locked
  <2>4. Clean'
    BY DEF Clean, TypeOK, b, Locked
  <2> QED
    BY <1>3, <1>4, <2>2, <2>3, <2>4
<1> QED
  BY <1>5, <1>6

\* The holder changes the data of its buffer.
LEMMA StoreKeeps == ASSUME IInv, NEW p \in Proc, NEW v \in Value, Store(p, v) PROVE IInv'
<1> DEFINE b == buf[p]
<1>1. /\ pc[p] \in {"hold", "dirty"} /\ HolderStep(p, "dirty") /\ UNCHANGED <<refcnt, valid, logged, disk>>
      /\ data' = [data EXCEPT ![b] = v] /\ pc' = [pc EXCEPT ![p] = "dirty"]
  BY DEF Store, HolderStep, Locked, cache
<1>2. b \in Buf /\ \A q \in Proc : pc[q] \in Locked /\ buf[q] = b => q = p
  BY <1>1, OneHolder DEF Locked
<1>3. /\ pc' \in [Proc -> Labels]
      /\ HasBuffer' /\ UsersFinite' /\ Listed' /\ OneBuffer' /\ LockHeld' /\ SleepersWaitForHolder'
  BY <1>1, HolderKeeps
<1>4. RefcntCounts'
  BY <1>1, SameUsers DEF HolderStep
<1> USE <1>1, <1>2 DEF IInv, HolderStep
<1>5. TypeOK'
  BY <1>3 DEF TypeOK
<1>6. Validity'
  BY DEF Validity, Holds, TypeOK
<1>7. Clean'
  BY DEF Clean, TypeOK, Locked
<1> QED
  BY <1>3, <1>4, <1>5, <1>6, <1>7

\* log_write() pins a buffer that the log does not have yet.
LEMMA LogWriteKeeps == ASSUME IInv, NEW p \in Proc, LogWrite(p) PROVE IInv'
<1> DEFINE b == buf[p]
<1>1. /\ pc[p] = "dirty" /\ HolderStep(p, "hold") /\ UNCHANGED <<valid, data, disk>>
      /\ pc' = [pc EXCEPT ![p] = "hold"] /\ logged' = logged \cup {b}
      /\ refcnt' = IF b \notin logged THEN [refcnt EXCEPT ![b] = refcnt[b] + 1] ELSE refcnt
  BY DEF LogWrite, NewInLog, HolderStep, Locked
<1>2. /\ b \in Buf /\ blockno[b] \in Block /\ valid[b]
      /\ \A q \in Proc : pc[q] \in Locked /\ buf[q] = b => q = p
  BY <1>1, OneHolder DEF Locked, IInv, Validity, Holds
<1>3. /\ pc' \in [Proc -> Labels]
      /\ HasBuffer' /\ UsersFinite' /\ Listed' /\ OneBuffer' /\ LockHeld' /\ SleepersWaitForHolder'
  BY <1>1, HolderKeeps
<1> USE <1>1, <1>2 DEF IInv, HolderStep
<1>4. RefcntCounts'
  <2>1. \A c \in Buf : Users(c)' = Users(c) /\ Cardinality(Users(c)) \in Nat
    BY FS_CardinalityType DEF Users, UsersFinite
  <2>2. \A c \in Buf : refcnt[c] = Cardinality(Users(c)) + (IF c \in logged THEN 1 ELSE 0)
    BY DEF RefcntCounts, Users
  <2>3. \A c \in Buf : refcnt'[c] = Cardinality(Users(c)') + (IF c \in logged' THEN 1 ELSE 0)
    BY <2>1, <2>2 DEF TypeOK
  <2> QED
    BY <2>3 DEF RefcntCounts, Users
<1>5. TypeOK'
  BY <1>3 DEF TypeOK
<1>6. Validity'
  BY DEF Validity, Holds, TypeOK
<1>7. Clean'
  BY DEF Clean, TypeOK, Locked
<1> QED
  BY <1>3, <1>4, <1>5, <1>6, <1>7

\* bwrite() makes the disk's copy of one block equal to the buffer's.
LEMMA WriteTransferKeeps == ASSUME IInv, NEW p \in Proc, WriteTransfer(p) PROVE IInv'
<1> DEFINE b == buf[p]
<1>1. /\ pc[p] \in {"hold", "dirty"} /\ HolderStep(p, "written") /\ UNCHANGED <<refcnt, valid, data, logged>>
      /\ pc' = [pc EXCEPT ![p] = "written"] /\ disk' = [disk EXCEPT ![blockno[b]] = data[b]]
  BY DEF WriteTransfer, HolderStep, Locked, cache
<1>2. /\ b \in Buf /\ blockno[b] \in Block /\ valid[b]
      /\ \A q \in Proc : pc[q] \in Locked /\ buf[q] = b => q = p
  BY <1>1, OneHolder DEF Locked, IInv, Validity, Holds
<1>3. /\ pc' \in [Proc -> Labels]
      /\ HasBuffer' /\ UsersFinite' /\ Listed' /\ OneBuffer' /\ LockHeld' /\ SleepersWaitForHolder'
  BY <1>1, HolderKeeps
<1>4. RefcntCounts'
  BY <1>1, SameUsers DEF HolderStep
<1> USE <1>1, <1>2 DEF IInv, HolderStep
<1>5. TypeOK'
  BY <1>3 DEF TypeOK
<1>6. Validity'
  BY DEF Validity, Holds, TypeOK
<1>7. Clean'
  <2>1. \A c \in Buf : c # b => blockno[c] # blockno[b]
    BY NoneAssumption DEF OneBuffer
  <2>2. disk'[blockno[b]] = data[b] /\ \A c \in Buf \ {b} : blockno[c] \in Block => disk'[blockno[c]] = disk[blockno[c]]
    BY <2>1 DEF TypeOK
  <2> QED
    BY <2>2 DEF Clean, TypeOK, Locked, Validity, HasBuffer
<1> QED
  BY <1>3, <1>4, <1>5, <1>6, <1>7

\* bunpin() of a buffer that has been written home.
LEMMA WrittenKeeps == ASSUME IInv, NEW p \in Proc, Written(p) PROVE IInv'
<1> DEFINE b == buf[p]
<1>1. /\ pc[p] = "written" /\ HolderStep(p, "hold") /\ UNCHANGED <<valid, data, disk>>
      /\ pc' = [pc EXCEPT ![p] = "hold"] /\ logged' = logged \ {b}
      /\ refcnt' = IF b \in logged THEN [refcnt EXCEPT ![b] = refcnt[b] - 1] ELSE refcnt
  BY DEF Written, HolderStep, Locked
<1>2. /\ b \in Buf /\ blockno[b] \in Block /\ valid[b] /\ data[b] = disk[blockno[b]]
      /\ \A q \in Proc : pc[q] \in Locked /\ buf[q] = b => q = p
  BY <1>1, OneHolder DEF Locked, IInv, Validity, Holds, Clean
<1>3. /\ pc' \in [Proc -> Labels]
      /\ HasBuffer' /\ UsersFinite' /\ Listed' /\ OneBuffer' /\ LockHeld' /\ SleepersWaitForHolder'
  BY <1>1, HolderKeeps
<1> USE <1>1, <1>2 DEF IInv, HolderStep
<1>4. RefcntCounts' /\ refcnt' \in [Buf -> Nat]
  <2>1. \A c \in Buf : Users(c)' = Users(c) /\ Cardinality(Users(c)) \in Nat
    BY FS_CardinalityType DEF Users, UsersFinite
  <2>2. \A c \in Buf : refcnt[c] = Cardinality(Users(c)) + (IF c \in logged THEN 1 ELSE 0)
    BY DEF RefcntCounts, Users
  <2>3. \A c \in Buf : refcnt'[c] = Cardinality(Users(c)') + (IF c \in logged' THEN 1 ELSE 0)
    BY <2>1, <2>2 DEF TypeOK
  <2>4. refcnt' \in [Buf -> Nat]
    BY <2>1, <2>2 DEF TypeOK
  <2> QED
    BY <2>3, <2>4 DEF RefcntCounts, Users
<1>5. TypeOK'
  BY <1>3, <1>4 DEF TypeOK
<1>6. Validity'
  BY DEF Validity, Holds, TypeOK
<1>7. Clean'
  BY DEF Clean, TypeOK, Locked
<1> QED
  BY <1>3, <1>4, <1>5, <1>6, <1>7

\* releasesleep() frees the lock and wakes those who wait for it.
LEMMA ReleaseSleepKeeps == ASSUME IInv, NEW p \in Proc, ReleaseSleep(p) PROVE IInv'
<1> DEFINE b == buf[p]
<1>1. /\ pc[p] = "hold" /\ UNCHANGED <<blockno, valid, refcnt, lru, data, disk, logged, buf>>
      /\ lock' = [lock EXCEPT ![b] = None]
  BY DEF ReleaseSleep, cache
<1>2. b \in Buf /\ \A q \in Proc : pc[q] \in Locked /\ buf[q] = b => q = p
  BY <1>1, OneHolder DEF Locked
<1>3. /\ pc' \in [Proc -> Labels] /\ pc'[p] = "unref"
      /\ \A q \in Proc \ {p} :
           pc'[q] = IF pc[q] = "sleep" /\ buf[q] = b THEN "lock" ELSE pc[q]
  BY DEF ReleaseSleep, Wakeup, IInv, TypeOK, Labels
<1>4. UsersFinite' /\ RefcntCounts'
  BY <1>1, SameUsers
<1>5. \A q \in Proc \ {p}, l \in Labels : l \notin {"sleep", "lock"} => (pc'[q] = l <=> pc[q] = l)
  BY <1>3
<1>6. \A q \in Proc : pc'[q] \in Locked <=> pc[q] \in Locked /\ q # p
  BY <1>3 DEF Locked
<1> USE <1>1, <1>2 DEF IInv
<1>7. TypeOK' /\ Listed' /\ OneBuffer'
  BY <1>3 DEF TypeOK, Listed, OneBuffer
<1>8. HasBuffer'
  BY <1>3 DEF HasBuffer
<1>9. LockHeld'
  <2> SUFFICES ASSUME NEW c \in Buf, NEW q \in Proc
               PROVE  lock'[c] = q <=> buf[q] = c /\ pc[q] \in Locked /\ q # p
    BY <1>6 DEF LockHeld
  <2>1. CASE c = b
    BY <2>1, NoneAssumption DEF TypeOK
  <2>2. CASE c # b
    BY <2>2 DEF LockHeld, TypeOK
  <2> QED
    BY <2>1, <2>2
<1>10. Validity'
  <2>1. \A q \in Proc : Holds(q)' => Holds(q)
    BY <1>3 DEF Holds
  <2>2. \A q \in Proc : pc'[q] \in {"read", "valid"} => pc[q] \in {"read", "valid"}
    BY <1>3
  <2> QED
    BY <2>1, <2>2 DEF Validity
<1>11. Clean'
  <2>1. \A q \in Proc : pc[q] = "dirty" => pc'[q] = "dirty"
    BY <1>3
  <2>2. \A q \in Proc : pc'[q] \in {"valid", "written"} => pc[q] \in {"valid", "written"}
    BY <1>3
  <2>3. Clean /\ UNCHANGED <<blockno, valid, data, disk, logged, buf>>
    OBVIOUS
  <2> QED
    BY ONLY <2>1, <2>2, <2>3 DEF Clean
<1>12. SleepersWaitForHolder'
  <2>1. \A q \in Proc : pc'[q] = "sleep" => pc[q] = "sleep" /\ buf[q] # b /\ buf[q] \in Buf
    BY <1>3 DEF HasBuffer
  <2> QED
    BY <2>1 DEF SleepersWaitForHolder, TypeOK
<1> QED
  BY <1>4, <1>7, <1>8, <1>9, <1>10, <1>11, <1>12

\* brelse() moves a buffer within the list and loses none.
LEMMA ToFrontLists ==
  ASSUME lru \in [Buf -> Buf], Listed, NEW b \in Buf
  PROVE  /\ ToFront(b) \in [Buf -> Buf]
         /\ \A c \in Buf : \E i \in Buf : ToFront(b)[i] = c
<1> DEFINE k == CHOOSE i \in Buf : lru[i] = b
<1>1. k \in Buf /\ lru[k] = b
  BY DEF Listed
<1> HIDE DEF k
<1>2. ToFront(b) = [i \in Buf |-> IF i = 1 THEN b ELSE IF i <= k THEN lru[i - 1] ELSE lru[i]]
  BY DEF ToFront, k
<1>3. ToFront(b) \in [Buf -> Buf]
  <2>1. ASSUME NEW i \in Buf, i # 1, i <= k PROVE i - 1 \in Buf
    BY <1>1, <2>1, BcacheAssumption DEF Buf
  <2>2. \A i \in Buf : (IF i = 1 THEN b ELSE IF i <= k THEN lru[i - 1] ELSE lru[i]) \in Buf
    BY <2>1
  <2> QED
    BY <1>2, <2>2
<1>4. ASSUME NEW c \in Buf PROVE \E i \in Buf : ToFront(b)[i] = c
  <2>1. PICK j \in Buf : lru[j] = c
    BY DEF Listed
  <2>2. CASE j = k
    <3>1. 1 \in Buf /\ ToFront(b)[1] = c
      BY <1>1, <1>2, <2>1, <2>2, BcacheAssumption DEF Buf
    <3> QED
      BY <3>1
  <2>3. CASE j < k
    <3>1. j + 1 \in Buf /\ ToFront(b)[j + 1] = c
      BY <1>1, <1>2, <2>1, <2>3, BcacheAssumption DEF Buf
    <3> QED
      BY <3>1
  <2>4. CASE j > k
    <3>1. ToFront(b)[j] = c
      BY <1>1, <1>2, <2>1, <2>4, BcacheAssumption DEF Buf
    <3> QED
      BY <3>1
  <2> QED
    BY <1>1, <2>2, <2>3, <2>4, BcacheAssumption DEF Buf
<1> QED
  BY <1>3, <1>4

\* The second half of brelse() drops the reference.
LEMMA UnrefKeeps == ASSUME IInv, NEW p \in Proc, Unref(p) PROVE IInv'
<1>0. PICK b \in Buf : b = buf[p]
  BY DEF Unref, IInv, HasBuffer
<1>1. /\ pc[p] = "unref" /\ UNCHANGED <<blockno, valid, data, lock, disk, logged>>
      /\ refcnt' = [refcnt EXCEPT ![b] = refcnt[b] - 1]
      /\ lru' = ToFront(b) \/ lru' = lru
      /\ pc' = [pc EXCEPT ![p] = "idle"] /\ buf' = [buf EXCEPT ![p] = None]
  BY <1>0 DEF Unref
<1> USE <1>0, <1>1 DEF IInv
<1>3. lru' \in [Buf -> Buf] /\ Listed'
  <2>1. CASE lru' = lru
    BY <2>1 DEF TypeOK, Listed
  <2>2. CASE lru' = ToFront(b)
    <3>1. /\ ToFront(b) \in [Buf -> Buf]
          /\ \A c \in Buf : \E i \in Buf : ToFront(b)[i] = c
      BY ToFrontLists, Zenon DEF TypeOK
    <3> QED
      BY <2>2, <3>1 DEF Listed
  <2> QED
    BY <2>1, <2>2
<1>4. /\ Users(b)' = Users(b) \ {p} /\ p \in Users(b)
      /\ \A c \in Buf \ {b} : Users(c)' = Users(c)
  BY NoneAssumption DEF Users, TypeOK
<1>5. /\ IsFiniteSet(Users(b)') /\ Cardinality(Users(b)') = Cardinality(Users(b)) - 1
      /\ Cardinality(Users(b)) \in Nat /\ Cardinality(Users(b)') \in Nat
  BY <1>4, FS_RemoveElement, FS_CardinalityType DEF UsersFinite
<1>6. UsersFinite'
  BY <1>4, <1>5, Zenon DEF UsersFinite
<1>7. RefcntCounts' /\ refcnt' \in [Buf -> Nat]
  <2>1. \A c \in Buf : refcnt[c] = Cardinality(Users(c)) + (IF c \in logged THEN 1 ELSE 0)
    BY DEF RefcntCounts, Users
  <2>2. refcnt' = [refcnt EXCEPT ![b] = refcnt[b] - 1] /\ refcnt \in [Buf -> Nat] /\ logged' = logged
    BY DEF TypeOK
  <2> HIDE DEF IInv
  <2>3. \A c \in Buf : refcnt'[c] = Cardinality(Users(c)') + (IF c \in logged' THEN 1 ELSE 0)
    <3>1. ASSUME NEW c \in Buf, c # b
          PROVE  refcnt'[c] = Cardinality(Users(c)') + (IF c \in logged' THEN 1 ELSE 0)
      BY <1>4, <2>1, <2>2, <3>1
    <3>2. refcnt'[b] = Cardinality(Users(b)') + (IF b \in logged' THEN 1 ELSE 0)
      BY <1>5, <2>1, <2>2
    <3> QED
      BY <3>1, <3>2
  <2>4. refcnt' \in [Buf -> Nat]
    BY <1>5, <2>1, <2>2
  <2> QED
    BY <2>3, <2>4 DEF RefcntCounts, Users
<1>8. TypeOK'
  BY <1>3, <1>7 DEF TypeOK, Labels
<1>9. HasBuffer' /\ OneBuffer'
  BY DEF HasBuffer, OneBuffer, TypeOK
<1>10. LockHeld'
  BY NoneAssumption DEF LockHeld, TypeOK, Locked
<1>11. Validity' /\ SleepersWaitForHolder'
  BY DEF Validity, Holds, SleepersWaitForHolder, TypeOK
<1>12. Clean'
  BY DEF Clean, TypeOK
<1> QED
  BY <1>3, <1>6, <1>7, <1>8, <1>9, <1>10, <1>11, <1>12

\* A panicked process keeps everything as it is.
LEMMA StutterKeeps == ASSUME IInv, UNCHANGED vars PROVE IInv'
<1>1. UNCHANGED <<blockno, valid, refcnt, lru, lock, data, disk, logged, pc, buf>>
  BY DEF vars, cache
<1>2. TypeOK' /\ HasBuffer' /\ Listed' /\ OneBuffer'
  BY <1>1 DEF IInv, TypeOK, HasBuffer, Listed, OneBuffer
<1>3. UsersFinite' /\ RefcntCounts'
  BY Zenon, <1>1 DEF IInv, UsersFinite, Users, RefcntCounts
<1>4. LockHeld' /\ Validity'
  BY <1>1 DEF IInv, LockHeld, Validity, Holds
<1>5. Clean' /\ SleepersWaitForHolder'
  BY <1>1 DEF IInv, Clean, SleepersWaitForHolder
<1> QED
  BY <1>2, <1>3, <1>4, <1>5 DEF IInv

\* Every step of bio.c keeps the invariant.
LEMMA NextKeeps == IInv /\ [Next]_vars => IInv'
<1> SUFFICES ASSUME IInv, [Next]_vars PROVE IInv'
  OBVIOUS
<1>1. CASE UNCHANGED vars
  BY <1>1, StutterKeeps
<1>2. ASSUME NEW p \in Proc, NEW n \in Block, Hit(p, n) \/ Recycle(p, n) \/ NoBuffers(p, n)
      PROVE  IInv'
  BY <1>2, HitKeeps, RecycleKeeps, NoBuffersKeeps
<1>3. ASSUME NEW p \in Proc,
             AcquireSleep(p) \/ ReadTransfer(p) \/ SetValid(p) \/ Interrupted(p) \/ Panicked(p)
      PROVE  IInv'
  BY <1>3, AcquireSleepKeeps, ReadKeeps, InterruptedKeeps, StutterKeeps DEF Panicked
<1>4. ASSUME NEW p \in Proc, NEW v \in Value, Store(p, v) PROVE IInv'
  BY <1>4, StoreKeeps
<1>5. ASSUME NEW p \in Proc,
             LogWrite(p) \/ WriteTransfer(p) \/ Written(p) \/ ReleaseSleep(p) \/ Unref(p)
      PROVE  IInv'
  BY <1>5, LogWriteKeeps, WriteTransferKeeps, WrittenKeeps, ReleaseSleepKeeps, UnrefKeeps
<1> QED
  BY <1>1, <1>2, <1>3, <1>4, <1>5 DEF Next

\* The invariant above holds always.
THEOREM Invariance == Spec => []IInv
BY InitIInv, NextKeeps, PTL DEF Spec

\* A reference count is the number of processes that use the buffer, and one
\* more while log_write() has it pinned: bget() recycles no buffer in use.
THEOREM RefcntExact == Spec => []RefcntCounts
<1>1. IInv => RefcntCounts
  BY DEF IInv
<1> QED
  BY <1>1, Invariance, PTL

\* Whoever sleeps in acquiresleep() waits for a holder, whose releasesleep()
\* will wake it.
THEOREM NoForgottenSleeper == Spec => []SleepersWaitForHolder
<1>1. IInv => SleepersWaitForHolder
  BY DEF IInv
<1> QED
  BY <1>1, Invariance, PTL

-----------------------------------------------------------------------------
(* The cache, the disk and the pins implement one copy of each block.      *)

\* The contents of a block are its valid buffer's, or else the disk's.
ContentsIs ==
  /\ \A b \in Buf : valid[b] => Contents[blockno[b]] = data[b]
  /\ \A n \in Block : (\A b \in Buf : valid[b] => blockno[b] # n) => Contents[n] = disk[n]

\* The invariant determines the contents of every block.
LEMMA ContentsKnown == IInv => ContentsIs
<1> SUFFICES ASSUME IInv PROVE ContentsIs
  OBVIOUS
<1>2. ASSUME NEW b \in Buf, valid[b] PROVE Contents[blockno[b]] = data[b]
  <2> DEFINE c == CHOOSE c \in Buf : blockno[c] = blockno[b] /\ valid[c]
  <2>1. blockno[b] \in Block
    BY <1>2 DEF IInv, Validity
  <2>2. c \in Buf /\ blockno[c] = blockno[b]
    BY <1>2
  <2>3. c = b
    BY <2>1, <2>2, NoneAssumption DEF IInv, OneBuffer
  <2> QED
    BY <1>2, <2>1, <2>3 DEF Contents
<1>3. ASSUME NEW n \in Block, \A b \in Buf : valid[b] => blockno[b] # n PROVE Contents[n] = disk[n]
  BY <1>3 DEF Contents
<1> QED
  BY <1>2, <1>3 DEF ContentsIs

\* A process has a block exactly while it holds the lock of a valid buffer.
LEMMA ViewIs ==
  IInv => /\ View = [p \in Proc |-> View[p]]
          /\ \A p \in Proc : IF Holds(p) THEN /\ View[p] = [no |-> blockno[buf[p]], data |-> data[buf[p]]]
                                             /\ View[p] # None
                                        ELSE View[p] = None
<1> SUFFICES ASSUME IInv, NEW p \in Proc
             PROVE  IF Holds(p) THEN /\ View[p] = [no |-> blockno[buf[p]], data |-> data[buf[p]]]
                                     /\ View[p] # None
                                ELSE View[p] = None
  BY DEF View
<1>1. CASE Holds(p)
  <2>1. buf[p] \in Buf /\ blockno[buf[p]] \in Block /\ data[buf[p]] \in Value
    BY <1>1 DEF IInv, HasBuffer, Holds, TypeOK
  <2>2. [no |-> blockno[buf[p]], data |-> data[buf[p]]] \in [no : Block, data : Value]
    BY <2>1
  <2> QED
    BY <1>1, <2>2, NoneAssumption DEF View
<1>2. CASE ~Holds(p)
  BY <1>2 DEF View
<1> QED
  BY <1>1, <1>2

\* Steps that leave the buffers' data and the disk alone.
LEMMA SameContents == ASSUME UNCHANGED <<blockno, valid, data, disk>> PROVE Contents' = Contents
BY DEF Contents

\* Who holds a buffer when one process goes on.
LEMMA HoldsStep ==
  ASSUME IInv, NEW p \in Proc, NEW l, pc' = [pc EXCEPT ![p] = l],
         Holds(p) <=> l \in {"hold", "dirty", "written"}
  PROVE  \A q \in Proc : Holds(q)' = Holds(q)
<1>1. pc \in [Proc -> Labels]
  BY DEF IInv, TypeOK
<1>2. pc'[p] = l /\ \A q \in Proc \ {p} : pc'[q] = pc[q]
  BY <1>1
<1> QED
  BY <1>2 DEF Holds

\* Steps after which every process has what it had.
LEMMA SameView ==
  ASSUME IInv, IInv',
         \A q \in Proc : /\ Holds(q)' = Holds(q)
                         /\ Holds(q) => /\ buf'[q] = buf[q] /\ blockno'[buf[q]] = blockno[buf[q]]
                                        /\ data'[buf[q]] = data[buf[q]]
  PROVE  View' = View
<1>1. \A q \in Proc : (IF Holds(q)' THEN [no |-> blockno'[buf'[q]], data |-> data'[buf'[q]]] ELSE None)
                       = (IF Holds(q) THEN [no |-> blockno[buf[q]], data |-> data[buf[q]]] ELSE None)
  OBVIOUS
<1> QED
  BY <1>1 DEF View

\* Steps that change the state of the process that takes them and no buffer.
LEMMA QuietStep ==
  ASSUME IInv, IInv', NEW p \in Proc, NEW l \in Labels, ~Holds(p),
         l \notin {"hold", "dirty", "written"}, pc' = [pc EXCEPT ![p] = l],
         \A q \in Proc \ {p} : buf'[q] = buf[q],
         UNCHANGED <<blockno, valid, data, disk>>
  PROVE  UNCHANGED <<Contents, View>>
<1>1. Contents' = Contents
  BY SameContents
<1>2. \A q \in Proc : Holds(q)' = Holds(q) /\ (Holds(q) => q # p)
  BY DEF Holds, IInv, TypeOK
<1>3. View' = View
  BY <1>2, SameView
<1> QED
  BY <1>1, <1>3

\* With an empty cache the contents are the disk's.
LEMMA InitRefines == Init => BS!Init
<1> SUFFICES ASSUME Init PROVE BS!Init
  OBVIOUS
<1>1. Contents = disk
  <2>1. Contents = [n \in Block |-> disk[n]]
    BY DEF Contents, Init
  <2>2. disk = [n \in Block |-> disk[n]]
    BY DEF Init
  <2> QED
    BY <2>1, <2>2
<1>2. View = [p \in Proc |-> None]
  BY DEF View, Holds, Init
<1> QED
  BY <1>1, <1>2 DEF BS!Init, Init

\* A buffer that is recycled was as the disk has it.
LEMMA RecycleRefines ==
  ASSUME IInv, IInv', NEW p \in Proc, NEW n \in Block, Recycle(p, n)
  PROVE  UNCHANGED <<Contents, View>>
<1>0. ContentsIs /\ ContentsIs'
  BY ContentsKnown, PTL
<1>1. PICK b \in Buf : /\ refcnt[b] = 0 /\ blockno' = [blockno EXCEPT ![b] = n]
                       /\ valid' = [valid EXCEPT ![b] = FALSE] /\ buf' = [buf EXCEPT ![p] = b]
  BY Zenon DEF Recycle, Unused, Invalid, IInv, TypeOK
<1>2. /\ pc[p] = "idle" /\ pc' = [pc EXCEPT ![p] = "lock"] /\ UNCHANGED <<data, disk>>
      /\ \A c \in Buf : blockno[c] # n
  BY DEF Recycle, Cached
<1>3. b \notin logged /\ \A q \in Proc : buf[q] # b
  BY <1>1, UnusedIsFree DEF Users
<1>4. View' = View
  <2>1. \A q \in Proc : Holds(q)' = Holds(q) /\ (Holds(q) => q # p /\ buf[q] # b)
    BY <1>2, <1>3 DEF Holds, IInv, TypeOK
  <2>2. \A q \in Proc : Holds(q) => buf[q] \in Buf
    BY DEF Holds, IInv, HasBuffer
  <2>3. \A q \in Proc : Holds(q) => buf'[q] = buf[q] /\ blockno'[buf[q]] = blockno[buf[q]]
    BY <1>1, <2>1, <2>2 DEF IInv, TypeOK
  <2> QED
    BY <1>2, <2>1, <2>3, SameView
<1>5. ASSUME NEW m \in Block PROVE Contents'[m] = Contents[m]
  <2>1. CASE \E c \in Buf : valid[c] /\ blockno[c] = m /\ c # b
    <3>1. PICK c \in Buf : valid[c] /\ blockno[c] = m /\ c # b
      BY <2>1
    <3>2. valid'[c] /\ blockno'[c] = m /\ data'[c] = data[c]
      BY <1>1, <1>2, <3>1 DEF IInv, TypeOK
    <3>3. Contents[m] = data[c] /\ Contents'[m] = data'[c]
      BY <1>0, <3>1, <3>2 DEF ContentsIs
    <3> QED
      BY <3>2, <3>3
  <2>2. CASE \A c \in Buf : valid[c] /\ blockno[c] = m => c = b
    <3>1. \A c \in Buf : valid'[c] => blockno'[c] # m
      BY <1>1, <2>2 DEF IInv, TypeOK
    <3>2. (\A c \in Buf : valid'[c] => blockno'[c] # m) => Contents'[m] = disk'[m]
      BY <1>0 DEF ContentsIs
    <3>3. Contents[m] = disk[m]
      <4>1. CASE valid[b] /\ blockno[b] = m
        <5>1. data[b] = disk[m]
          BY <1>3, <4>1 DEF IInv, Clean
        <5> QED
          BY <1>0, <4>1, <5>1, Zenon DEF ContentsIs
      <4>2. CASE ~(valid[b] /\ blockno[b] = m)
        BY <1>0, <2>2, <4>2 DEF ContentsIs
      <4> QED
        BY <4>1, <4>2
    <3> QED
      BY <1>2, <3>1, <3>2, <3>3
  <2> QED
    BY <2>1, <2>2
<1>6. Contents' = Contents
  BY <1>5 DEF Contents
<1> QED
  BY <1>4, <1>6

\* acquiresleep() of a valid buffer, and the end of bread() of another one,
\* give the process a block that nobody has.
LEMMA BreadRefines ==
  ASSUME IInv, IInv', NEW p \in Proc, ~Holds(p), pc[p] \notin {"idle", "panic"},
         \A q \in Proc : Holds(q) => buf[q] # buf[p],
         pc' = [pc EXCEPT ![p] = "hold"],
         Contents' = Contents, UNCHANGED <<blockno, data, buf>>
  PROVE  BS!Read(p, blockno[buf[p]]) /\ blockno[buf[p]] \in Block
<1> DEFINE n == blockno[buf[p]]
<1>1. buf[p] \in Buf /\ n \in Block
  BY DEF IInv, HasBuffer
<1>2. View[p] = None
  BY ViewIs
<1>3. ASSUME NEW q \in Proc PROVE ~BS!Has(q, n)
  <2>1. CASE Holds(q)
    <3>1. buf[q] \in Buf /\ buf[q] # buf[p]
      BY <2>1 DEF Holds, IInv, HasBuffer
    <3>2. blockno[buf[q]] # n
      BY <1>1, <3>1, NoneAssumption DEF IInv, OneBuffer
    <3>3. View[q].no = blockno[buf[q]]
      BY <2>1, ViewIs
    <3> QED
      BY <3>2, <3>3 DEF BS!Has
  <2>2. CASE ~Holds(q)
    BY <2>2, ViewIs DEF BS!Has
  <2> QED
    BY <2>1, <2>2
<1>4. Contents[n] = data[buf[p]]
  <2>1. Holds(p)'
    BY DEF Holds, IInv, TypeOK
  <2>2. valid'[buf[p]]
    BY <2>1 DEF IInv, Validity
  <2>3. ContentsIs'
    BY ContentsKnown, PTL
  <2> QED
    BY <1>1, <2>2, <2>3 DEF ContentsIs
<1>5. View' = [View EXCEPT ![p] = [no |-> n, data |-> data[buf[p]]]]
  <2>1. Holds(p)' /\ \A q \in Proc \ {p} : Holds(q)' = Holds(q)
    BY DEF Holds, IInv, TypeOK
  <2> QED
    BY <2>1, Zenon DEF View
<1> QED
  BY <1>1, <1>2, <1>3, <1>4, <1>5 DEF BS!Read

\* acquiresleep() of a valid buffer is the read of its block.
LEMMA AcquireSleepRefines ==
  ASSUME IInv, IInv', NEW p \in Proc, AcquireSleep(p)
  PROVE  [BS!Next]_<<Contents, View>>
<1>1. /\ pc[p] = "lock" /\ UNCHANGED <<blockno, valid, data, disk, buf>> /\ ~Holds(p)
      /\ pc \in [Proc -> Labels] /\ buf[p] \in Buf
  BY DEF AcquireSleep, cache, Holds, IInv, TypeOK, HasBuffer
<1>2. CASE \E l \in {"sleep", "read"} : pc' = [pc EXCEPT ![p] = l]
  BY <1>1, <1>2, QuietStep, Zenon DEF Labels
<1>3. CASE lock[buf[p]] = None /\ pc' = [pc EXCEPT ![p] = "hold"]
  <2>1. Contents' = Contents
    BY <1>1, SameContents
  <2>2. \A q \in Proc : Holds(q) => buf[q] # buf[p]
    <3>1. ASSUME NEW q \in Proc, Holds(q), buf[q] = buf[p] PROVE lock[buf[p]] = q
      BY <1>1, <3>1, Zenon DEF Holds, IInv, LockHeld, Locked
    <3> QED
      BY <1>3, <3>1, NoneAssumption, Zenon
  <2>3. BS!Read(p, blockno[buf[p]]) /\ blockno[buf[p]] \in Block
    BY <1>1, <1>3, <2>1, <2>2, BreadRefines, Zenon
  <2> QED
    BY <2>3 DEF BS!Next
<1> QED
  BY <1>1, <1>2, <1>3 DEF AcquireSleep

\* The data of a buffer that is not valid are not yet its block's.
LEMMA ReadTransferRefines ==
  ASSUME IInv, IInv', NEW p \in Proc, ReadTransfer(p)
  PROVE  UNCHANGED <<Contents, View>>
<1> DEFINE b == buf[p]
<1>1. /\ pc[p] = "read" /\ pc' = [pc EXCEPT ![p] = "valid"]
      /\ UNCHANGED <<blockno, valid, disk, buf>>
      /\ data' = [data EXCEPT ![b] = disk[blockno[b]]]
  BY DEF ReadTransfer, cache
<1>2. /\ b \in Buf /\ ~valid[b]
      /\ \A q \in Proc : pc[q] \in Locked /\ buf[q] = b => q = p
  BY <1>1, OneHolder, Zenon DEF Locked, IInv, Validity
<1>3. \A c \in Buf : valid[c] => data'[c] = data[c]
  BY <1>1, <1>2, Zenon DEF IInv, TypeOK
<1>4. \A q \in Proc : /\ Holds(q)' = Holds(q)
                      /\ Holds(q) => buf[q] \in Buf /\ valid[buf[q]]
  <2>1. \A q \in Proc : Holds(q)' = Holds(q)
    BY <1>1, HoldsStep, Zenon DEF Holds
  <2>2. \A q \in Proc : Holds(q) => buf[q] \in Buf /\ valid[buf[q]]
    BY DEF Holds, IInv, HasBuffer, Validity
  <2> QED
    BY <2>1, <2>2
<1>5. View' = View
  BY <1>1, <1>3, <1>4, SameView
<1>6. ASSUME NEW n \in Block PROVE Contents'[n] = Contents[n]
  <2>1. ContentsIs /\ ContentsIs'
    BY ContentsKnown, PTL
  <2>2. ASSUME NEW c \in Buf, valid[c], blockno[c] = n PROVE Contents'[n] = Contents[n]
    <3>1. Contents[n] = data[c]
      BY <2>1, <2>2 DEF ContentsIs
    <3>2. valid'[c] /\ blockno'[c] = n
      BY <1>1, <2>2
    <3>3. Contents'[n] = data'[c]
      BY <2>1, <3>2 DEF ContentsIs
    <3> QED
      BY <1>3, <2>2, <3>1, <3>3
  <2>3. CASE \A c \in Buf : valid[c] => blockno[c] # n
    BY <1>1, <2>1, <2>3 DEF ContentsIs
  <2> QED
    BY <2>2, <2>3
<1>7. Contents' = Contents
  BY <1>6 DEF Contents
<1> QED
  BY <1>5, <1>7

\* The end of bread() from the disk is the read of the block.
LEMMA SetValidRefines ==
  ASSUME IInv, IInv', NEW p \in Proc, SetValid(p)
  PROVE  [BS!Next]_<<Contents, View>>
<1> DEFINE b == buf[p]
<1>1. /\ pc[p] = "valid" /\ pc' = [pc EXCEPT ![p] = "hold"] /\ ~Holds(p)
      /\ UNCHANGED <<blockno, data, disk, buf>> /\ valid' = [valid EXCEPT ![b] = TRUE]
  BY DEF SetValid, Holds
<1>2. /\ b \in Buf /\ ~valid[b] /\ blockno[b] \in Block /\ data[b] = disk[blockno[b]]
      /\ \A q \in Proc : pc[q] \in Locked /\ buf[q] = b => q = p
  BY <1>1, OneHolder, Zenon DEF Locked, IInv, Validity, Clean
<1>3. \A q \in Proc : Holds(q) => buf[q] # b
  BY <1>1, <1>2, Zenon DEF Holds, Locked
<1>4. ASSUME NEW n \in Block PROVE Contents'[n] = Contents[n]
  <2>1. ContentsIs /\ ContentsIs'
    BY ContentsKnown, PTL
  <2>2. CASE n = blockno[b]
    <3>1. \A c \in Buf : valid[c] => blockno[c] # n
      BY <1>2, <2>2, NoneAssumption DEF IInv, OneBuffer
    <3>2. valid'[b]
      BY <1>1, <1>2 DEF IInv, TypeOK
    <3>3. Contents[n] = disk[n] /\ Contents'[n] = data[b]
      BY <1>1, <1>2, <2>1, <2>2, <3>1, <3>2, Zenon DEF ContentsIs
    <3> QED
      BY <1>2, <2>2, <3>3
  <2>3. CASE n # blockno[b]
    <3>1. \A c \in Buf : blockno[c] = n => valid'[c] = valid[c]
      BY <1>1, <1>2, <2>3, Zenon DEF IInv, TypeOK
    <3>2. ASSUME NEW c \in Buf, valid[c], blockno[c] = n PROVE Contents'[n] = Contents[n]
      <4>1. Contents[n] = data[c]
        BY <2>1, <3>2, Zenon DEF ContentsIs
      <4>2. valid'[c] /\ blockno'[c] = n /\ data'[c] = data[c]
        BY <1>1, <3>1, <3>2, Zenon
      <4>3. Contents'[n] = data'[c]
        BY <2>1, <4>2, Zenon DEF ContentsIs
      <4> QED
        BY <4>1, <4>2, <4>3
    <3>3. CASE \A c \in Buf : valid[c] => blockno[c] # n
      BY <1>1, <2>1, <3>1, <3>3, Zenon DEF ContentsIs
    <3> QED
      BY <3>2, <3>3
  <2> QED
    BY <2>2, <2>3
<1>5. Contents' = Contents
  BY <1>4 DEF Contents
<1>6. BS!Read(p, blockno[b])
  BY <1>1, <1>3, <1>5, BreadRefines, Zenon
<1> QED
  BY <1>2, <1>6 DEF BS!Next

\* A store into the buffer is the store into its block.
LEMMA StoreRefines ==
  ASSUME IInv, IInv', NEW p \in Proc, NEW v \in Value, Store(p, v)
  PROVE  [BS!Next]_<<Contents, View>>
<1> DEFINE b == buf[p]
           n == blockno[b]
<1>1. /\ pc[p] \in {"hold", "dirty"} /\ pc' = [pc EXCEPT ![p] = "dirty"] /\ Holds(p)
      /\ UNCHANGED <<blockno, valid, disk, buf>> /\ data' = [data EXCEPT ![b] = v]
  BY DEF Store, Holds, cache
<1>2. /\ b \in Buf /\ valid[b] /\ n \in Block
      /\ \A q \in Proc : pc[q] \in Locked /\ buf[q] = b => q = p
  BY <1>1, OneHolder, Zenon DEF Locked, IInv, Validity
<1>3. BS!Has(p, n)
  BY <1>1, ViewIs DEF BS!Has
<1>4. View' = [View EXCEPT ![p].data = v]
  <2>1. /\ Holds(p)' /\ data'[b] = v
        /\ \A q \in Proc \ {p} : /\ Holds(q)' = Holds(q)
                                 /\ Holds(q) => data'[buf[q]] = data[buf[q]]
    BY <1>1, <1>2, Zenon DEF Holds, IInv, TypeOK, HasBuffer, Locked
  <2>2. View'[p] = [no |-> n, data |-> v] /\ \A q \in Proc \ {p} : View'[q] = View[q]
    BY <1>1, <2>1, Zenon DEF View
  <2>3. View[p] = [no |-> n, data |-> data[b]]
    BY <1>1, ViewIs
  <2>4. [View[p] EXCEPT !.data = v] = [no |-> n, data |-> v]
    BY <2>3
  <2>5. View' = [q \in Proc |-> View'[q]] /\ View = [q \in Proc |-> View[q]]
    BY DEF View
  <2> QED
    BY <2>2, <2>4, <2>5
<1>5. Contents' = [Contents EXCEPT ![n] = v]
  <2>1. ContentsIs /\ ContentsIs'
    BY ContentsKnown, PTL
  <2>2. Contents'[n] = v
    <3>1. valid'[b] /\ blockno'[b] = n /\ data'[b] = v
      BY <1>1, <1>2, Zenon DEF IInv, TypeOK
    <3>2. \A c \in Buf : valid'[c] => Contents'[blockno'[c]] = data'[c]
      BY <2>1, Zenon DEF ContentsIs
    <3>3. Contents'[blockno'[b]] = data'[b]
      BY <1>2, <3>1, <3>2, Zenon
    <3> QED
      BY <3>1, <3>3, Zenon
  <2>3. ASSUME NEW m \in Block, m # n PROVE Contents'[m] = Contents[m]
    <3>1. \A c \in Buf : blockno[c] = m => data'[c] = data[c]
      BY <1>1, <1>2, <2>3, Zenon DEF IInv, TypeOK
    <3>2. ASSUME NEW c \in Buf, valid[c], blockno[c] = m PROVE Contents'[m] = Contents[m]
      <4>1. Contents[m] = data[c]
        BY <2>1, <3>2, Zenon DEF ContentsIs
      <4>2. valid'[c] /\ blockno'[c] = m /\ data'[c] = data[c]
        BY <1>1, <3>1, <3>2, Zenon
      <4>3. Contents'[m] = data'[c]
        BY <2>1, <4>2, Zenon DEF ContentsIs
      <4> QED
        BY <4>1, <4>2, <4>3
    <3>3. CASE \A c \in Buf : valid[c] => blockno[c] # m
      BY <1>1, <2>1, <3>3, Zenon DEF ContentsIs
    <3> QED
      BY <3>2, <3>3
  <2>4. Contents' = [m \in Block |-> Contents'[m]] /\ Contents = [m \in Block |-> Contents[m]]
    BY DEF Contents
  <2> QED
    BY <1>2, <2>2, <2>3, <2>4
<1>6. BS!Store(p, n, v)
  BY <1>3, <1>4, <1>5 DEF BS!Store
<1> QED
  BY <1>2, <1>6 DEF BS!Next

\* log_write(), bwrite() and bunpin() leave what the holder has alone: the
\* contents of its block are in its valid buffer.
LEMMA WriteRefines ==
  ASSUME IInv, IInv', NEW p \in Proc, LogWrite(p) \/ WriteTransfer(p) \/ Written(p)
  PROVE  UNCHANGED <<Contents, View>>
<1> DEFINE b == buf[p]
<1>1. /\ Holds(p) /\ UNCHANGED <<blockno, valid, data, buf>>
      /\ \E l \in {"hold", "written"} : pc' = [pc EXCEPT ![p] = l]
      /\ disk' = disk \/ disk' = [disk EXCEPT ![blockno[b]] = data[b]]
  BY Zenon DEF LogWrite, WriteTransfer, Written, Holds, cache
<1>2. b \in Buf /\ valid[b] /\ blockno[b] \in Block
  BY <1>1, Zenon DEF Holds, IInv, HasBuffer, Validity
<1>3. View' = View
  <2>1. PICK l \in {"hold", "written"} : pc' = [pc EXCEPT ![p] = l]
    BY <1>1, Zenon
  <2>2. \A q \in Proc : Holds(q)' = Holds(q)
    BY <1>1, <2>1, HoldsStep, Zenon
  <2> QED
    BY <1>1, <2>2, SameView
<1>4. ASSUME NEW n \in Block PROVE Contents'[n] = Contents[n]
  <2>1. ContentsIs /\ ContentsIs'
    BY ContentsKnown, PTL
  <2>2. ASSUME NEW c \in Buf, valid[c], blockno[c] = n PROVE Contents'[n] = Contents[n]
    <3>1. Contents[n] = data[c]
      BY <2>1, <2>2 DEF ContentsIs
    <3>2. valid'[c] /\ blockno'[c] = n /\ data'[c] = data[c]
      BY <1>1, <2>2
    <3>3. Contents'[n] = data'[c]
      BY <2>1, <3>2 DEF ContentsIs
    <3> QED
      BY <3>1, <3>2, <3>3
  <2>3. CASE \A c \in Buf : valid[c] => blockno[c] # n
    <3>1. disk'[n] = disk[n]
      BY <1>1, <1>2, <2>3, Zenon DEF IInv, TypeOK
    <3> QED
      BY <1>1, <2>1, <2>3, <3>1 DEF ContentsIs
  <2> QED
    BY <2>2, <2>3
<1>5. Contents' = Contents
  BY <1>4 DEF Contents
<1> QED
  BY <1>3, <1>5

\* releasesleep() gives the block back.
LEMMA ReleaseSleepRefines ==
  ASSUME IInv, IInv', NEW p \in Proc, ReleaseSleep(p)
  PROVE  [BS!Next]_<<Contents, View>>
<1>1. Holds(p) /\ UNCHANGED <<blockno, valid, data, disk, buf>>
  BY DEF ReleaseSleep, cache, Holds
<1>2. ~Holds(p)' /\ \A q \in Proc \ {p} : Holds(q)' = Holds(q)
  BY DEF ReleaseSleep, Wakeup, Holds, IInv, TypeOK
<1>3. View' = [View EXCEPT ![p] = None]
  BY <1>1, <1>2, Zenon DEF View
<1>4. View[p] # None
  BY <1>1, ViewIs
<1>5. Contents' = Contents
  BY <1>1, SameContents
<1>6. BS!Release(p)
  BY <1>3, <1>4, <1>5 DEF BS!Release
<1> QED
  BY <1>6 DEF BS!Next

\* Steps of processes that do not have the contents of a block.
LEMMA OthersRefine ==
  ASSUME IInv, IInv', NEW p \in Proc,
         \/ \E n \in Block : Hit(p, n) \/ NoBuffers(p, n)
         \/ Interrupted(p) \/ Unref(p)
  PROVE  UNCHANGED <<Contents, View>>
<1>1. /\ ~Holds(p) /\ UNCHANGED <<blockno, valid, data, disk>>
      /\ \E l \in {"lock", "panic", "idle"} : pc' = [pc EXCEPT ![p] = l]
  BY DEF Hit, NoBuffers, Interrupted, Unref, Holds, cache
<1>2. \A q \in Proc \ {p} : buf'[q] = buf[q]
  BY DEF Hit, NoBuffers, Interrupted, Unref, IInv, TypeOK
<1> QED
  BY <1>1, <1>2, QuietStep, Zenon DEF Labels

\* Every step of bio.c is a step of the block store or a stutter.
LEMMA NextRefines == IInv /\ IInv' /\ [Next]_vars => [BS!Next]_<<Contents, View>>
<1> SUFFICES ASSUME IInv, IInv', [Next]_vars PROVE [BS!Next]_<<Contents, View>>
  OBVIOUS
<1>1. CASE UNCHANGED vars
  BY <1>1 DEF vars, cache, Contents, View, Holds
<1>2. ASSUME NEW p \in Proc, NEW n \in Block, Hit(p, n) \/ Recycle(p, n) \/ NoBuffers(p, n)
      PROVE  UNCHANGED <<Contents, View>>
  BY <1>2, OthersRefine, RecycleRefines
<1>3. ASSUME NEW p \in Proc,
             AcquireSleep(p) \/ ReadTransfer(p) \/ SetValid(p) \/ Interrupted(p) \/ Panicked(p)
      PROVE  [BS!Next]_<<Contents, View>>
  <2>1. CASE Panicked(p)
    BY <1>1, <2>1 DEF Panicked
  <2>2. CASE ReadTransfer(p) \/ Interrupted(p)
    BY <2>2, ReadTransferRefines, OthersRefine
  <2> QED
    BY <1>3, <2>1, <2>2, AcquireSleepRefines, SetValidRefines
<1>4. ASSUME NEW p \in Proc, NEW v \in Value, Store(p, v) PROVE [BS!Next]_<<Contents, View>>
  BY <1>4, StoreRefines
<1>5. ASSUME NEW p \in Proc, LogWrite(p) \/ WriteTransfer(p) \/ Written(p) \/ Unref(p)
      PROVE  UNCHANGED <<Contents, View>>
  BY <1>5, WriteRefines, OthersRefine
<1>6. ASSUME NEW p \in Proc, ReleaseSleep(p) PROVE [BS!Next]_<<Contents, View>>
  BY <1>6, ReleaseSleepRefines
<1> QED
  BY <1>1, <1>2, <1>3, <1>4, <1>5, <1>6 DEF Next

\* What bread() returns is what was stored last into the block, whether it
\* comes from the cache or from the disk, and only one process has it.
THEOREM CacheIsCoherent == Spec => ImplementsBlockStore
<1>1. Spec => BS!Init
  BY InitRefines DEF Spec
<1> QED
  BY <1>1, Invariance, NextRefines, PTL DEF Spec, ImplementsBlockStore, BS!Spec
=============================================================================
