--------------------------- MODULE SpinlockProofs ---------------------------
(***************************************************************************)
(* The invariants of Spinlock, for any number of CPUs and of locks.        *)
(*                                                                         *)
(* None of them is inductive.  Mutual exclusion and the absence of panics  *)
(* need to know which CPU owns a lock at every step of acquire() and       *)
(* release() (Ownership, CpuRecorded), and the interrupt enable needs to   *)
(* know what noff counts (NoffCounts) and what intena remembers            *)
(* (EnableKept, HandlerKept).                                              *)
(***************************************************************************)
EXTENDS Spinlock, FiniteSetTheorems, TLAPS

\* c has won the swap on l and has not yet unlocked it.
Owns(c, l) == l \in held[c] \/ (pc[c] = "set_cpu" /\ lk[c] = l)

\* lk->locked is set exactly while some CPU owns the lock, and one at most.
Ownership ==
  /\ \A l \in Lock : locked[l] <=> \E c \in Cpu : Owns(c, l)
  /\ \A l \in Lock : \A c, d \in Cpu : Owns(c, l) /\ Owns(d, l) => c = d

\* lk->cpu names the owner, but for the two windows next to the swaps.
CpuRecorded ==
  \A l \in Lock, c \in Cpu :
    lkcpu[l] = c <=> l \in held[c] /\ ~(pc[c] = "unlock" /\ lk[c] = l)

Acquiring == {"push_off", "check_locked", "check_cpu", "swap", "set_cpu"}
Releasing == {"release_check", "clear_cpu", "unlock"}

\* The argument of the acquire() or release() in progress.
ArgumentOK ==
  \A c \in Cpu :
    /\ pc[c] # "panic"
    /\ pc[c] \in Acquiring => lk[c] \in Lock /\ \A h \in held[c] : h < lk[c]
    /\ pc[c] \in Releasing => lk[c] \in held[c]

\* The code is between its push_off() and having the lock, or before pop_off().
Pushed(c) ==
  pc[c] \in {"check_locked", "check_cpu", "swap", "set_cpu", "pop_off"}

\* noff counts the locks held, and the one being acquired or released.
NoffCounts ==
  \A c \in Cpu :
    noff[c] = Cardinality(held[c]) + (IF Pushed(c) THEN 1 ELSE 0)

\* The interrupt enable of the code now running when it holds no lock.
Base(c) == saved[c] = NoFrame /\ asked[c]

\* Base(c) is in sie while noff is 0, in old across push_off(), and in intena
\* while noff is positive.
EnableKept ==
  \A c \in Cpu :
    /\ noff[c] = 0 => (sie[c] <=> Base(c))
    /\ noff[c] = 0 /\ pc[c] = "push_off" => (old[c] <=> Base(c))
    /\ noff[c] > 0 => ~sie[c] /\ (intena[c] <=> Base(c))

\* What a handler interrupts has interrupts on and is outside every critical
\* section, possibly inside push_off() after it has read SIE.
HandlerKept ==
  \A c \in Cpu :
    saved[c] # NoFrame =>
      /\ asked[c]
      /\ saved[c].held = {}
      /\ \/ saved[c].pc = "run"
         \/ saved[c].pc = "push_off" /\ saved[c].lk \in Lock /\ saved[c].old

IInv == /\ TypeOK /\ Ownership /\ CpuRecorded /\ ArgumentOK
        /\ NoffCounts /\ EnableKept /\ HandlerKept

-----------------------------------------------------------------------------
\* Sets of locks are finite, so that noff can count them.
LEMMA LockSets ==
  ASSUME NEW S \in SUBSET Lock
  PROVE  /\ IsFiniteSet(S) /\ Cardinality(S) \in Nat
         /\ Cardinality(S) = 0 <=> S = {}
<1>1. IsFiniteSet(Lock)
  BY FS_Interval, NLockAssumption DEF Lock
<1> QED
  BY <1>1, FS_Subset, FS_CardinalityType, FS_EmptySet

\* A CPU that gets a lock has one more.
LEMMA AddLock ==
  ASSUME NEW S \in SUBSET Lock, NEW l \in Lock, l \notin S
  PROVE  Cardinality(S \cup {l}) = Cardinality(S) + 1
BY LockSets, FS_AddElement

\* A CPU that gives a lock back has one less.
LEMMA RemoveLock ==
  ASSUME NEW S \in SUBSET Lock, NEW l \in S
  PROVE  Cardinality(S \ {l}) = Cardinality(S) - 1
BY LockSets, FS_RemoveElement

\* What Cardinality returns for the locks of any CPU.
LEMMA HeldSets ==
  ASSUME TypeOK, NEW c \in Cpu
  PROVE  /\ Cardinality(held[c]) \in Nat
         /\ Cardinality(held[c]) = 0 <=> held[c] = {}
BY LockSets DEF TypeOK

\* Code that can be interrupted is outside every critical section.
LEMMA Interruptible ==
  ASSUME IInv, NEW c \in Cpu, sie[c]
  PROVE  held[c] = {} /\ noff[c] = 0 /\ pc[c] \in {"run", "push_off"}
<1>1. noff[c] = 0
  BY DEF IInv, TypeOK, EnableKept
<1>2. held[c] = {} /\ ~Pushed(c)
  BY <1>1, HeldSets DEF IInv, NoffCounts
<1>3. pc[c] \notin Releasing /\ pc[c] # "panic"
  BY <1>2 DEF IInv, ArgumentOK
<1> QED
  BY <1>1, <1>2, <1>3 DEF IInv, TypeOK, Label, Pushed, Releasing

\* The initial states satisfy the invariant.
LEMMA InitIInv == Init => IInv
<1> SUFFICES ASSUME Init PROVE IInv
  OBVIOUS
<1>1. Cardinality({}) = 0
  BY FS_EmptySet
<1>2. TypeOK
  BY DEF Init, TypeOK, Label, Frame
<1>3. Ownership /\ CpuRecorded /\ ArgumentOK
  BY NoCpuAssumption DEF Init, Ownership, Owns, CpuRecorded, ArgumentOK, Acquiring, Releasing
<1>4. NoffCounts
  BY <1>1 DEF Init, NoffCounts, Pushed
<1>5. EnableKept /\ HandlerKept
  BY DEF Init, EnableKept, Base, HandlerKept
<1> QED
  BY <1>2, <1>3, <1>4, <1>5 DEF IInv


\* acquire() is called.
LEMMA AcquireKeeps ==
  ASSUME IInv, NEW c \in Cpu, NEW l \in Lock, Acquire(c, l)
  PROVE  IInv'
<1> USE DEF IInv, Acquire, Goto, lockVars, cpuVars, codeVars
<1>1. TypeOK'
  BY DEF TypeOK, Label, Frame, NoFrame
<1>2. Ownership' /\ CpuRecorded'
  BY NoCpuAssumption DEF TypeOK, Ownership, Owns, CpuRecorded, ArgumentOK, Acquiring, Releasing
<1>3. ArgumentOK'
  BY DEF TypeOK, Ownership, Owns, CpuRecorded, ArgumentOK, Acquiring, Releasing
<1>4. NoffCounts'
  BY LockSets DEF TypeOK, NoffCounts, Pushed, ArgumentOK, Acquiring, Releasing
<1>5. EnableKept' /\ HandlerKept'
  BY LockSets DEF TypeOK, Label, Frame, NoFrame, NoffCounts, Pushed, EnableKept, Base, HandlerKept, ArgumentOK, Releasing
<1> QED
  BY <1>1, <1>2, <1>3, <1>4, <1>5

\* push_off() turns interrupts off and counts.
LEMMA PushOffKeeps ==
  ASSUME IInv, NEW c \in Cpu, PushOff(c)
  PROVE  IInv'
<1> USE DEF IInv, PushOff, PushedIntena, Goto, lockVars
<1>1. TypeOK'
  BY DEF TypeOK, Label
<1>2. Ownership' /\ CpuRecorded'
  BY DEF TypeOK, Ownership, Owns, CpuRecorded
<1>3. ArgumentOK'
  BY DEF TypeOK, ArgumentOK, Acquiring, Releasing
<1>4. NoffCounts'
  BY HeldSets DEF TypeOK, NoffCounts, Pushed
<1>5. EnableKept'
  <2> SUFFICES ASSUME NEW d \in Cpu
               PROVE  /\ noff'[d] = 0 => (sie'[d] <=> Base(d)')
                      /\ noff'[d] = 0 /\ pc'[d] = "push_off" => (old'[d] <=> Base(d)')
                      /\ noff'[d] > 0 => ~sie'[d] /\ (intena'[d] <=> Base(d)')
    BY DEF EnableKept
  <2>1. (Base(d)' <=> Base(d)) /\ noff[d] \in Nat
    BY DEF Base, TypeOK
  <2>2. CASE d = c
    BY <2>1, <2>2 DEF TypeOK, EnableKept
  <2>3. CASE d # c
    BY <2>1, <2>3 DEF TypeOK, EnableKept
  <2> QED
    BY <2>2, <2>3
<1>6. HandlerKept'
  BY DEF HandlerKept
<1> QED
  BY <1>1, <1>2, <1>3, <1>4, <1>5, <1>6

\* holding() reads lk->locked.
LEMMA CheckLockedKeeps ==
  ASSUME IInv, NEW c \in Cpu, CheckLocked(c)
  PROVE  IInv'
<1> USE DEF IInv, CheckLocked, Goto, lockVars, cpuVars, codeVars
<1>1. TypeOK'
  BY DEF TypeOK, Label, Frame, NoFrame
<1>2. Ownership' /\ CpuRecorded'
  BY NoCpuAssumption DEF TypeOK, Ownership, Owns, CpuRecorded, ArgumentOK, Acquiring, Releasing
<1>3. ArgumentOK'
  BY DEF TypeOK, Ownership, Owns, CpuRecorded, ArgumentOK, Acquiring, Releasing
<1>4. NoffCounts'
  BY LockSets DEF TypeOK, NoffCounts, Pushed, ArgumentOK, Acquiring, Releasing
<1>5. EnableKept' /\ HandlerKept'
  BY LockSets DEF TypeOK, Label, Frame, NoFrame, NoffCounts, Pushed, EnableKept, Base, HandlerKept, ArgumentOK, Releasing
<1> QED
  BY <1>1, <1>2, <1>3, <1>4, <1>5

\* holding() reads lk->cpu.
LEMMA CheckCpuKeeps ==
  ASSUME IInv, NEW c \in Cpu, CheckCpu(c)
  PROVE  IInv'
<1> USE DEF IInv, CheckCpu, Goto, lockVars, cpuVars
<1>1. lkcpu[lk[c]] # c
  <2>1. lk[c] \in Lock /\ lk[c] \notin held[c]
    BY DEF TypeOK, ArgumentOK, Acquiring, Lock
  <2> QED
    BY <2>1 DEF CpuRecorded
<1>2. TypeOK'
  BY DEF TypeOK, Label
<1>3. Ownership' /\ CpuRecorded'
  BY <1>1 DEF TypeOK, Ownership, Owns, CpuRecorded
<1>4. ArgumentOK'
  BY <1>1 DEF TypeOK, ArgumentOK, Acquiring, Releasing
<1>5. NoffCounts'
  BY <1>1 DEF TypeOK, NoffCounts, Pushed
<1>6. EnableKept' /\ HandlerKept'
  BY <1>1 DEF TypeOK, EnableKept, Base, HandlerKept
<1> QED
  BY <1>2, <1>3, <1>4, <1>5, <1>6

\* The atomic swap of acquire().
LEMMA SwapKeeps ==
  ASSUME IInv, NEW c \in Cpu, Swap(c)
  PROVE  IInv'
<1> USE DEF IInv, Swap, SwapFree, Goto, cpuVars
<1>1. TypeOK'
  BY Zenon DEF TypeOK, Label
<1>2. lk[c] \in Lock /\ \A d \in Cpu : ~Owns(d, lk[c])
  BY DEF Ownership, ArgumentOK, Acquiring
<1>3. \A d \in Cpu, l \in Lock : Owns(d, l)' <=> Owns(d, l) \/ (d = c /\ l = lk[c])
  BY <1>2 DEF TypeOK, Owns
<1>4. Ownership'
  BY <1>2, <1>3 DEF TypeOK, Ownership
<1>5. CpuRecorded'
  BY DEF TypeOK, CpuRecorded
<1>6. ArgumentOK'
  BY DEF TypeOK, ArgumentOK, Acquiring, Releasing
<1>7. NoffCounts'
  BY DEF TypeOK, NoffCounts, Pushed
<1>8. EnableKept' /\ HandlerKept'
  BY DEF TypeOK, EnableKept, Base, HandlerKept
<1> QED
  BY <1>1, <1>4, <1>5, <1>6, <1>7, <1>8

\* acquire() records the CPU.
LEMMA SetCpuKeeps ==
  ASSUME IInv, NEW c \in Cpu, SetCpu(c)
  PROVE  IInv'
<1> USE DEF IInv, SetCpu, Goto, cpuVars
<1>1. lk[c] \in Lock /\ lk[c] \notin held[c]
  BY DEF TypeOK, ArgumentOK, Acquiring, Lock
<1>2. TypeOK'
  BY <1>1 DEF TypeOK, Label
<1>3. \A d \in Cpu, l \in Lock : Owns(d, l)' <=> Owns(d, l)
  BY <1>1 DEF TypeOK, Owns
<1>4. Ownership'
  BY <1>3 DEF Ownership
<1>5. CpuRecorded'
  <2>1. \A d \in Cpu : d # c => lk[c] \notin held[d]
    BY <1>1 DEF Ownership, Owns
  <2> QED
    BY <1>1, <2>1 DEF TypeOK, CpuRecorded
<1>6. ArgumentOK'
  BY DEF TypeOK, ArgumentOK, Acquiring, Releasing
<1>7. NoffCounts'
  <2>1. Cardinality(held'[c]) = Cardinality(held[c]) + 1
    BY <1>1, AddLock DEF TypeOK
  <2> QED
    BY <2>1, HeldSets DEF TypeOK, NoffCounts, Pushed
<1>8. EnableKept' /\ HandlerKept'
  BY DEF TypeOK, EnableKept, Base, HandlerKept
<1> QED
  BY <1>2, <1>4, <1>5, <1>6, <1>7, <1>8

\* release() is called.
LEMMA ReleaseKeeps ==
  ASSUME IInv, NEW c \in Cpu, NEW l \in Lock, Release(c, l)
  PROVE  IInv'
<1> USE DEF IInv, Release, Goto, lockVars, cpuVars, codeVars
<1>1. TypeOK'
  BY DEF TypeOK, Label, Frame, NoFrame
<1>2. Ownership' /\ CpuRecorded'
  BY NoCpuAssumption DEF TypeOK, Ownership, Owns, CpuRecorded, ArgumentOK, Acquiring, Releasing
<1>3. ArgumentOK'
  BY DEF TypeOK, Ownership, Owns, CpuRecorded, ArgumentOK, Acquiring, Releasing
<1>4. NoffCounts'
  BY LockSets DEF TypeOK, NoffCounts, Pushed, ArgumentOK, Acquiring, Releasing
<1>5. EnableKept' /\ HandlerKept'
  BY LockSets DEF TypeOK, Label, Frame, NoFrame, NoffCounts, Pushed, EnableKept, Base, HandlerKept, ArgumentOK, Releasing
<1> QED
  BY <1>1, <1>2, <1>3, <1>4, <1>5

\* release() checks that this CPU holds the lock.
LEMMA ReleaseCheckKeeps ==
  ASSUME IInv, NEW c \in Cpu, ReleaseCheck(c)
  PROVE  IInv'
<1> USE DEF IInv, ReleaseCheck, Goto, lockVars, cpuVars, codeVars
<1>1. TypeOK'
  BY DEF TypeOK, Label, Frame, NoFrame
<1>2. Ownership' /\ CpuRecorded'
  BY NoCpuAssumption DEF TypeOK, Ownership, Owns, CpuRecorded, ArgumentOK, Acquiring, Releasing
<1>3. ArgumentOK'
  BY DEF TypeOK, Ownership, Owns, CpuRecorded, ArgumentOK, Acquiring, Releasing
<1>4. NoffCounts'
  BY LockSets DEF TypeOK, NoffCounts, Pushed, ArgumentOK, Acquiring, Releasing
<1>5. EnableKept' /\ HandlerKept'
  BY LockSets DEF TypeOK, Label, Frame, NoFrame, NoffCounts, Pushed, EnableKept, Base, HandlerKept, ArgumentOK, Releasing
<1> QED
  BY <1>1, <1>2, <1>3, <1>4, <1>5

\* release() clears lk->cpu and then lk->locked.
LEMMA ReleaseStoresKeeps ==
  ASSUME IInv, NEW c \in Cpu, ReleaseStores(c)
  PROVE  IInv'
<1> USE DEF IInv, ReleaseStores, Goto, cpuVars
<1>1. lk[c] \in held[c] /\ lk[c] \in Lock
  BY DEF TypeOK, ArgumentOK, Releasing
<1>2. CASE pc[c] = "clear_cpu"
  <2> USE <1>2
  <2>1. TypeOK'
    BY DEF TypeOK, Label
  <2>2. Ownership'
    BY DEF TypeOK, Ownership, Owns
  <2>3. CpuRecorded'
    <3>1. \A d \in Cpu : d # c => lk[c] \notin held[d]
      BY <1>1 DEF Ownership, Owns
    <3> QED
      BY <1>1, <3>1, NoCpuAssumption DEF TypeOK, CpuRecorded
  <2>4. ArgumentOK' /\ NoffCounts'
    BY DEF TypeOK, ArgumentOK, Acquiring, Releasing, NoffCounts, Pushed
  <2>5. EnableKept' /\ HandlerKept'
    BY DEF TypeOK, EnableKept, Base, HandlerKept
  <2> QED
    BY <2>1, <2>2, <2>3, <2>4, <2>5
<1>3. CASE pc[c] = "unlock"
  <2> USE <1>3
  <2>1. TypeOK'
    <3>1. held' \in [Cpu -> SUBSET Lock]
      <4>1. held[c] \ {lk[c]} \in SUBSET Lock
        BY DEF TypeOK
      <4> QED
        BY <4>1 DEF TypeOK
    <3> QED
      BY <3>1, Zenon DEF TypeOK, Label
  <2>2. \A d \in Cpu, l \in Lock : Owns(d, l)' <=> Owns(d, l) /\ ~(d = c /\ l = lk[c])
    BY DEF TypeOK, Owns
  <2>3. \A d \in Cpu : Owns(d, lk[c]) => d = c
    BY <1>1 DEF Ownership, Owns
  <2>4. Ownership'
    BY <1>1, <2>2, <2>3 DEF TypeOK, Ownership
  <2>5. CpuRecorded'
    BY <1>1 DEF TypeOK, CpuRecorded
  <2>6. ArgumentOK'
    BY DEF TypeOK, ArgumentOK, Acquiring, Releasing
  <2>7. NoffCounts'
    <3>1. Cardinality(held'[c]) = Cardinality(held[c]) - 1
      BY <1>1, RemoveLock DEF TypeOK
    <3> QED
      BY <3>1, HeldSets DEF TypeOK, NoffCounts, Pushed
  <2>8. EnableKept' /\ HandlerKept'
    BY DEF TypeOK, EnableKept, Base, HandlerKept
  <2> QED
    BY <2>1, <2>4, <2>5, <2>6, <2>7, <2>8
<1> QED
  BY <1>2, <1>3

\* pop_off() counts down and may turn interrupts on.
LEMMA PopOffKeeps ==
  ASSUME IInv, NEW c \in Cpu, PopOff(c)
  PROVE  IInv'
<1> USE DEF IInv, PopOff, PoppedNoff, Goto, lockVars
<1>1. noff[c] = Cardinality(held[c]) + 1 /\ noff[c] \in Nat \ {0} /\ ~sie[c]
  BY HeldSets DEF TypeOK, NoffCounts, Pushed, EnableKept
<1>2. /\ noff' = [noff EXCEPT ![c] = noff[c] - 1]
      /\ sie' = [sie EXCEPT ![c] = noff[c] - 1 = 0 /\ intena[c]]
      /\ pc' = [pc EXCEPT ![c] = "run"]
      /\ UNCHANGED intena
  BY <1>1 DEF TypeOK
<1>3. TypeOK'
  BY <1>1, <1>2 DEF TypeOK, Label
<1>4. Ownership' /\ CpuRecorded'
  BY <1>2 DEF TypeOK, Ownership, Owns, CpuRecorded
<1>5. ArgumentOK'
  BY <1>2 DEF TypeOK, ArgumentOK, Acquiring, Releasing
<1>6. NoffCounts'
  BY <1>1, <1>2, HeldSets DEF TypeOK, NoffCounts, Pushed
<1>7. EnableKept'
  BY <1>1, <1>2 DEF TypeOK, EnableKept, Base
<1>8. HandlerKept'
  BY <1>2 DEF HandlerKept
<1> QED
  BY <1>3, <1>4, <1>5, <1>6, <1>7, <1>8

\* The kernel turns interrupts on or off while it holds no lock.
LEMMA SetIntrKeeps ==
  ASSUME IInv, NEW c \in Cpu, NEW on \in BOOLEAN, SetIntr(c, on)
  PROVE  IInv'
<1> USE DEF IInv, SetIntr, Goto, lockVars, cpuVars, codeVars
<1>1. TypeOK'
  BY DEF TypeOK, Label, Frame, NoFrame
<1>2. Ownership' /\ CpuRecorded'
  BY NoCpuAssumption DEF TypeOK, Ownership, Owns, CpuRecorded, ArgumentOK, Acquiring, Releasing
<1>3. ArgumentOK'
  BY DEF TypeOK, Ownership, Owns, CpuRecorded, ArgumentOK, Acquiring, Releasing
<1>4. NoffCounts'
  BY LockSets DEF TypeOK, NoffCounts, Pushed, ArgumentOK, Acquiring, Releasing
<1>5. EnableKept' /\ HandlerKept'
  BY LockSets DEF TypeOK, Label, Frame, NoFrame, NoffCounts, Pushed, EnableKept, Base, HandlerKept, ArgumentOK, Releasing
<1> QED
  BY <1>1, <1>2, <1>3, <1>4, <1>5

\* A device interrupt enters its handler.
LEMMA InterruptKeeps ==
  ASSUME IInv, NEW c \in Cpu, Interrupt(c)
  PROVE  IInv'
<1> USE DEF IInv, Interrupt, Goto, lockVars
<1>1. held[c] = {} /\ noff[c] = 0 /\ pc[c] \in {"run", "push_off"} /\ asked[c]
  BY Interruptible DEF EnableKept, Base
<1>2. held' = held
  BY <1>1 DEF TypeOK
<1>3. TypeOK'
  BY DEF TypeOK, Label, Frame
<1>4. saved'[c] # NoFrame
  BY <1>1 DEF TypeOK, NoFrame
<1>5. Ownership' /\ CpuRecorded'
  BY <1>1, <1>2 DEF TypeOK, Ownership, Owns, CpuRecorded
<1>6. ArgumentOK'
  BY <1>2 DEF TypeOK, ArgumentOK, Acquiring, Releasing
<1>7. NoffCounts'
  BY <1>1, <1>2, Zenon DEF TypeOK, NoffCounts, Pushed
<1>8. EnableKept'
  BY <1>1, <1>4 DEF TypeOK, EnableKept, Base
<1>9. HandlerKept'
  <2> SUFFICES ASSUME NEW d \in Cpu, saved'[d] # NoFrame
               PROVE  /\ asked'[d]
                      /\ saved'[d].held = {}
                      /\ \/ saved'[d].pc = "run"
                         \/ /\ saved'[d].pc = "push_off"
                            /\ saved'[d].lk \in Lock /\ saved'[d].old
    BY DEF HandlerKept
  <2>1. CASE d = c
    <3>1. pc[c] = "push_off" => lk[c] \in Lock /\ old[c]
      BY <1>1 DEF ArgumentOK, Acquiring, EnableKept, Base
    <3> QED
      BY <1>1, <2>1, <3>1 DEF TypeOK
  <2>2. CASE d # c
    BY <2>2 DEF TypeOK, HandlerKept
  <2> QED
    BY <2>1, <2>2
<1> QED
  BY <1>3, <1>5, <1>6, <1>7, <1>8, <1>9

\* A handler returns with the locks and the count it found.
LEMMA IntrReturnKeeps ==
  ASSUME IInv, NEW c \in Cpu, IntrReturn(c)
  PROVE  IInv'
<1> USE DEF IInv, IntrReturn, lockVars
<1>1. /\ saved[c] \in Frame /\ saved[c].held = {} /\ asked[c]
      /\ \/ saved[c].pc = "run"
         \/ saved[c].pc = "push_off" /\ saved[c].lk \in Lock /\ saved[c].old
  BY DEF TypeOK, HandlerKept
<1>2. held' = held
  BY <1>1 DEF TypeOK
<1>3. noff[c] = 0
  BY HeldSets DEF TypeOK, NoffCounts, Pushed
<1>4. TypeOK'
  BY <1>1 DEF TypeOK, Frame
<1>5. Ownership' /\ CpuRecorded'
  BY <1>1, <1>2 DEF TypeOK, Ownership, Owns, CpuRecorded
<1>6. ArgumentOK'
  BY <1>1, <1>2 DEF TypeOK, ArgumentOK, Acquiring, Releasing
<1>7. NoffCounts'
  BY <1>1, <1>2, <1>3, Zenon DEF TypeOK, NoffCounts, Pushed
<1>8. EnableKept'
  <2> SUFFICES ASSUME NEW d \in Cpu
               PROVE  /\ noff'[d] = 0 => (sie'[d] <=> Base(d)')
                      /\ noff'[d] = 0 /\ pc'[d] = "push_off" => (old'[d] <=> Base(d)')
                      /\ noff'[d] > 0 => ~sie'[d] /\ (intena'[d] <=> Base(d)')
    BY DEF EnableKept
  <2>1. CASE d = c
    <3>1. Base(c)'
      BY <1>1 DEF Base, TypeOK
    <3>2. sie'[c] /\ (pc'[c] = "push_off" => old'[c])
      BY <1>1 DEF TypeOK, Frame
    <3> QED
      BY <1>3, <2>1, <3>1, <3>2 DEF TypeOK, Base
  <2>2. CASE d # c
    <3>1. Base(d)' <=> Base(d)
      BY <2>2 DEF Base, TypeOK
    <3> QED
      BY <2>2, <3>1 DEF TypeOK, EnableKept
  <2> QED
    BY <2>1, <2>2
<1>9. HandlerKept'
  BY DEF TypeOK, HandlerKept
<1> QED
  BY <1>4, <1>5, <1>6, <1>7, <1>8, <1>9

\* Every step keeps the invariant.
LEMMA NextKeeps == IInv /\ [Next]_vars => IInv'
<1> SUFFICES ASSUME IInv, [Next]_vars PROVE IInv'
  OBVIOUS
<1>1. CASE UNCHANGED vars
  BY <1>1 DEF vars, lockVars, cpuVars, codeVars, IInv, TypeOK, Ownership, Owns,
     CpuRecorded, ArgumentOK, NoffCounts, Pushed, EnableKept, Base, HandlerKept
<1>2. CASE Next
  BY <1>2, AcquireKeeps, ReleaseKeeps, PushOffKeeps, CheckLockedKeeps, CheckCpuKeeps,
     SwapKeeps, SetCpuKeeps, ReleaseCheckKeeps, ReleaseStoresKeeps, PopOffKeeps,
     SetIntrKeeps, InterruptKeeps, IntrReturnKeeps DEF Next
<1> QED
  BY <1>1, <1>2

-----------------------------------------------------------------------------
\* Every reachable state of spinlock.c's locks, CPUs and callers satisfies the
\* inductive invariant.
THEOREM Invariance == Spec => []IInv
BY InitIInv, NextKeeps, PTL DEF Spec

\* Every variable of the spinlock model keeps its type.
THEOREM TypeCorrect == Spec => []TypeOK
<1>1. IInv => TypeOK
  BY DEF IInv
<1> QED
  BY <1>1, Invariance, PTL

\* acquire() and release() give mutual exclusion for any number of CPUs.
THEOREM Exclusive == Spec => []MutualExclusion
<1>1. IInv => MutualExclusion
  BY DEF IInv, TypeOK, Ownership, Owns, MutualExclusion
<1> QED
  BY <1>1, Invariance, PTL

\* None of the panics of acquire(), release() and pop_off() is reachable.
THEOREM PanicFree == Spec => []NoPanic
<1>1. IInv => NoPanic
  BY DEF IInv, ArgumentOK, NoPanic
<1> QED
  BY <1>1, Invariance, PTL

\* No interrupt handler runs on a CPU whose interrupted code holds a lock.
THEOREM HandlerCannotSelfDeadlock == Spec => []NoIntrWhileHolding
<1>1. IInv => NoIntrWhileHolding
  <2> SUFFICES ASSUME IInv, NEW c \in Cpu
               PROVE  /\ held[c] # {} => ~sie[c]
                      /\ saved[c] # NoFrame => saved[c].held = {}
    BY DEF NoIntrWhileHolding
  <2> QED
    BY Interruptible DEF IInv, HandlerKept
<1> QED
  BY <1>1, Invariance, PTL

\* push_off() and pop_off() restore the interrupt enable.
THEOREM EnableRestored == Spec => []IntrRestored
<1>1. IInv => IntrRestored
  <2> SUFFICES ASSUME IInv, NEW c \in Cpu, pc[c] = "run", held[c] = {}, saved[c] = NoFrame
               PROVE  sie[c] <=> asked[c]
    BY DEF IntrRestored
  <2>1. noff[c] = 0
    BY HeldSets DEF IInv, NoffCounts, Pushed
  <2> QED
    BY <2>1 DEF IInv, TypeOK, EnableKept, Base
<1> QED
  BY <1>1, Invariance, PTL

=============================================================================
