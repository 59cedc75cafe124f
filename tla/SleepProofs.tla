----------------------------- MODULE SleepProofs -----------------------------
(***************************************************************************)
(* Where a process, its p->lock, its CPU and the caller's lock are while it*)
(* sleeps, wakes others, is killed or preempted, or is interrupted by a    *)
(* handler: an invariant of Sleep and of the clock, for any number of      *)
(* processes and CPUs and any channels.                                    *)
(***************************************************************************)
EXTENDS Clock, TLAPS

Labels == {"user", "locked", "sleep", "sleep_release", "relock", "wakeup", "sched", "switched"}

TypeOK ==
  /\ state \in [Proc -> {"RUNNABLE", "RUNNING", "SLEEPING"}]
  /\ chan \in [Proc -> Channels \cup {None}] /\ arg \in [Proc -> Channels \cup {None}]
  /\ killed \in [Proc -> BOOLEAN]
  /\ plock \in [Proc -> Proc \cup {None}]
  /\ cproc \in [Cpu -> Proc \cup {None}] /\ scan \in [Cpu -> Proc]
  /\ pc \in [Proc -> Labels] /\ ret \in [Proc -> Unlocked]
  /\ lk \in Proc \cup Cpu \cup {None}
  /\ idx \in [Proc -> Proc]
  /\ irq \in [Cpu -> Handlers \cup {None}]

\* A process is on one CPU at most.
OneCpu == \A c, d \in Cpu : cproc[c] # None /\ cproc[c] = cproc[d] => c = d

\* What p->state and p->lock are, from where the process is.
Place(p) ==
  /\ pc[p] # "switched" => OnCpu(p)
  /\ pc[p] = "sched" => state[p] # "RUNNING"
  /\ pc[p] # "sched" => (state[p] = "RUNNING" <=> OnCpu(p))
  /\ plock[p] = IF pc[p] \in {"sched", "sleep_release"} \/ (pc[p] = "switched" /\ OnCpu(p))
                THEN p ELSE None
  /\ state[p] = "SLEEPING" => chan[p] # None
  /\ pc[p] \in {"sleep", "sleep_release", "wakeup"} => arg[p] # None

\* Who has lk.
HasLk(p)     == pc[p] \in {"locked", "sleep", "sleep_release", "wakeup"}
IntrHasLk(c) == irq[c] # None /\ irq[c].pc \in {"locked", "wakeup", "unlock"}

Owner == /\ \A p \in Proc : lk = p <=> HasLk(p)
         /\ \A c \in Cpu : lk = c <=> IntrHasLk(c)

\* What a handler has interrupted.
Interrupted(c) ==
  irq[c] # None => /\ cproc[c] # None => pc[cproc[c]] \in Unlocked
                   /\ irq[c].pc \in {"lock", "locked"} => irq[c].i = 1
                   /\ irq[c].pc = "yield" => cproc[c] # None

SInv == /\ TypeOK /\ OneCpu /\ Owner
        /\ \A p \in Proc : Place(p)
        /\ \A c \in Cpu : Interrupted(c)
-----------------------------------------------------------------------------
(* Steps that leave the processes on their CPUs.                           *)

\* None is nothing else, and no process is a CPU.
LEMMA NoneApart ==
  /\ None \notin Proc /\ None \notin Cpu /\ None \notin Channels /\ None \notin Handlers
  /\ \A p \in Proc, c \in Cpu : p # c
<1>1. None \notin Proc
  BY NoneAssumption DEF Proc
<1>2. None \notin Channels
  BY ChanAssumption, ClockAssumption DEF Channels
<1>3. None \notin Handlers
  BY ClockAssumption
<1> QED
  BY <1>1, <1>2, <1>3, ChanAssumption, ClockAssumption

\* The loops over proc[] stay inside it.
LEMMA NextSlotIn == ASSUME NEW i \in Proc PROVE NextSlot(i) \in Proc
BY NPROCAssumption DEF NextSlot, Proc

\* A CPU loses its process, or gets one that is on no other.
LEMMA OneCpuKept ==
  ASSUME OneCpu, NEW c \in Cpu, \A d \in Cpu \ {c} : cproc'[d] = cproc[d],
         cproc'[c] = None \/ \A d \in Cpu : cproc[d] # cproc'[c]
  PROVE  OneCpu'
BY DEF OneCpu

\* wakeup() and kill() make sleepers RUNNABLE.
MayWake(q) == state'[q] = state[q] \/ (state[q] = "SLEEPING" /\ state'[q] = "RUNNABLE")

\* lk is taken or given back by x, or stays with whom it is.
LkStep(x) == lk' = lk \/ (lk = None /\ lk' = x) \/ (lk = x /\ lk' = None)

\* Place(q) depends only on what is q's own.
LEMMA PlaceSame ==
  ASSUME NEW q \in Proc, Place(q), OnCpu(q)' <=> OnCpu(q), MayWake(q),
         pc'[q] = pc[q], chan'[q] = chan[q], plock'[q] = plock[q], arg'[q] = arg[q]
  PROVE  Place(q)'
BY DEF Place, MayWake

LEMMA PlaceKept ==
  ASSUME NEW q \in Proc, Place(q), cproc' = cproc, MayWake(q),
         pc'[q] = pc[q], chan'[q] = chan[q], plock'[q] = plock[q], arg'[q] = arg[q]
  PROVE  Place(q)'
<1>1. OnCpu(q)' = OnCpu(q)
  BY DEF OnCpu
<1> QED
  BY <1>1, PlaceSame

\* A step of the process p on a CPU.
LEMMA ProcStep ==
  ASSUME SInv, NEW p \in Proc, Runs(p), TypeOK', cproc' = cproc, irq' = irq,
         \A q \in Proc \ {p} : /\ pc'[q] = pc[q] /\ chan'[q] = chan[q] /\ plock'[q] = plock[q]
                               /\ arg'[q] = arg[q] /\ MayWake(q),
         Place(p)', LkStep(p), lk' = p <=> HasLk(p)'
  PROVE  SInv'
<1> USE DEF SInv
<1>1. OneCpu'
  BY DEF OneCpu
<1>2. Owner'
  <2>1. ASSUME NEW q \in Proc PROVE lk' = q <=> HasLk(q)'
    <3>1. CASE q = p
      BY <3>1
    <3>2. CASE q # p
      BY <3>2, NoneApart DEF Owner, HasLk, LkStep
    <3> QED
      BY <3>1, <3>2
  <2>2. ASSUME NEW c \in Cpu PROVE lk' = c <=> IntrHasLk(c)'
    <3>1. IntrHasLk(c)' <=> IntrHasLk(c)
      BY DEF IntrHasLk
    <3> QED
      BY <3>1, NoneApart DEF Owner, LkStep
  <2> QED
    BY <2>1, <2>2 DEF Owner
<1>3. ASSUME NEW q \in Proc PROVE Place(q)'
  <2>1. CASE q # p
    BY <2>1, PlaceKept
  <2> QED
    BY <2>1
<1>4. ASSUME NEW c \in Cpu PROVE Interrupted(c)'
  <2>1. PICK d \in Cpu : cproc[d] = p /\ irq[d] = None
    BY DEF Runs
  <2>2. CASE irq[c] # None
    <3>1. cproc[c] # p
      BY <2>1, <2>2, NoneApart DEF OneCpu
    <3>2. cproc[c] # None => cproc[c] \in Proc \ {p}
      BY <3>1 DEF TypeOK
    <3> QED
      BY <3>2 DEF Interrupted
  <2>3. CASE irq[c] = None
    BY <2>3 DEF Interrupted
  <2> QED
    BY <2>2, <2>3
<1> QED
  BY <1>1, <1>2, <1>3, <1>4

\* A step of the handler on CPU c, after which it is at h.
LEMMA HandlerStep ==
  ASSUME SInv, NEW c \in Cpu, NEW h \in Handlers \cup {None}, irq' = [irq EXCEPT ![c] = h],
         UNCHANGED <<chan, killed, plock, cproc, scan, pc, ret, arg, idx>>,
         state' \in [Proc -> {"RUNNABLE", "RUNNING", "SLEEPING"}], \A q \in Proc : MayWake(q),
         LkStep(c), lk' = c <=> h # None /\ h.pc \in {"locked", "wakeup", "unlock"},
         h # None => /\ cproc[c] # None => pc[cproc[c]] \in Unlocked
                     /\ h.pc \in {"lock", "locked"} => h.i = 1
                     /\ h.pc = "yield" => cproc[c] # None
  PROVE  SInv'
<1> USE DEF SInv
<1>1. irq'[c] = h /\ \A d \in Cpu \ {c} : irq'[d] = irq[d]
  BY DEF TypeOK
<1>2. TypeOK'
  BY DEF TypeOK, LkStep
<1>3. OneCpu'
  BY DEF OneCpu
<1>4. Owner'
  <2>1. ASSUME NEW q \in Proc PROVE lk' = q <=> HasLk(q)'
    BY NoneApart DEF Owner, HasLk, LkStep
  <2>2. ASSUME NEW d \in Cpu PROVE lk' = d <=> IntrHasLk(d)'
    <3>1. CASE d = c
      BY <1>1, <3>1 DEF IntrHasLk
    <3>2. CASE d # c
      BY <1>1, <3>2, NoneApart DEF Owner, IntrHasLk, LkStep
    <3> QED
      BY <3>1, <3>2
  <2> QED
    BY <2>1, <2>2 DEF Owner
<1>5. ASSUME NEW q \in Proc PROVE Place(q)'
  BY PlaceKept
<1>6. ASSUME NEW d \in Cpu PROVE Interrupted(d)'
  <2>1. CASE d = c
    BY <1>1, <2>1 DEF Interrupted
  <2>2. CASE d # c
    BY <1>1, <2>2 DEF Interrupted
  <2> QED
    BY <2>1, <2>2
<1> QED
  BY <1>2, <1>3, <1>4, <1>5, <1>6

-----------------------------------------------------------------------------
(* Every step keeps the invariant.                                         *)

\* A process that holds no p->lock goes on at l.
LEMMA GoesOn ==
  ASSUME SInv, NEW p \in Proc, Runs(p), pc[p] \in {"user", "locked", "relock"},
         NEW l \in {"user", "locked", "sleep", "wakeup"}, Goto(p, l),
         UNCHANGED <<state, chan, killed, plock, cproc, scan, ret, irq>>,
         arg' \in [Proc -> Channels \cup {None}], \A q \in Proc \ {p} : arg'[q] = arg[q],
         l \in {"sleep", "wakeup"} => arg'[p] # None,
         idx' \in [Proc -> Proc],
         LkStep(p), lk' = p <=> l # "user"
  PROVE  SInv'
<1> USE DEF Goto, SInv
<1>1. pc'[p] = l /\ \A q \in Proc \ {p} : pc'[q] = pc[q]
  BY DEF TypeOK
<1>2. TypeOK'
  BY Zenon DEF TypeOK, LkStep, Labels
<1>3. Place(p)'
  <2>1. Place(p) /\ OnCpu(p)' = OnCpu(p)
    BY DEF OnCpu
  <2> QED
    BY <1>1, <2>1 DEF Place
<1>4. lk' = p <=> HasLk(p)'
  BY <1>1 DEF HasLk
<1> QED
  BY <1>1, <1>2, <1>3, <1>4, ProcStep DEF MayWake

\* The caller's acquire(lk).
LEMMA EnterKeeps == ASSUME SInv, NEW p \in Proc, Runs(p), Enter(p) PROVE SInv'
<1>1. LkStep(p) /\ lk' = p /\ pc[p] = "user" /\ Goto(p, "locked")
  BY DEF Enter, LkStep, At
<1> QED
  BY <1>1, GoesOn DEF Enter, SInv, TypeOK

\* The caller's release(lk).
LEMMA LeaveKeeps == ASSUME SInv, NEW p \in Proc, Runs(p), Leave(p) PROVE SInv'
<1>1. LkStep(p) /\ lk' # p /\ pc[p] = "locked" /\ Goto(p, "user")
  BY NoneApart DEF Leave, LkStep, At, SInv, Owner, HasLk
<1> QED
  BY <1>1, GoesOn DEF Leave, SInv, TypeOK

\* The caller calls sleep() with lk held.
LEMMA CallSleepKeeps ==
  ASSUME SInv, NEW p \in Proc, Runs(p), NEW ch \in Channels, CallSleep(p, ch) PROVE SInv'
<1>1. LkStep(p) /\ lk' = p /\ pc[p] = "locked" /\ Goto(p, "sleep")
  BY DEF CallSleep, LkStep, At, SInv, Owner, HasLk
<1>2. /\ arg' \in [Proc -> Channels \cup {None}] /\ arg'[p] = ch
      /\ \A q \in Proc \ {p} : arg'[q] = arg[q]
  BY DEF CallSleep, SInv, TypeOK
<1> QED
  BY <1>1, <1>2, NoneApart, GoesOn DEF CallSleep, SInv, TypeOK

\* The caller calls wakeup() with lk held.
LEMMA CallWakeupKeeps ==
  ASSUME SInv, NEW p \in Proc, Runs(p), NEW ch \in Channels, CallWakeup(p, ch) PROVE SInv'
<1>1. LkStep(p) /\ lk' = p /\ pc[p] = "locked" /\ Goto(p, "wakeup")
  BY DEF CallWakeup, LkStep, At, SInv, Owner, HasLk
<1>2. /\ arg' \in [Proc -> Channels \cup {None}] /\ arg'[p] = ch
      /\ \A q \in Proc \ {p} : arg'[q] = arg[q]
  BY DEF CallWakeup, SInv, TypeOK
<1>3. idx' \in [Proc -> Proc]
  BY NPROCAssumption DEF CallWakeup, SInv, TypeOK, Proc
<1> QED
  BY <1>1, <1>2, <1>3, NoneApart, GoesOn DEF CallWakeup

\* sleep() has lk again.
LEMMA RelockKeeps == ASSUME SInv, NEW p \in Proc, Runs(p), Relock(p) PROVE SInv'
<1>1. LkStep(p) /\ lk' = p /\ pc[p] = "relock" /\ Goto(p, "locked")
  BY DEF Relock, LkStep, At
<1>2. arg' \in [Proc -> Channels \cup {None}] /\ \A q \in Proc \ {p} : arg'[q] = arg[q]
  BY DEF Relock, SInv, TypeOK
<1> QED
  BY <1>1, <1>2, GoesOn DEF Relock, SInv, TypeOK

\* sleep() takes p->lock.
LEMMA SleepLockKeeps == ASSUME SInv, NEW p \in Proc, Runs(p), SleepLock(p) PROVE SInv'
<1> USE DEF SleepLock, SleepAcquire, At, Goto, SInv
<1>1. /\ pc'[p] = "sleep_release" /\ \A q \in Proc \ {p} : pc'[q] = pc[q]
      /\ plock'[p] = p /\ \A q \in Proc \ {p} : plock'[q] = plock[q]
  BY DEF TypeOK
<1>2. TypeOK'
  BY DEF TypeOK, Labels
<1>3. Place(p)'
  <2>1. Place(p) /\ OnCpu(p)' = OnCpu(p)
    BY DEF OnCpu
  <2> QED
    BY <1>1, <2>1 DEF Place
<1>4. LkStep(p) /\ (lk' = p <=> HasLk(p)')
  BY <1>1 DEF HasLk, LkStep, Owner
<1> QED
  BY <1>1, <1>2, <1>3, <1>4, ProcStep DEF MayWake

\* sleep() releases lk and marks p asleep.
LEMMA SleepUnlockKeeps == ASSUME SInv, NEW p \in Proc, Runs(p), SleepUnlock(p) PROVE SInv'
<1> USE DEF SleepUnlock, SleepRelease, At, Goto, SInv
<1>1. /\ pc'[p] = "sched" /\ \A q \in Proc \ {p} : pc'[q] = pc[q]
      /\ state'[p] = "SLEEPING" /\ \A q \in Proc \ {p} : state'[q] = state[q]
      /\ chan'[p] = arg[p] /\ \A q \in Proc \ {p} : chan'[q] = chan[q]
  BY DEF TypeOK
<1>2. TypeOK'
  BY DEF TypeOK, Labels, Unlocked
<1>3. Place(p)'
  <2>1. Place(p) /\ OnCpu(p)' = OnCpu(p)
    BY DEF OnCpu
  <2> QED
    BY <1>1, <2>1 DEF Place
<1>4. LkStep(p) /\ (lk' = p <=> HasLk(p)')
  BY <1>1, NoneApart DEF HasLk, LkStep, Owner
<1> QED
  BY <1>1, <1>2, <1>3, <1>4, ProcStep DEF MayWake

\* An iteration of wakeup()'s loop makes at most one sleeper RUNNABLE.
LEMMA WakeupOneWakes ==
  ASSUME SInv, NEW p, NEW q \in Proc, NEW ch, WakeupOne(p, q, ch)
  PROVE  /\ state' \in [Proc -> {"RUNNABLE", "RUNNING", "SLEEPING"}]
         /\ \A r \in Proc : MayWake(r)
         /\ \A r \in Proc \ {q} : state'[r] = state[r]
BY DEF WakeupOne, SInv, TypeOK, MayWake

\* An iteration of wakeup()'s loop in a process.
LEMMA WakeupKeeps == ASSUME SInv, NEW p \in Proc, Runs(p), Wakeup(p) PROVE SInv'
<1> USE DEF SInv
<1>1. /\ pc[p] = "wakeup" /\ WakeupOne(p, idx[p], arg[p]) /\ lk' = lk /\ irq' = irq
      /\ idx[p] \in Proc
  BY DEF Wakeup, At, TypeOK
<1>2. UNCHANGED <<chan, killed, plock, cproc, scan, ret>>
  BY <1>1 DEF WakeupOne
<1>3. /\ state' \in [Proc -> {"RUNNABLE", "RUNNING", "SLEEPING"}] /\ \A q \in Proc : MayWake(q)
  BY <1>1, WakeupOneWakes
<1>4. idx' \in [Proc -> Proc]
  <2>1. NextSlot(idx[p]) \in Proc
    BY <1>1, NextSlotIn
  <2> QED
    BY <2>1 DEF Wakeup, TypeOK
<1>5. /\ pc' \in [Proc -> Labels] /\ arg' \in [Proc -> Channels \cup {None}]
      /\ (pc'[p] = "wakeup" /\ arg'[p] = arg[p]) \/ pc'[p] = "locked"
      /\ \A q \in Proc \ {p} : pc'[q] = pc[q] /\ arg'[q] = arg[q]
  <2>1. CASE idx[p] = NPROC
    BY <2>1 DEF Wakeup, Goto, TypeOK, Labels
  <2>2. CASE idx[p] # NPROC
    BY <1>1, <2>2 DEF Wakeup, TypeOK
  <2> QED
    BY <2>1, <2>2
<1>6. TypeOK'
  BY <1>1, <1>2, <1>3, <1>4, <1>5 DEF TypeOK
<1>7. Place(p)'
  <2>1. Place(p) /\ OnCpu(p)' = OnCpu(p)
    BY <1>2 DEF OnCpu
  <2> QED
    BY <1>1, <1>2, <1>3, <1>5, <2>1 DEF Place, MayWake
<1>8. LkStep(p) /\ (lk' = p <=> HasLk(p)')
  BY <1>1, <1>5 DEF HasLk, LkStep, Owner
<1> QED
  BY <1>1, <1>2, <1>3, <1>5, <1>6, <1>7, <1>8, ProcStep

\* kill() of any process.
LEMMA KillKeeps == ASSUME SInv, NEW p \in Proc, Runs(p), NEW q \in Proc, Kill(p, q) PROVE SInv'
<1> USE DEF SInv
<1>1. UNCHANGED <<chan, plock, cproc, scan, ret, pc, lk, arg, idx, irq>>
  BY DEF Kill, KillOne
<1>2. /\ state' \in [Proc -> {"RUNNABLE", "RUNNING", "SLEEPING"}] /\ \A r \in Proc : MayWake(r)
  BY DEF Kill, KillOne, TypeOK, MayWake
<1>3. killed' \in [Proc -> BOOLEAN]
  BY DEF Kill, KillOne, TypeOK
<1>4. TypeOK'
  BY <1>1, <1>2, <1>3 DEF TypeOK
<1>5. Place(p)'
  BY <1>1, <1>2, PlaceKept
<1>6. LkStep(p) /\ (lk' = p <=> HasLk(p)')
  BY <1>1 DEF HasLk, LkStep, Owner
<1> QED
  BY <1>1, <1>2, <1>4, <1>5, <1>6, ProcStep

\* yield(), up to sched().
LEMMA YieldEffect ==
  ASSUME SInv, NEW p \in Proc, Yield(p, Unlocked)
  PROVE  /\ pc[p] \in Unlocked /\ pc' \in [Proc -> Labels] /\ pc'[p] = "sched"
         /\ \A q \in Proc \ {p} : pc'[q] = pc[q] /\ plock'[q] = plock[q] /\ state'[q] = state[q]
         /\ plock' \in [Proc -> Proc \cup {None}] /\ ret' \in [Proc -> Unlocked]
         /\ state' \in [Proc -> {"RUNNABLE", "RUNNING", "SLEEPING"}]
         /\ UNCHANGED <<chan, killed, cproc, scan>>
         /\ state[p] = "RUNNING" /\ state'[p] = "RUNNABLE"
         /\ arg' = arg => Place(p)'
<1> USE DEF Yield, Goto, SInv
<1>1. /\ pc' \in [Proc -> Labels] /\ plock' \in [Proc -> Proc \cup {None}]
      /\ ret' \in [Proc -> Unlocked] /\ state' \in [Proc -> {"RUNNABLE", "RUNNING", "SLEEPING"}]
  BY DEF TypeOK, Labels
<1>2. /\ pc[p] \in Unlocked /\ pc'[p] = "sched" /\ plock'[p] = p /\ state'[p] = "RUNNABLE"
      /\ \A q \in Proc \ {p} : pc'[q] = pc[q] /\ plock'[q] = plock[q] /\ state'[q] = state[q]
  BY DEF TypeOK
<1>3. Place(p) /\ OnCpu(p) /\ OnCpu(p)' = OnCpu(p)
  BY DEF OnCpu
<1>4. state[p] = "RUNNING"
  BY <1>2, <1>3 DEF Place, Unlocked
<1>5. arg' = arg => Place(p)'
  BY <1>2, <1>3 DEF Place
<1> QED
  BY <1>1, <1>2, <1>4, <1>5

\* The timer preempts a process.
LEMMA PreemptKeeps == ASSUME SInv, NEW p \in Proc, Runs(p), Preempt(p) PROVE SInv'
<1> USE DEF SInv
<1>1. UNCHANGED <<lk, arg, idx, irq>> /\ Yield(p, Unlocked)
  BY DEF Preempt
<1>2. TypeOK'
  BY <1>1, YieldEffect DEF TypeOK
<1>3. LkStep(p) /\ (lk' = p <=> HasLk(p)')
  BY Zenon, <1>1, YieldEffect DEF HasLk, LkStep, Owner, Unlocked
<1> QED
  BY Zenon, <1>1, <1>2, <1>3, YieldEffect, ProcStep DEF MayWake

\* A process comes back from swtch().
LEMMA ResumeKeeps ==
  ASSUME SInv, NEW p \in Proc, Runs(p), Resume(p), UNCHANGED <<lk, arg, idx, irq>>
  PROVE  SInv'
<1> USE DEF Resume, At, Goto, SInv
<1>1. /\ pc[p] = "switched" /\ pc'[p] \in Unlocked /\ plock'[p] = None
      /\ \A q \in Proc \ {p} : pc'[q] = pc[q] /\ plock'[q] = plock[q] /\ chan'[q] = chan[q]
  BY DEF TypeOK
<1>2. TypeOK'
  BY DEF TypeOK, Labels, Unlocked
<1>3. Place(p)'
  <2>1. Place(p) /\ OnCpu(p) /\ OnCpu(p)' = OnCpu(p)
    BY DEF OnCpu
  <2> QED
    BY <1>1, <2>1 DEF Place, Unlocked
<1>4. LkStep(p) /\ (lk' = p <=> HasLk(p)')
  BY <1>1 DEF HasLk, LkStep, Owner, Unlocked
<1> QED
  BY Zenon, <1>1, <1>2, <1>3, <1>4, ProcStep DEF MayWake

\* A process leaves its CPU.
LEMMA SchedOutKeeps ==
  ASSUME SInv, NEW p \in Proc, Runs(p), SchedOut(p), UNCHANGED <<lk, arg, idx, irq>>
  PROVE  SInv'
<1> USE DEF SInv
<1>1. PICK c \in Cpu : /\ cproc[c] = p /\ cproc' = [cproc EXCEPT ![c] = None]
                       /\ scan' = [scan EXCEPT ![c] = AfterRun(@)]
  BY Zenon DEF SchedOut
<1>2. /\ pc[p] = "sched" /\ pc' = [pc EXCEPT ![p] = "switched"] /\ plock' = [plock EXCEPT ![p] = None]
      /\ UNCHANGED <<state, chan, killed, ret>>
  BY DEF SchedOut, At, Goto
<1>3. /\ pc'[p] = "switched" /\ plock'[p] = None /\ cproc'[c] = None
      /\ \A q \in Proc \ {p} : pc'[q] = pc[q] /\ plock'[q] = plock[q]
      /\ \A d \in Cpu \ {c} : cproc'[d] = cproc[d]
  BY <1>1, <1>2 DEF TypeOK
<1>4. irq[c] = None /\ \A d \in Cpu \ {c} : cproc[d] # p
  BY <1>1, NoneApart DEF Runs, OneCpu
<1>5. TypeOK'
  <2>1. AfterRun(scan[c]) \in Proc
    <3>1. scan[c] \in Proc
      BY DEF TypeOK
    <3> QED
      BY <3>1, NextSlotIn DEF AfterRun
  <2>2. scan' \in [Cpu -> Proc] /\ cproc' \in [Cpu -> Proc \cup {None}]
    BY <1>1, <2>1 DEF TypeOK
  <2> QED
    BY <1>2, <2>2 DEF TypeOK, Labels
<1>6. OneCpu'
  BY <1>3, OneCpuKept
<1>7. Owner'
  BY <1>2, <1>3 DEF Owner, HasLk, IntrHasLk
<1>8. ASSUME NEW q \in Proc PROVE Place(q)'
  <2>1. CASE q = p
    <3>1. ~OnCpu(p)'
      BY <1>3, <1>4, NoneApart DEF OnCpu
    <3>2. Place(p)
      OBVIOUS
    <3> QED
      BY <1>2, <1>3, <2>1, <3>1, <3>2 DEF Place
  <2>2. CASE q # p
    <3>1. OnCpu(q)' <=> OnCpu(q)
      BY <1>1, <1>3, <2>2, NoneApart DEF OnCpu
    <3>2. Place(q)
      OBVIOUS
    <3>3. /\ pc'[q] = pc[q] /\ chan'[q] = chan[q] /\ plock'[q] = plock[q] /\ arg'[q] = arg[q]
          /\ MayWake(q)
      BY <1>2, <1>3, <2>2 DEF MayWake
    <3> QED
      BY Zenon, <3>1, <3>2, <3>3, PlaceSame
  <2> QED
    BY <2>1, <2>2
<1>9. ASSUME NEW d \in Cpu PROVE Interrupted(d)'
  <2>1. CASE d = c
    BY <1>4, <2>1 DEF Interrupted
  <2>2. CASE d # c
    <3>1. cproc'[d] = cproc[d] /\ (cproc[d] # None => cproc[d] \in Proc \ {p})
      BY <1>3, <1>4, <2>2 DEF TypeOK
    <3> QED
      BY <1>3, <3>1 DEF Interrupted
  <2> QED
    BY <2>1, <2>2
<1> QED
  BY <1>5, <1>6, <1>7, <1>8, <1>9

\* An iteration of scheduler()'s loop.
LEMMA ScheduleKeeps == ASSUME SInv, NEW c \in Cpu, irq[c] = None, Schedule(c) PROVE SInv'
<1> USE DEF SInv
<1>1. /\ cproc[c] = None /\ plock[scan[c]] = None
      /\ UNCHANGED <<chan, killed, pc, ret, lk, arg, idx, irq>>
  BY DEF Schedule, Scheduler, CanLook
<1>2. PICK p \in Proc : p = scan[c]
  BY DEF TypeOK
<1>3. CASE state[p] = "RUNNABLE"
  <2>1. /\ state' = [state EXCEPT ![p] = "RUNNING"] /\ cproc' = [cproc EXCEPT ![c] = p]
        /\ plock' = [plock EXCEPT ![p] = p] /\ scan' = scan
    BY <1>2, <1>3 DEF Schedule, Scheduler
  <2>2. /\ state'[p] = "RUNNING" /\ plock'[p] = p /\ cproc'[c] = p
        /\ \A q \in Proc \ {p} : state'[q] = state[q] /\ plock'[q] = plock[q]
        /\ \A d \in Cpu \ {c} : cproc'[d] = cproc[d]
    BY <2>1 DEF TypeOK
  <2>3. Place(p)
    OBVIOUS
  <2>4. pc[p] = "switched" /\ ~OnCpu(p)
    BY <1>1, <1>2, <1>3, <2>3, NoneApart DEF Place
  <2>5. TypeOK'
    BY <1>1, <2>1 DEF TypeOK
  <2>6. OneCpu'
    <3>1. \A d \in Cpu : cproc[d] # p
      BY <2>4 DEF OnCpu
    <3> QED
      BY <2>2, <3>1, OneCpuKept, Zenon
  <2>7. Owner'
    BY Zenon, <1>1 DEF Owner, HasLk, IntrHasLk
  <2>8. ASSUME NEW q \in Proc PROVE Place(q)'
    <3>1. CASE q = p
      <4>1. OnCpu(p)'
        BY <2>2 DEF OnCpu
      <4> QED
        BY <1>1, <2>2, <2>3, <2>4, <3>1, <4>1 DEF Place
    <3>2. CASE q # p
      <4>1. OnCpu(q)' <=> OnCpu(q)
        BY <1>1, <2>2, <3>2, NoneApart DEF OnCpu
      <4>2. Place(q)
        OBVIOUS
      <4>3. /\ pc'[q] = pc[q] /\ chan'[q] = chan[q] /\ plock'[q] = plock[q] /\ arg'[q] = arg[q]
            /\ MayWake(q)
        BY <1>1, <2>2, <3>2 DEF MayWake
      <4> QED
        BY Zenon, <4>1, <4>2, <4>3, PlaceSame
    <3> QED
      BY <3>1, <3>2
  <2>9. ASSUME NEW d \in Cpu PROVE Interrupted(d)'
    <3>1. CASE d = c
      BY <1>1, <3>1 DEF Interrupted
    <3>2. CASE d # c
      BY <1>1, <2>2, <3>2 DEF Interrupted
    <3> QED
      BY <3>1, <3>2
  <2> QED
    BY <2>5, <2>6, <2>7, <2>8, <2>9
<1>4. CASE state[p] # "RUNNABLE"
  <2>1. scan' = [scan EXCEPT ![c] = NextSlot(p)] /\ UNCHANGED <<state, cproc, plock>>
    BY <1>2, <1>4 DEF Schedule, Scheduler
  <2>2. NextSlot(p) \in Proc
    BY NextSlotIn
  <2>3. TypeOK'
    BY <1>1, <2>1, <2>2 DEF TypeOK
  <2>4. OneCpu' /\ Owner'
    BY Zenon, <1>1, <2>1 DEF OneCpu, Owner, HasLk, IntrHasLk
  <2>5. ASSUME NEW q \in Proc PROVE Place(q)'
    BY Zenon, <1>1, <2>1, PlaceKept DEF MayWake
  <2>6. ASSUME NEW d \in Cpu PROVE Interrupted(d)'
    BY <1>1, <2>1, Zenon DEF Interrupted
  <2> QED
    BY <2>3, <2>4, <2>5, <2>6
<1> QED
  BY <1>3, <1>4

-----------------------------------------------------------------------------
(* Interrupt handlers.                                                     *)

\* An interrupt comes.
LEMMA InterruptKeeps ==
  ASSUME SInv, NEW c \in Cpu, NEW ch \in Channels, Interrupt(c, ch) PROVE SInv'
<1> DEFINE h == [pc |-> "lock", ch |-> ch, i |-> 1]
<1>1. h \in Handlers /\ h # None /\ h.pc = "lock" /\ h.i = 1
  BY NPROCAssumption, NoneApart DEF Handlers, Proc
<1>2. irq[c] = None /\ irq' = [irq EXCEPT ![c] = h] /\ UNCHANGED <<schedVars, lk, arg, idx>>
      /\ (cproc[c] # None => pc[cproc[c]] \in Unlocked)
  BY DEF Interrupt, Handler
<1>3. LkStep(c) /\ lk' # c
  BY <1>2 DEF LkStep, SInv, Owner, IntrHasLk
<1> HIDE DEF h
<1>4. state' \in [Proc -> {"RUNNABLE", "RUNNING", "SLEEPING"}] /\ \A q \in Proc : MayWake(q)
  BY <1>2 DEF SInv, TypeOK, schedVars, MayWake
<1> QED
  BY Zenon, <1>1, <1>2, <1>3, <1>4, HandlerStep DEF schedVars

\* What a handler at a label is.
LEMMA HandlerAt ==
  ASSUME SInv, NEW c \in Cpu, NEW l \in {"lock", "locked", "wakeup", "unlock", "yield"}, InHandler(c, l)
  PROVE  /\ irq[c] \in Handlers /\ irq[c].pc = l /\ irq[c].i \in Proc /\ irq[c].ch \in Channels
         /\ cproc[c] # None => pc[cproc[c]] \in Unlocked
         /\ l \in {"lock", "locked"} => irq[c].i = 1
         /\ lk = c <=> l \in {"locked", "wakeup", "unlock"}
<1>1. irq[c] \in Handlers /\ irq[c].pc = l
  BY DEF InHandler, SInv, TypeOK
<1>2. irq[c].i \in Proc /\ irq[c].ch \in Channels
  BY <1>1 DEF Handlers
<1>3. irq[c] # None
  BY DEF InHandler
<1>4. Interrupted(c) /\ (lk = c <=> IntrHasLk(c))
  BY DEF SInv, Owner
<1> QED
  BY <1>1, <1>2, <1>3, <1>4 DEF Interrupted, IntrHasLk

\* The handler goes from one label to another.
LEMMA HandlerGoto ==
  ASSUME NEW r \in Handlers, NEW l \in {"lock", "locked", "wakeup", "unlock", "yield"}
  PROVE  /\ [r EXCEPT !.pc = l] \in Handlers /\ [r EXCEPT !.pc = l].pc = l
         /\ [r EXCEPT !.pc = l].i = r.i /\ [r EXCEPT !.pc = l].ch = r.ch
BY DEF Handlers

\* The handler's wakeup() goes on to the next slot.
LEMMA HandlerNext ==
  ASSUME NEW r \in Handlers, r.i # NPROC
  PROVE  [r EXCEPT !.i = @ + 1] \in Handlers /\ [r EXCEPT !.i = @ + 1].pc = r.pc
<1>1. r.i + 1 \in Proc
  BY NPROCAssumption DEF Handlers, Proc
<1> QED
  BY <1>1 DEF Handlers

\* acquire(lk) of the handler.
LEMMA IntrLockKeeps == ASSUME SInv, NEW c \in Cpu, IntrLock(c) PROVE SInv'
<1>1. /\ InHandler(c, "lock") /\ lk = None /\ lk' = c /\ UNCHANGED <<schedVars, arg, idx>>
      /\ irq' = [irq EXCEPT ![c] = [irq[c] EXCEPT !.pc = "locked"]]
  BY DEF IntrLock, Handler
<1>a. irq[c] \in Handlers /\ irq[c].i = 1
  BY <1>1, HandlerAt
<1>b. PICK r \in Handlers : r = irq[c] /\ r.i = 1
  BY <1>a
<1>c. /\ [r EXCEPT !.pc = "locked"] \in Handlers /\ [r EXCEPT !.pc = "locked"].pc = "locked"
      /\ [r EXCEPT !.pc = "locked"].i = r.i
  BY Zenon, HandlerGoto
<1>2. PICK h \in Handlers : h = [irq[c] EXCEPT !.pc = "locked"] /\ h.pc = "locked" /\ h.i = 1
  BY Zenon, <1>b, <1>c
<1>3. LkStep(c) /\ h # None
  BY <1>1, NoneApart DEF LkStep
<1>4. state' \in [Proc -> {"RUNNABLE", "RUNNING", "SLEEPING"}] /\ \A q \in Proc : MayWake(q)
  BY <1>1 DEF SInv, TypeOK, schedVars, MayWake
<1>5. cproc[c] # None => pc[cproc[c]] \in Unlocked
  BY <1>1, HandlerAt
<1> QED
  BY Zenon, <1>1, <1>2, <1>3, <1>4, <1>5, HandlerStep DEF schedVars

\* The handler calls wakeup().
LEMMA IntrCallKeeps == ASSUME SInv, NEW c \in Cpu, IntrCall(c) PROVE SInv'
<1>1. /\ InHandler(c, "locked") /\ UNCHANGED <<schedVars, lk, arg, idx>>
      /\ irq' = [irq EXCEPT ![c] = [irq[c] EXCEPT !.pc = "wakeup"]]
  BY DEF IntrCall, Handler
<1>a. PICK r \in Handlers : r = irq[c]
  BY Zenon, <1>1, HandlerAt
<1>b. [r EXCEPT !.pc = "wakeup"] \in Handlers /\ [r EXCEPT !.pc = "wakeup"].pc = "wakeup"
  BY Zenon, HandlerGoto
<1>2. PICK h \in Handlers : h = [irq[c] EXCEPT !.pc = "wakeup"] /\ h.pc = "wakeup"
  BY Zenon, <1>a, <1>b
<1>3. LkStep(c) /\ lk' = c /\ h # None
  BY <1>1, HandlerAt, NoneApart DEF LkStep
<1>4. state' \in [Proc -> {"RUNNABLE", "RUNNING", "SLEEPING"}] /\ \A q \in Proc : MayWake(q)
  BY <1>1 DEF SInv, TypeOK, schedVars, MayWake
<1>5. cproc[c] # None => pc[cproc[c]] \in Unlocked
  BY <1>1, HandlerAt
<1> QED
  BY Zenon, <1>1, <1>2, <1>3, <1>4, <1>5, HandlerStep DEF schedVars

\* An iteration of the handler's wakeup().
LEMMA IntrWakeupKeeps == ASSUME SInv, NEW c \in Cpu, IntrWakeup(c) PROVE SInv'
<1>1. /\ InHandler(c, "wakeup") /\ UNCHANGED <<pc, lk, arg, idx>>
      /\ WakeupOne(cproc[c], irq[c].i, irq[c].ch)
      /\ irq' = [irq EXCEPT ![c] = IF irq[c].i = NPROC THEN [irq[c] EXCEPT !.pc = "unlock"]
                                   ELSE [irq[c] EXCEPT !.i = @ + 1]]
  BY DEF IntrWakeup, Handler
<1>2. /\ irq[c] \in Handlers /\ irq[c].pc = "wakeup" /\ irq[c].i \in Proc /\ lk = c
      /\ cproc[c] # None => pc[cproc[c]] \in Unlocked
  BY <1>1, HandlerAt
<1>3. PICK h \in Handlers : irq' = [irq EXCEPT ![c] = h] /\ h.pc \in {"wakeup", "unlock"}
  <2>1. CASE irq[c].i = NPROC
    BY Zenon, <1>1, <1>2, <2>1, HandlerGoto
  <2>2. CASE irq[c].i # NPROC
    <3>1. [irq[c] EXCEPT !.i = @ + 1] \in Handlers /\ [irq[c] EXCEPT !.i = @ + 1].pc = "wakeup"
      BY <1>2, <2>2, HandlerNext
    <3> QED
      BY Zenon, <1>1, <2>2, <3>1
  <2> QED
    BY <2>1, <2>2
<1>4. LkStep(c) /\ lk' = c /\ h # None
  BY <1>1, <1>2, NoneApart DEF LkStep
<1>5. state' \in [Proc -> {"RUNNABLE", "RUNNING", "SLEEPING"}] /\ \A q \in Proc : MayWake(q)
  BY <1>1, <1>2, WakeupOneWakes
<1>6. UNCHANGED <<chan, killed, plock, cproc, scan, ret>>
  BY <1>1 DEF WakeupOne
<1> QED
  BY Zenon, <1>1, <1>2, <1>3, <1>4, <1>5, <1>6, HandlerStep

\* release(lk) of the handler, which returns, or goes on to yield().
LEMMA IntrUnlockKeeps ==
  ASSUME SInv, NEW c \in Cpu, NEW h \in Handlers \cup {None}, IntrUnlock(c, h),
         h # None => h.pc = "yield" /\ cproc[c] # None
  PROVE  SInv'
<1>1. /\ InHandler(c, "unlock") /\ lk' = None /\ UNCHANGED <<schedVars, arg, idx>>
      /\ irq' = [irq EXCEPT ![c] = h]
  BY DEF IntrUnlock, Handler
<1>2. lk = c /\ (cproc[c] # None => pc[cproc[c]] \in Unlocked)
  BY <1>1, HandlerAt
<1>3. LkStep(c) /\ lk' # c
  BY <1>1, <1>2, NoneApart DEF LkStep
<1>4. state' \in [Proc -> {"RUNNABLE", "RUNNING", "SLEEPING"}] /\ \A q \in Proc : MayWake(q)
  BY <1>1 DEF SInv, TypeOK, schedVars, MayWake
<1> QED
  BY Zenon, <1>1, <1>2, <1>3, <1>4, HandlerStep DEF schedVars

\* The handler's yield().
HandlerYield(c) ==
  /\ InHandler(c, "yield") /\ Yield(cproc[c], Unlocked)
  /\ Handler(c, None) /\ UNCHANGED <<lk, arg, idx>>

LEMMA HandlerYieldKeeps ==
  ASSUME SInv, NEW c \in Cpu, HandlerYield(c), cproc[c] # None PROVE SInv'
<1> USE DEF SInv
<1>1. PICK p \in Proc : cproc[c] = p
  BY DEF TypeOK
<1>2. Yield(p, Unlocked) /\ irq' = [irq EXCEPT ![c] = None] /\ UNCHANGED <<lk, arg, idx>>
  BY <1>1 DEF HandlerYield, Handler
<1>3. irq'[c] = None /\ \A d \in Cpu \ {c} : irq'[d] = irq[d]
  BY <1>2 DEF TypeOK
<1>4. lk # c
  BY HandlerAt DEF HandlerYield
<1>5. TypeOK'
  BY <1>2, YieldEffect DEF TypeOK
<1>6. OneCpu'
  BY <1>2, YieldEffect DEF OneCpu
<1>7. Owner'
  <2>1. ASSUME NEW q \in Proc PROVE lk' = q <=> HasLk(q)'
    <3>1. CASE q = p
      BY <1>2, <3>1, YieldEffect DEF Owner, HasLk, Unlocked
    <3>2. CASE q # p
      BY Zenon, <1>2, <3>2, YieldEffect DEF Owner, HasLk
    <3> QED
      BY <3>1, <3>2
  <2>2. ASSUME NEW d \in Cpu PROVE lk' = d <=> IntrHasLk(d)'
    <3>1. CASE d = c
      BY <1>2, <1>3, <1>4, <3>1 DEF IntrHasLk
    <3>2. CASE d # c
      BY <1>2, <1>3, <3>2 DEF Owner, IntrHasLk
    <3> QED
      BY <3>1, <3>2
  <2> QED
    BY <2>1, <2>2 DEF Owner
<1>8. ASSUME NEW q \in Proc PROVE Place(q)'
  <2>1. CASE q = p
    BY <1>2, <2>1, YieldEffect
  <2>2. CASE q # p
    BY <1>2, <2>2, YieldEffect, PlaceKept, Zenon DEF MayWake
  <2> QED
    BY <2>1, <2>2
<1>9. ASSUME NEW d \in Cpu PROVE Interrupted(d)'
  <2>1. CASE d = c
    BY <1>3, <2>1 DEF Interrupted
  <2>2. CASE d # c
    <3>1. cproc[d] # p
      BY <1>1, <2>2, NoneApart DEF OneCpu
    <3>2. cproc[d] # None => cproc[d] \in Proc \ {p}
      BY <3>1 DEF TypeOK
    <3>3. cproc' = cproc /\ \A q \in Proc \ {p} : pc'[q] = pc[q]
      BY <1>2, YieldEffect
    <3> QED
      BY <1>3, <2>2, <3>2, <3>3 DEF Interrupted
  <2> QED
    BY <2>1, <2>2
<1> QED
  BY <1>5, <1>6, <1>7, <1>8, <1>9

-----------------------------------------------------------------------------
(* Any step at all, with or without the clock.                             *)

\* A step on CPU c of scheduler() or of a handler.
CpuStep(c) ==
  \/ irq[c] = None /\ Schedule(c)
  \/ \E ch \in Channels : Interrupt(c, ch)
  \/ IntrLock(c) \/ IntrCall(c) \/ IntrWakeup(c)
  \/ \E h \in Handlers \cup {None} :
       (h # None => h.pc = "yield" /\ cproc[c] # None) /\ IntrUnlock(c, h)
  \/ HandlerYield(c) /\ cproc[c] # None

\* A step of the process p.
ThreadStep(p) ==
  \/ Enter(p) \/ Leave(p) \/ SleepLock(p) \/ SleepUnlock(p) \/ Relock(p) \/ Wakeup(p)
  \/ Preempt(p) \/ Switch(p)
  \/ \E ch \in Channels : CallSleep(p, ch) \/ CallWakeup(p, ch)
  \/ \E q \in Proc : Kill(p, q)

AnyStep == \/ \E c \in Cpu : CpuStep(c)
           \/ \E p \in Proc : Runs(p) /\ ThreadStep(p)

\* What a kernel thread or a CPU does keeps SInv.
LEMMA StepKeeps == ASSUME SInv, AnyStep PROVE SInv'
<1>1. ASSUME NEW c \in Cpu, CpuStep(c) PROVE SInv'
  BY <1>1, ScheduleKeeps, InterruptKeeps, IntrLockKeeps, IntrCallKeeps, IntrWakeupKeeps,
     IntrUnlockKeeps, HandlerYieldKeeps DEF CpuStep
<1>2. ASSUME NEW p \in Proc, Runs(p), ThreadStep(p) PROVE SInv'
  <2>1. CASE Switch(p)
    BY <1>2, <2>1, SchedOutKeeps, ResumeKeeps DEF Switch
  <2> QED
    BY <1>2, <2>1, EnterKeeps, LeaveKeeps, SleepLockKeeps, SleepUnlockKeeps, RelockKeeps, WakeupKeeps,
       PreemptKeeps, CallSleepKeeps, CallWakeupKeeps, KillKeeps DEF ThreadStep
<1> QED
  BY <1>1, <1>2 DEF AnyStep

-----------------------------------------------------------------------------
(* The clock: what sys_sleep() and clockintr() add.                       *)

\* p has called sys_sleep() and has not returned from it.
InSleep(p) == \/ pc[p] \in {"locked", "sleep", "sleep_release", "relock"}
              \/ pc[p] \in {"sched", "switched"} /\ ret[p] = "relock"

\* clockintr()'s wakeup() has still to come to q.
ClockWakes(q) == InHandler(cpu0, "wakeup") /\ irq[cpu0].i <= q

\* The clock's own: nobody but clockintr() wakes anybody, whoever is about to
\* sleep has looked at ticks with tickslock held, and a sleeper's time is not
\* over yet unless clockintr() is coming to it.
Napping(p) ==
  /\ pc[p] # "wakeup"
  /\ pc[p] \in {"sleep", "sleep_release"} => arg[p] = TICKS /\ Short(p)
  /\ InSleep(p) => nap[p] # None
  /\ state[p] = "SLEEPING" => chan[p] = TICKS /\ nap[p] # None /\ (Short(p) \/ ClockWakes(p))

ClockOnly ==
  cpu0 # None => /\ \A c \in Cpu : irq[c] # None => c = cpu0 /\ irq[c].ch = TICKS
                 /\ \A p \in Proc : Napping(p)

ClockType == /\ cpu0 \in Cpu \cup {None} /\ ticks \in 0 .. UINT - 1
             /\ nap \in [Proc -> [ticks0 : Nat, n : Nat] \cup {None}]
             /\ cpu0 = None => \A p \in Proc : nap[p] = None

IInv == SInv /\ ClockType /\ ClockOnly

-----------------------------------------------------------------------------
(* Every step of the clock is one of the kernel.                           *)

\* A step of the clock is one of them.
LEMMA TickStepIs ==
  ASSUME SInv, ClockType, cpu0 # None, Clockintr \/ Tick \/ TickStep
  PROVE  \E c \in Cpu : CpuStep(c)
<1>1. PICK c \in Cpu : c = cpu0
  BY DEF ClockType
<1>2. CASE Clockintr
  BY <1>1, <1>2 DEF Clockintr, CpuStep, Channels
<1>3. CASE Tick
  BY <1>1, <1>3 DEF Tick, CpuStep
<1>4. CASE TickStep
  <2>1. CASE IntrLock(c) \/ IntrWakeup(c)
    BY <2>1 DEF CpuStep
  <2>2. CASE IntrUnlock(c, IF cproc[c] = None THEN None ELSE [irq[c] EXCEPT !.pc = "yield"])
    <3>1. irq[c] \in Handlers
      BY <2>2, HandlerAt DEF IntrUnlock
    <3>2. PICK r \in Handlers : r = irq[c]
      BY <3>1
    <3>3. [r EXCEPT !.pc = "yield"] \in Handlers /\ [r EXCEPT !.pc = "yield"].pc = "yield"
      BY Zenon, HandlerGoto
    <3>4. PICK h \in Handlers \cup {None} :
            /\ h = IF cproc[c] = None THEN None ELSE [irq[c] EXCEPT !.pc = "yield"]
            /\ h # None => h.pc = "yield" /\ cproc[c] # None
      BY Zenon, <3>2, <3>3
    <3>5. IntrUnlock(c, h)
      BY <2>2, <3>4
    <3> QED
      BY Zenon, <3>4, <3>5 DEF CpuStep
  <2>3. CASE InHandler(c, "yield") /\ Yield(cproc[c], Unlocked) /\ Handler(c, None)
             /\ UNCHANGED <<lk, arg, idx>>
    <3>1. irq[c] # None /\ irq[c].pc = "yield" /\ Interrupted(c)
      BY <2>3 DEF InHandler, SInv
    <3> QED
      BY <2>3, <3>1, Zenon DEF CpuStep, HandlerYield, Interrupted
  <2> QED
    BY <1>1, <1>4, <2>1, <2>2, <2>3 DEF TickStep
<1> QED
  BY <1>2, <1>3, <1>4

LEMMA AnyNextIs == ASSUME SInv, ClockType, AnyNext PROVE AnyStep
<1>1. CASE cpu0 = None
  <2>1. Next
    BY <1>1 DEF AnyNext
  <2>2. ASSUME NEW c \in Cpu,
               \/ irq[c] = None /\ Schedule(c)
               \/ \E ch \in Chan : Interrupt(c, ch)
               \/ IntrLock(c) \/ IntrCall(c) \/ IntrWakeup(c) \/ IntrUnlock(c, None)
        PROVE  CpuStep(c)
    BY <2>2, Zenon DEF CpuStep, Channels
  <2>3. ASSUME NEW p \in Proc,
               \/ Enter(p) \/ Leave(p)
               \/ SleepLock(p) \/ SleepUnlock(p) \/ Relock(p) \/ Wakeup(p)
               \/ Preempt(p) \/ Switch(p)
               \/ \E ch \in Chan : CallSleep(p, ch) \/ CallWakeup(p, ch)
               \/ \E q \in Proc : Kill(p, q)
        PROVE  ThreadStep(p)
    BY <2>3 DEF ThreadStep, Channels
  <2> QED
    BY <2>1, <2>2, <2>3 DEF Next, AnyStep
<1>2. CASE cpu0 # None
  <2>1. ClockNext
    BY <1>2 DEF AnyNext
  <2>2. CASE Clockintr \/ Tick \/ TickStep
    BY <1>2, <2>2, TickStepIs DEF AnyStep
  <2>3. CASE \E c \in Cpu : irq[c] = None /\ Schedule(c) /\ UNCHANGED clock
    BY <2>3 DEF AnyStep, CpuStep
  <2>4. ASSUME NEW p \in Proc,
               \/ OtherTimer(p)
               \/ p \in Napper /\ \E n \in Naps : SysSleep(p, n)
               \/ NapLoop(p)
               \/ /\ \/ SleepLock(p) \/ SleepUnlock(p) \/ Relock(p) \/ Switch(p)
                     \/ \E q \in Proc : Kill(p, q)
                  /\ UNCHANGED clock
        PROVE  ThreadStep(p)
    BY <2>4, Zenon DEF ThreadStep, Channels, OtherTimer, SysSleep, NapLoop
  <2> QED
    BY <2>1, <2>2, <2>3, <2>4 DEF ClockNext, AnyStep
<1> QED
  BY <1>1, <1>2

-----------------------------------------------------------------------------
(* The clock.                                                              *)

\* A process that runs, and holds no p->lock, does not sleep.
LEMMA Running ==
  ASSUME SInv, NEW p \in Proc, OnCpu(p), pc[p] # "sched" PROVE state[p] = "RUNNING"
BY DEF SInv, Place

\* Napping(q) depends only on what is q's own, while the clock stands still.
LEMMA NappingKept ==
  ASSUME NEW q \in Proc, Napping(q), UNCHANGED <<cpu0, ticks>>,
         pc'[q] = pc[q], ret'[q] = ret[q], arg'[q] = arg[q], chan'[q] = chan[q], nap'[q] = nap[q],
         state'[q] = state[q] \/ state'[q] # "SLEEPING",
         irq' = irq \/ ~InHandler(cpu0, "wakeup")
  PROVE  Napping(q)'
<1>1. Short(q)' = Short(q) /\ InSleep(q)' = InSleep(q)
  BY Zenon DEF Short, Elapsed, InSleep
<1>2. ClockWakes(q) => irq' = irq
  BY DEF ClockWakes
<1>3. ClockWakes(q) => ClockWakes(q)'
  BY <1>2 DEF ClockWakes, InHandler
<1> QED
  BY <1>1, <1>3, Zenon DEF Napping

\* ClockOnly after a step, of one process at most, while no handler starts.
LEMMA ThreadClock ==
  ASSUME ClockOnly, cpu0 # None, UNCHANGED <<cpu0, ticks, irq>>, NEW p \in Proc,
         \A q \in Proc \ {p} :
           /\ pc'[q] = pc[q] /\ ret'[q] = ret[q] /\ arg'[q] = arg[q] /\ chan'[q] = chan[q]
           /\ nap'[q] = nap[q] /\ (state'[q] = state[q] \/ state'[q] # "SLEEPING"),
         Napping(p)'
  PROVE  ClockOnly'
<1>1. ASSUME NEW q \in Proc PROVE Napping(q)'
  <2>1. CASE q # p
    BY <2>1, NappingKept DEF ClockOnly
  <2> QED
    BY <2>1
<1> QED
  BY <1>1 DEF ClockOnly

\* The clock keeps its types.
LEMMA ClockTypeKept == ASSUME SInv, ClockType, AnyNext PROVE ClockType'
<1>1. cpu0' = cpu0
  BY DEF AnyNext, ClockNext, Clockintr, Tick, TickStep, OtherTimer, SysSleep, NapLoop, clock
<1>2. CASE UNCHANGED clock
  BY <1>2 DEF clock, ClockType
<1>3. CASE cpu0 # None /\ Tick
  <2>1. ticks \in Nat /\ UINT \in Nat \ {0}
    BY ClockAssumption DEF ClockType
  <2>2. (ticks + 1) % UINT \in 0 .. UINT - 1
    BY <2>1
  <2> QED
    BY <1>3, <2>2 DEF Tick, ClockType
<1>4. ASSUME cpu0 # None, NEW p \in Proc, NEW n \in Naps, SysSleep(p, n) PROVE ClockType'
  <2>1. [ticks0 |-> ticks, n |-> IF n < 0 THEN 0 ELSE n] \in [ticks0 : Nat, n : Nat]
    BY ClockAssumption DEF ClockType
  <2> QED
    BY <1>4, <2>1 DEF SysSleep, ClockType
<1>5. ASSUME cpu0 # None, NEW p \in Proc, NapLoop(p) PROVE ClockType'
  BY <1>5 DEF NapLoop, ClockType
<1> QED
  BY <1>2, <1>3, <1>4, <1>5 DEF AnyNext, ClockNext, Clockintr, TickStep, OtherTimer

\* clockintr() up to its wakeup().
LEMMA TickClock ==
  ASSUME SInv, ClockType, ClockOnly, cpu0 # None, Clockintr \/ Tick PROVE ClockOnly'
<1>1. cpu0 \in Cpu /\ cpu0' = cpu0
  BY DEF ClockType, Clockintr, Tick, clock
<1>2. CASE Clockintr
  <2>1. /\ irq[cpu0] = None /\ UNCHANGED <<schedVars, lk, arg, idx, clock>>
        /\ irq' = [irq EXCEPT ![cpu0] = [pc |-> "lock", ch |-> TICKS, i |-> 1]]
    BY <1>2 DEF Clockintr, Interrupt, Handler
  <2>2. ASSUME NEW p \in Proc PROVE Napping(p)'
    <3>1. ~InHandler(cpu0, "wakeup") /\ Napping(p)
      BY <2>1 DEF InHandler, ClockOnly
    <3> QED
      BY <2>1, <3>1, NappingKept DEF schedVars, clock
  <2>3. ASSUME NEW c \in Cpu, irq'[c] # None PROVE c = cpu0 /\ irq'[c].ch = TICKS
    <3>1. CASE c = cpu0
      BY <2>1, <3>1 DEF SInv, TypeOK
    <3>2. CASE c # cpu0
      BY <2>1, <2>3, <3>2 DEF SInv, TypeOK, ClockOnly
    <3> QED
      BY <3>1, <3>2
  <2> QED
    BY <1>1, <2>2, <2>3 DEF ClockOnly
<1>3. CASE Tick
  <2>1. /\ InHandler(cpu0, "locked") /\ UNCHANGED <<schedVars, lk, arg, idx, nap>>
        /\ irq' = [irq EXCEPT ![cpu0] = [irq[cpu0] EXCEPT !.pc = "wakeup"]]
    BY <1>3 DEF Tick, IntrCall, Handler
  <2>2. PICK r \in Handlers : r = irq[cpu0] /\ r.i = 1 /\ lk = cpu0 /\ r.ch = TICKS
    <3>1. irq[cpu0] \in Handlers /\ irq[cpu0].i = 1 /\ lk = cpu0
      BY <1>1, <2>1, HandlerAt
    <3> QED
      BY <1>1, <3>1, NoneApart DEF ClockOnly
  <2>3. /\ [r EXCEPT !.pc = "wakeup"].pc = "wakeup" /\ [r EXCEPT !.pc = "wakeup"] \in Handlers
        /\ [r EXCEPT !.pc = "wakeup"].i = r.i /\ [r EXCEPT !.pc = "wakeup"].ch = r.ch
    BY Zenon, HandlerGoto
  <2>4. irq'[cpu0] = [r EXCEPT !.pc = "wakeup"] /\ \A c \in Cpu \ {cpu0} : irq'[c] = irq[c]
    BY <1>1, <2>1, <2>2 DEF SInv, TypeOK
  <2>5. irq'[cpu0] # None /\ irq'[cpu0].pc = "wakeup" /\ irq'[cpu0].i = 1 /\ irq'[cpu0].ch = TICKS
    BY <2>2, <2>3, <2>4, NoneApart
  <2>6. ASSUME NEW p \in Proc PROVE Napping(p)'
    <3>1. Napping(p) /\ ~HasLk(p)
      BY <1>1, <2>2, NoneApart DEF ClockOnly, SInv, Owner
    <3>2. ClockWakes(p)'
      BY <1>1, <2>5 DEF ClockWakes, InHandler, Proc
    <3>3. InSleep(p)' = InSleep(p)
      BY <2>1 DEF InSleep, schedVars
    <3> QED
      BY <2>1, <3>1, <3>2, <3>3 DEF Napping, HasLk, schedVars
  <2> QED
    BY Zenon, <1>1, <2>4, <2>5, <2>6 DEF ClockOnly
<1> QED
  BY <1>2, <1>3

\* A step of the handler of CPU 0, to h, that wakes nobody.
LEMMA HandlerClock ==
  ASSUME SInv, ClockOnly, cpu0 \in Cpu, UNCHANGED <<cpu0, ticks, nap>>,
         NEW h, irq' = [irq EXCEPT ![cpu0] = h], h # None => h.ch = TICKS,
         \A q \in Proc : Napping(q)'
  PROVE  ClockOnly'
<1>1. ASSUME NEW c \in Cpu, irq'[c] # None PROVE c = cpu0 /\ irq'[c].ch = TICKS
  <2>1. CASE c = cpu0
    BY <1>1, <2>1 DEF SInv, TypeOK
  <2>2. CASE c # cpu0
    BY <1>1, <2>2, NoneApart DEF SInv, TypeOK, ClockOnly
  <2> QED
    BY <2>1, <2>2
<1> QED
  BY <1>1 DEF ClockOnly

\* clockintr()'s wakeup(): a sleeper it has passed has its time before it.
LEMMA TickWakeupClock ==
  ASSUME SInv, ClockOnly, cpu0 \in Cpu, IntrWakeup(cpu0), UNCHANGED clock PROVE ClockOnly'
<1>1. /\ InHandler(cpu0, "wakeup") /\ UNCHANGED <<pc, lk, arg, idx>>
      /\ WakeupOne(cproc[cpu0], irq[cpu0].i, irq[cpu0].ch)
      /\ irq' = [irq EXCEPT ![cpu0] = IF irq[cpu0].i = NPROC THEN [irq[cpu0] EXCEPT !.pc = "unlock"]
                                      ELSE [irq[cpu0] EXCEPT !.i = @ + 1]]
  BY DEF IntrWakeup, Handler
<1>2. PICK r \in Handlers : /\ r = irq[cpu0] /\ r.pc = "wakeup" /\ r.i \in Proc /\ r.ch = TICKS
                            /\ cproc[cpu0] # None => pc[cproc[cpu0]] \in Unlocked
  <2>1. /\ irq[cpu0] \in Handlers /\ irq[cpu0].pc = "wakeup" /\ irq[cpu0].i \in Proc
        /\ cproc[cpu0] # None => pc[cproc[cpu0]] \in Unlocked
    BY <1>1, HandlerAt
  <2> QED
    BY <2>1, NoneApart, Zenon DEF ClockOnly
<1>3. PICK h \in Handlers : /\ irq' = [irq EXCEPT ![cpu0] = h] /\ h.ch = TICKS
                            /\ r.i # NPROC => h.pc = "wakeup" /\ h.i = r.i + 1
  <2>1. CASE r.i = NPROC
    <3>1. [r EXCEPT !.pc = "unlock"] \in Handlers /\ [r EXCEPT !.pc = "unlock"].ch = r.ch
      BY Zenon, HandlerGoto
    <3> QED
      BY Zenon, <1>1, <1>2, <2>1, <3>1
  <2>2. CASE r.i # NPROC
    <3>1. [r EXCEPT !.i = @ + 1] \in Handlers /\ [r EXCEPT !.i = @ + 1].pc = "wakeup"
      BY <1>2, <2>2, HandlerNext
    <3>2. [r EXCEPT !.i = @ + 1].ch = r.ch /\ [r EXCEPT !.i = @ + 1].i = r.i + 1
      BY DEF Handlers
    <3> QED
      BY Zenon, <1>1, <1>2, <2>2, <3>1, <3>2
  <2> QED
    BY <2>1, <2>2
<1>4. irq'[cpu0] = h
  BY <1>3 DEF SInv, TypeOK
<1>5. UNCHANGED <<chan, ret, cproc>> /\ UNCHANGED <<cpu0, ticks, nap>>
  BY <1>1 DEF WakeupOne, clock
<1>6. ASSUME NEW q \in Proc PROVE Napping(q)'
  <2>1. Napping(q) /\ NPROC \in Nat /\ q \in Nat /\ q <= NPROC
    BY NPROCAssumption, NoneApart DEF ClockOnly, Proc
  <2>2. Short(q)' = Short(q) /\ InSleep(q)' = InSleep(q)
    BY <1>1, <1>5 DEF Short, Elapsed, InSleep
  <2>3. state'[q] = "SLEEPING" => state[q] = "SLEEPING"
    BY <1>1, <1>2, WakeupOneWakes DEF MayWake
  <2>4. ASSUME state'[q] = "SLEEPING" PROVE q # r.i
    <3>1. CASE q = cproc[cpu0]
      <4>1. OnCpu(q) /\ pc[q] # "sched"
        BY <1>2, <3>1, NoneApart DEF OnCpu, Unlocked
      <4> QED
        BY <2>3, <2>4, <4>1, Running, Zenon
    <3>2. CASE q # cproc[cpu0]
      <4>1. state[q] = "SLEEPING" /\ chan[q] = TICKS
        BY <2>1, <2>3, <2>4 DEF Napping
      <4>2. q = r.i => state' = [state EXCEPT ![q] = "RUNNABLE"]
        BY <1>1, <1>2, <3>2, <4>1 DEF WakeupOne
      <4> QED
        BY <2>4, <4>2 DEF SInv, TypeOK
    <3> QED
      BY <3>1, <3>2
  <2>5. ASSUME state'[q] = "SLEEPING", ClockWakes(q) PROVE ClockWakes(q)'
    <3>1. r.i <= q /\ q # r.i /\ r.i \in Nat
      BY <1>2, <2>4, <2>5 DEF ClockWakes, Proc
    <3>2. r.i # NPROC /\ r.i + 1 <= q
      BY <2>1, <3>1
    <3> QED
      BY <1>3, <1>4, <1>5, <3>2, NoneApart DEF ClockWakes, InHandler
  <2> QED
    BY <1>1, <1>5, <2>1, <2>2, <2>3, <2>5 DEF Napping
<1> QED
  BY Zenon, <1>3, <1>5, <1>6, NoneApart, HandlerClock
=============================================================================
