----------------------------- MODULE ClockProofs -----------------------------
(***************************************************************************)
(* Proofs about Clock: no kernel stack is on two CPUs, and sys_sleep()     *)
(* misses no tick, whatever the width of ticks; sleep() and wakeup()       *)
(* implement Monitor, whoever calls them.                                  *)
(***************************************************************************)
EXTENDS SleepProofs

\* The other steps of clockintr().
LEMMA TickStepClock ==
  ASSUME SInv, ClockType, ClockOnly, cpu0 # None, TickStep PROVE ClockOnly'
<1>1. cpu0 \in Cpu /\ UNCHANGED clock /\ UNCHANGED <<cpu0, ticks, nap>>
  BY DEF ClockType, TickStep, clock
<1>2. ASSUME NEW l \in {"lock", "unlock", "yield"}, InHandler(cpu0, l)
      PROVE  /\ ~InHandler(cpu0, "wakeup") /\ irq[cpu0] \in Handlers /\ irq[cpu0].ch = TICKS
             /\ cproc[cpu0] # None => pc[cproc[cpu0]] \in Unlocked
  BY <1>1, <1>2, HandlerAt DEF InHandler, ClockOnly
<1>3. CASE IntrLock(cpu0)
  <2>1. /\ InHandler(cpu0, "lock") /\ UNCHANGED <<schedVars, arg, idx>>
        /\ irq' = [irq EXCEPT ![cpu0] = [irq[cpu0] EXCEPT !.pc = "locked"]]
    BY <1>3 DEF IntrLock, Handler
  <2>2. PICK r \in Handlers : r = irq[cpu0] /\ r.ch = TICKS
    BY <1>2, <2>1
  <2>3. [r EXCEPT !.pc = "locked"].ch = TICKS
    BY <2>2, HandlerGoto
  <2>4. ASSUME NEW q \in Proc PROVE Napping(q)'
    BY <1>1, <1>2, <2>1, NappingKept DEF ClockOnly, schedVars
  <2> QED
    BY Zenon, <1>1, <2>1, <2>2, <2>3, <2>4, HandlerClock
<1>4. CASE IntrWakeup(cpu0)
  BY <1>1, <1>4, TickWakeupClock
<1>5. CASE IntrUnlock(cpu0, IF cproc[cpu0] = None THEN None ELSE [irq[cpu0] EXCEPT !.pc = "yield"])
  <2>1. /\ InHandler(cpu0, "unlock") /\ UNCHANGED <<schedVars, arg, idx>>
        /\ irq' = [irq EXCEPT ![cpu0] = IF cproc[cpu0] = None THEN None
                                        ELSE [irq[cpu0] EXCEPT !.pc = "yield"]]
    BY <1>5 DEF IntrUnlock, Handler
  <2>2. PICK r \in Handlers : r = irq[cpu0] /\ r.ch = TICKS
    BY <1>2, <2>1
  <2>3. [r EXCEPT !.pc = "yield"].ch = TICKS
    BY <2>2, HandlerGoto
  <2>4. PICK h \in {None, [r EXCEPT !.pc = "yield"]} : irq' = [irq EXCEPT ![cpu0] = h]
    BY Zenon, <2>1, <2>2
  <2>5. ASSUME NEW q \in Proc PROVE Napping(q)'
    BY <1>1, <1>2, <2>1, NappingKept DEF ClockOnly, schedVars
  <2> QED
    BY Zenon, <1>1, <2>3, <2>4, <2>5, HandlerClock
<1>6. CASE HandlerYield(cpu0)
  <2>1. /\ InHandler(cpu0, "yield") /\ irq' = [irq EXCEPT ![cpu0] = None]
        /\ Yield(cproc[cpu0], Unlocked) /\ UNCHANGED <<lk, arg, idx>>
    BY <1>6 DEF HandlerYield, Handler
  <2>2. PICK p \in Proc : p = cproc[cpu0]
    <3>1. irq[cpu0] # None /\ irq[cpu0].pc = "yield" /\ Interrupted(cpu0)
      BY <1>1, <2>1 DEF InHandler, SInv
    <3> QED
      BY <1>1, <3>1 DEF Interrupted, SInv, TypeOK
  <2>3. ret'[p] = pc[p] /\ \A q \in Proc \ {p} : ret'[q] = ret[q]
    BY <2>1, <2>2 DEF Yield, SInv, TypeOK
  <2>4. /\ pc[p] \in Unlocked /\ pc'[p] = "sched" /\ state'[p] = "RUNNABLE"
        /\ \A q \in Proc \ {p} : pc'[q] = pc[q] /\ state'[q] = state[q]
        /\ chan' = chan
    BY <2>1, <2>2, YieldEffect
  <2>5. ASSUME NEW q \in Proc PROVE Napping(q)'
    <3>1. CASE q = p
      BY <1>1, <2>3, <2>4, <3>1 DEF Napping, InSleep, Unlocked, ClockOnly
    <3>2. CASE q # p
      BY <1>1, <1>2, <2>1, <2>3, <2>4, <3>2, NappingKept DEF ClockOnly
    <3> QED
      BY <3>1, <3>2
  <2> QED
    BY Zenon, <1>1, <2>1, <2>5, HandlerClock
<1> QED
  BY <1>3, <1>4, <1>5, <1>6 DEF TickStep, HandlerYield

\* sys_sleep().
LEMMA SysSleepClock ==
  ASSUME IInv, cpu0 # None, NEW p \in Proc, NEW n \in Naps, SysSleep(p, n) PROVE ClockOnly'
<1> USE DEF IInv
<1>1. /\ UNCHANGED <<cpu0, ticks, irq, state, chan, ret, arg>> /\ pc[p] = "user" /\ OnCpu(p)
      /\ pc' = [pc EXCEPT ![p] = "locked"]
  BY DEF SysSleep, Enter, At, Goto
<1>2. [ticks0 |-> ticks, n |-> IF n < 0 THEN 0 ELSE n] \in [ticks0 : Nat, n : Nat]
  BY ClockAssumption DEF ClockType
<1>3. nap'[p] # None /\ \A q \in Proc \ {p} : nap'[q] = nap[q]
  BY <1>2, ClockAssumption DEF SysSleep, ClockType
<1>4. pc'[p] = "locked" /\ \A q \in Proc \ {p} : pc'[q] = pc[q]
  BY <1>1 DEF SInv, TypeOK
<1>5. state[p] = "RUNNING"
  BY <1>1, Running
<1>6. Napping(p)'
  BY <1>1, <1>3, <1>4, <1>5 DEF Napping
<1> QED
  BY <1>1, <1>3, <1>4, <1>6, ThreadClock

\* sys_sleep()'s loop.
LEMMA NapLoopClock == ASSUME IInv, cpu0 # None, NEW p \in Proc, NapLoop(p) PROVE ClockOnly'
<1> USE DEF IInv
<1>1. UNCHANGED <<cpu0, ticks, irq, state, chan, ret>> /\ pc[p] = "locked" /\ OnCpu(p)
  BY DEF NapLoop, CallSleep, Leave, At
<1>2. state[p] = "RUNNING" /\ Napping(p)
  BY <1>1, Running DEF ClockOnly
<1>3. CASE Short(p) /\ ~killed[p]
  <2>1. /\ pc' = [pc EXCEPT ![p] = "sleep"] /\ arg' = [arg EXCEPT ![p] = TICKS] /\ nap' = nap
    BY <1>3 DEF NapLoop, CallSleep, Goto
  <2>2. /\ pc'[p] = "sleep" /\ arg'[p] = TICKS
        /\ \A q \in Proc \ {p} : pc'[q] = pc[q] /\ arg'[q] = arg[q]
    BY <2>1 DEF SInv, TypeOK
  <2>3. Short(p)' /\ InSleep(p)
    BY <1>1, <1>3, <2>1 DEF Short, Elapsed, InSleep
  <2>4. Napping(p)'
    BY <1>1, <1>2, <2>1, <2>2, <2>3 DEF Napping
  <2> QED
    BY <1>1, <2>1, <2>2, <2>4, ThreadClock
<1>4. CASE ~(Short(p) /\ ~killed[p])
  <2>1. pc' = [pc EXCEPT ![p] = "user"] /\ nap' = [nap EXCEPT ![p] = None] /\ arg' = arg
    BY <1>4 DEF NapLoop, Leave, Goto
  <2>2. pc'[p] = "user" /\ \A q \in Proc \ {p} : pc'[q] = pc[q] /\ nap'[q] = nap[q]
    BY <2>1 DEF SInv, TypeOK, ClockType
  <2>3. Napping(p)'
    BY <1>1, <1>2, <2>2 DEF Napping, InSleep
  <2> QED
    BY <1>1, <2>1, <2>2, <2>3, ThreadClock
<1> QED
  BY <1>3, <1>4

\* The steps of sleep(), and what else a process does.
LEMMA ThreadStepClock ==
  ASSUME IInv, cpu0 # None, NEW p \in Proc, UNCHANGED clock,
         \/ SleepLock(p) \/ SleepUnlock(p) \/ Relock(p) \/ Switch(p) \/ Preempt(p)
         \/ \E q \in Proc : Kill(p, q)
  PROVE  ClockOnly'
<1> USE DEF IInv
<1>1. UNCHANGED <<cpu0, ticks, nap, irq>> /\ Napping(p)
  BY DEF clock, ClockOnly, SleepLock, SleepUnlock, Relock, Switch, Preempt, Kill
<1>2. Short(p)' = Short(p)
  BY <1>1 DEF Short, Elapsed
<1>3. CASE SleepLock(p)
  <2>1. /\ pc[p] = "sleep" /\ pc' = [pc EXCEPT ![p] = "sleep_release"]
        /\ UNCHANGED <<state, chan, ret, arg>>
    BY <1>3 DEF SleepLock, SleepAcquire, At, Goto
  <2>2. pc'[p] = "sleep_release" /\ \A q \in Proc \ {p} : pc'[q] = pc[q]
    BY <2>1 DEF SInv, TypeOK
  <2>3. state[p] = "RUNNING" /\ nap[p] # None
    BY <1>1, <1>3, <2>1, Running DEF SleepLock, SleepAcquire, At, Napping, InSleep
  <2>4. Napping(p)'
    BY <1>1, <1>2, <2>1, <2>2, <2>3 DEF Napping
  <2> QED
    BY <1>1, <2>1, <2>2, <2>4, ThreadClock
<1>4. CASE SleepUnlock(p)
  <2>1. /\ pc[p] = "sleep_release" /\ pc' = [pc EXCEPT ![p] = "sched"] /\ arg' = arg
        /\ chan' = [chan EXCEPT ![p] = arg[p]] /\ ret' = [ret EXCEPT ![p] = "relock"]
        /\ state' = [state EXCEPT ![p] = "SLEEPING"]
    BY <1>4 DEF SleepUnlock, SleepRelease, At, Goto
  <2>2. /\ pc'[p] = "sched" /\ chan'[p] = arg[p] /\ ret'[p] = "relock" /\ state'[p] = "SLEEPING"
        /\ \A q \in Proc \ {p} : /\ pc'[q] = pc[q] /\ chan'[q] = chan[q] /\ ret'[q] = ret[q]
                                 /\ state'[q] = state[q]
    BY <2>1 DEF SInv, TypeOK
  <2>3. arg[p] = TICKS /\ nap[p] # None /\ Short(p)
    BY <1>1, <2>1 DEF Napping, InSleep
  <2>4. Napping(p)'
    BY <1>1, <1>2, <2>2, <2>3 DEF Napping
  <2> QED
    BY <1>1, <2>1, <2>2, <2>4, ThreadClock
<1>5. CASE Relock(p)
  <2>1. /\ pc[p] = "relock" /\ pc' = [pc EXCEPT ![p] = "locked"] /\ OnCpu(p)
        /\ UNCHANGED <<state, chan, ret>> /\ arg' = [arg EXCEPT ![p] = None]
    BY <1>5 DEF Relock, At, Goto
  <2>2. pc'[p] = "locked" /\ \A q \in Proc \ {p} : pc'[q] = pc[q] /\ arg'[q] = arg[q]
    BY <2>1 DEF SInv, TypeOK
  <2>3. state[p] = "RUNNING" /\ nap[p] # None
    BY <1>1, <2>1, Running DEF Napping, InSleep
  <2>4. Napping(p)'
    BY <1>1, <2>1, <2>2, <2>3 DEF Napping
  <2> QED
    BY <1>1, <2>1, <2>2, <2>4, ThreadClock
<1>6. CASE SchedOut(p) /\ UNCHANGED <<lk, arg, idx, irq>>
  <2>1. /\ pc[p] = "sched" /\ pc' = [pc EXCEPT ![p] = "switched"]
        /\ UNCHANGED <<state, chan, ret, arg>>
    BY <1>6 DEF SchedOut, At, Goto
  <2>2. pc'[p] = "switched" /\ \A q \in Proc \ {p} : pc'[q] = pc[q]
    BY <2>1 DEF SInv, TypeOK
  <2>3. InSleep(p)' = InSleep(p) /\ ClockWakes(p)' = ClockWakes(p)
    BY <1>1, <2>1, <2>2 DEF InSleep, ClockWakes, InHandler
  <2>4. Napping(p)'
    BY <1>1, <1>2, <2>1, <2>2, <2>3 DEF Napping
  <2> QED
    BY <1>1, <2>1, <2>2, <2>4, ThreadClock
<1>7. CASE Resume(p) /\ UNCHANGED <<lk, arg, idx, irq>>
  <2>1. /\ pc[p] = "switched" /\ pc' = [pc EXCEPT ![p] = ret[p]] /\ OnCpu(p)
        /\ UNCHANGED <<state, arg>> /\ chan' = [chan EXCEPT ![p] = None]
        /\ ret' = [ret EXCEPT ![p] = "user"]
    BY <1>7 DEF Resume, At, Goto
  <2>2. /\ pc'[p] = ret[p] /\ ret[p] \in Unlocked
        /\ \A q \in Proc \ {p} : pc'[q] = pc[q] /\ chan'[q] = chan[q] /\ ret'[q] = ret[q]
    BY <2>1 DEF SInv, TypeOK
  <2>3. state[p] = "RUNNING" /\ (ret[p] = "relock" => nap[p] # None)
    BY <1>1, <2>1, Running DEF Napping, InSleep
  <2>4. Napping(p)'
    BY <1>1, <2>1, <2>2, <2>3 DEF Napping, InSleep, Unlocked
  <2> QED
    BY <1>1, <2>1, <2>2, <2>4, ThreadClock
<1>8. CASE Preempt(p)
  <2>1. Yield(p, Unlocked) /\ arg' = arg
    BY <1>8 DEF Preempt
  <2>2. /\ ret'[p] = pc[p] /\ \A q \in Proc \ {p} : ret'[q] = ret[q]
    BY <2>1 DEF Yield, SInv, TypeOK
  <2>3. /\ pc[p] \in Unlocked /\ pc'[p] = "sched" /\ state'[p] = "RUNNABLE" /\ chan' = chan
        /\ \A q \in Proc \ {p} : pc'[q] = pc[q] /\ state'[q] = state[q]
    BY <2>1, YieldEffect
  <2>4. Napping(p)'
    BY <1>1, <2>1, <2>2, <2>3 DEF Napping, InSleep, Unlocked
  <2> QED
    BY <1>1, <2>1, <2>2, <2>3, <2>4, ThreadClock
<1>9. ASSUME NEW q \in Proc, Kill(p, q) PROVE ClockOnly'
  <2>1. UNCHANGED <<pc, chan, ret, arg>> /\ \A r \in Proc : state'[r] = state[r] \/ state'[r] # "SLEEPING"
    BY <1>9 DEF Kill, KillOne, SInv, TypeOK
  <2>2. Napping(p)'
    BY Zenon, <1>1, <2>1, NappingKept
  <2> QED
    BY <1>1, <2>1, <2>2, ThreadClock
<1> QED
  BY <1>3, <1>4, <1>5, <1>6, <1>7, <1>8, <1>9 DEF Switch

\* Any step keeps ClockOnly.
LEMMA ClockOnlyKept == ASSUME IInv, AnyNext PROVE ClockOnly'
<1> USE DEF IInv
<1>1. CASE cpu0 = None
  BY <1>1 DEF AnyNext, clock, ClockOnly
<1>2. CASE cpu0 # None
  <2>1. CASE Clockintr \/ Tick \/ TickStep
    BY <1>2, <2>1, TickClock, TickStepClock
  <2>2. ASSUME NEW c \in Cpu, Schedule(c), UNCHANGED clock PROVE ClockOnly'
    <3>1. UNCHANGED <<cpu0, ticks, nap, chan, pc, ret, arg, irq>>
      BY <2>2 DEF Schedule, Scheduler, clock
    <3>2. \A q \in Proc : state'[q] = state[q] \/ state'[q] # "SLEEPING"
      <4>1. scan[c] \in Proc
        BY DEF SInv, TypeOK
      <4> QED
        BY <2>2, <4>1 DEF Schedule, Scheduler, SInv, TypeOK
    <3>3. ASSUME NEW q \in Proc PROVE Napping(q)'
      BY <1>2, <3>1, <3>2, NappingKept DEF ClockOnly
    <3> QED
      BY <3>1, <3>3 DEF ClockOnly
  <2>3. ASSUME NEW p \in Proc,
               \/ OtherTimer(p)
               \/ \E n \in Naps : SysSleep(p, n)
               \/ NapLoop(p)
               \/ /\ \/ SleepLock(p) \/ SleepUnlock(p) \/ Relock(p) \/ Switch(p)
                     \/ \E q \in Proc : Kill(p, q)
                  /\ UNCHANGED clock
        PROVE  ClockOnly'
    BY <1>2, <2>3, SysSleepClock, NapLoopClock, ThreadStepClock DEF OtherTimer
  <2> QED
    BY <1>2, <2>1, <2>2, <2>3 DEF AnyNext, ClockNext
<1> QED
  BY <1>1, <1>2

\* At boot.
LEMMA InitHolds == ASSUME ClockInit PROVE IInv
<1> USE DEF ClockInit, Init
<1>1. TypeOK
  <2>1. 1 \in Proc
    BY NPROCAssumption DEF Proc
  <2> QED
    BY <2>1 DEF TypeOK, Labels, Unlocked
<1>2. OneCpu /\ Owner
  BY NoneApart DEF OneCpu, Owner, HasLk, IntrHasLk
<1>3. ASSUME NEW p \in Proc PROVE Place(p)
  BY NoneApart DEF Place, OnCpu
<1>4. \A c \in Cpu : Interrupted(c)
  BY DEF Interrupted
<1>5. ClockType
  BY ClockAssumption DEF ClockType
<1>6. ClockOnly
  BY DEF ClockOnly, Napping, InSleep
<1> QED
  BY <1>1, <1>2, <1>3, <1>4, <1>5, <1>6 DEF IInv, SInv

\* Nothing changes.
LEMMA StutterKeeps == ASSUME IInv, UNCHANGED <<vars, clock>> PROVE IInv'
<1> USE DEF IInv, vars, schedVars, clock
<1>1. TypeOK'
  BY DEF SInv, TypeOK
<1>2. OneCpu' /\ Owner'
  BY DEF SInv, OneCpu, Owner, HasLk, IntrHasLk
<1>3. \A p \in Proc : Place(p)'
  BY PlaceKept DEF SInv, MayWake
<1>4. \A c \in Cpu : Interrupted(c)'
  BY DEF SInv, Interrupted
<1>5. ClockType'
  BY DEF ClockType
<1>6. ClockOnly'
  <2>1. ASSUME NEW q \in Proc, cpu0 # None PROVE Napping(q)'
    BY <2>1, NappingKept DEF ClockOnly
  <2> QED
    BY <2>1 DEF ClockOnly
<1> QED
  BY <1>1, <1>2, <1>3, <1>4, <1>5, <1>6 DEF SInv

\* The inductive invariant: a process's state and its p->lock follow from where
\* it is, lk belongs to whoever is between acquire() and release(), and whoever
\* sleeps in sys_sleep() still has time left or is about to be woken.
THEOREM Invariance == ClockSpec => []IInv
<1>1. ClockInit => IInv
  BY InitHolds
<1>2. IInv /\ [AnyNext]_<<vars, clock>> => IInv'
  <2>1. ASSUME IInv, AnyNext PROVE IInv'
    BY <2>1, AnyNextIs, StepKeeps, ClockTypeKept, ClockOnlyKept DEF IInv
  <2> QED
    BY <2>1, StutterKeeps
<1> QED
  BY <1>1, <1>2, PTL DEF ClockSpec

\* sys_sleep() is never asleep with its time over, but for the moment until the
\* wakeup() under way has come to it, whatever the width of ticks.
THEOREM NoTickIsMissed == ClockSpec => []NoTickMissed
<1>1. ASSUME IInv PROVE NoTickMissed
  <2> USE DEF IInv
  <2>1. CASE cpu0 = None
    BY <1>1, <2>1 DEF ClockType, NoTickMissed
  <2>2. ASSUME cpu0 # None, NEW p \in Proc, state[p] = "SLEEPING"
        PROVE  Elapsed(p) < nap[p].n \/ WillBeWoken(p)
    <3>1. Napping(p) /\ cpu0 \in Cpu
      BY <1>1, <2>2 DEF ClockOnly, ClockType
    <3>2. CASE Short(p)
      BY <3>2 DEF Short
    <3>3. CASE ClockWakes(p)
      <4>1. irq[cpu0].ch = chan[p]
        BY <1>1, <2>2, <3>1, <3>3 DEF ClockWakes, InHandler, ClockOnly, Napping
      <4> QED
        BY <3>1, <3>3, <4>1 DEF ClockWakes, WillBeWoken
    <3> QED
      BY <2>2, <3>1, <3>2, <3>3 DEF Napping
  <2> QED
    BY <2>1, <2>2 DEF NoTickMissed
<1> QED
  BY <1>1, Invariance, PTL

\* swtch() never runs one kernel stack twice: a process is on one CPU at most,
\* and there it is RUNNING or has its own p->lock.
THEOREM OneStack == ClockSpec => []OneStackOneCpu
<1>1. ASSUME IInv PROVE OneStackOneCpu
  <2> USE DEF IInv, SInv
  <2>1. ASSUME NEW p \in Proc
        PROVE  /\ state[p] = "RUNNING" => OnCpu(p)
               /\ OnCpu(p) => state[p] = "RUNNING" \/ plock[p] = p
    <3>1. Place(p)
      BY <1>1
    <3> QED
      BY <3>1 DEF Place
  <2> QED
    BY <1>1, <2>1 DEF OneStackOneCpu, OneCpu
<1> QED
  BY <1>1, Invariance, PTL

-----------------------------------------------------------------------------
(* sleep() and wakeup() implement Monitor.                                 *)

\* p's wakeup(), or the one of CPU c's handler, has still to come to q.
PWakes(p, q) == p # q /\ pc[p] = "wakeup" /\ idx[p] <= q /\ arg[p] = chan[q]
CWakes(c, q) == InHandler(c, "wakeup") /\ irq[c].i <= q /\ irq[c].ch = chan[q]

\* Only the holder of lk is in wakeup().
Wakers ==
  \A q \in Proc :
    /\ WillBeWoken(q) <=> (\E p \in Proc : PWakes(p, q)) \/ (\E c \in Cpu : CWakes(c, q))
    /\ \A p \in Proc : PWakes(p, q) => lk = p
    /\ \A c \in Cpu : CWakes(c, q) => lk = c

LEMMA OnlyHolderWakes == SInv => Wakers
<1>1. ASSUME NEW q \in Proc
      PROVE  WillBeWoken(q) <=> (\E p \in Proc : PWakes(p, q)) \/ (\E c \in Cpu : CWakes(c, q))
  BY DEF WillBeWoken, PWakes, CWakes
<1>2. ASSUME SInv, NEW q \in Proc, NEW p \in Proc, PWakes(p, q) PROVE lk = p
  BY <1>2 DEF SInv, Owner, HasLk, PWakes
<1>3. ASSUME SInv, NEW q \in Proc, NEW c \in Cpu, CWakes(c, q) PROVE lk = c
  BY <1>3 DEF SInv, Owner, IntrHasLk, CWakes, InHandler
<1> QED
  BY <1>1, <1>2, <1>3 DEF Wakers

\* What asleep is for a process and for a CPU.
AsleepIs ==
  /\ asleep \in [Proc \cup Cpu -> Channels \cup {None}]
  /\ \A q \in Proc : asleep[q] = IF state[q] = "SLEEPING" /\ ~WillBeWoken(q) THEN chan[q] ELSE None
  /\ \A c \in Cpu : asleep[c] = None

LEMMA AsleepHolds == SInv => AsleepIs
<1>1. ASSUME SInv PROVE asleep \in [Proc \cup Cpu -> Channels \cup {None}]
  <2>1. \A q \in Proc : chan[q] \in Channels \cup {None}
    BY <1>1 DEF SInv, TypeOK
  <2> QED
    BY <2>1 DEF asleep
<1>2. \A q \in Proc : asleep[q] = IF state[q] = "SLEEPING" /\ ~WillBeWoken(q) THEN chan[q] ELSE None
  BY DEF asleep
<1>3. \A c \in Cpu : asleep[c] = None
  BY NoneApart DEF asleep
<1> QED
  BY <1>1, <1>2, <1>3 DEF AsleepIs

\* They hold after a step too.
LEMMA After == ASSUME SInv' PROVE Wakers' /\ AsleepIs'
BY OnlyHolderWakes, AsleepHolds, PTL

\* A step that is not one of wakeup() leaves q asleep or awake.
NoWaker(r) == \/ pc'[r] = pc[r] /\ idx'[r] = idx[r] /\ arg'[r] = arg[r]
              \/ pc[r] # "wakeup" /\ pc'[r] # "wakeup"
NoIntrWaker(c) == \/ irq'[c] = irq[c]
                  \/ ~InHandler(c, "wakeup") /\ ~InHandler(c, "wakeup")'

LEMMA Quiet ==
  ASSUME SInv, SInv', NEW q \in Proc, \A r \in Proc : NoWaker(r), \A c \in Cpu : NoIntrWaker(c),
         \/ state'[q] = state[q] /\ chan'[q] = chan[q]
         \/ state[q] # "SLEEPING" /\ state'[q] # "SLEEPING"
  PROVE  asleep'[q] = asleep[q]
<1>1. Wakers /\ AsleepIs /\ Wakers' /\ AsleepIs'
  BY OnlyHolderWakes, AsleepHolds, After
<1>2. CASE state[q] # "SLEEPING" /\ state'[q] # "SLEEPING"
  BY <1>1, <1>2 DEF AsleepIs
<1>3. CASE state'[q] = state[q] /\ chan'[q] = chan[q]
  <2>1. ASSUME NEW p \in Proc PROVE PWakes(p, q)' <=> PWakes(p, q)
    BY <1>3 DEF PWakes, NoWaker
  <2>2. ASSUME NEW c \in Cpu PROVE CWakes(c, q)' <=> CWakes(c, q)
    BY <1>3 DEF CWakes, NoIntrWaker, InHandler
  <2>3. WillBeWoken(q)' <=> WillBeWoken(q)
    BY <1>1, <2>1, <2>2 DEF Wakers
  <2> QED
    BY <1>1, <1>3, <2>3 DEF AsleepIs
<1> QED
  BY <1>2, <1>3

\* When nobody's sleep begins or ends, asleep stays as it is.
LEMMA AllQuiet ==
  ASSUME SInv, SInv', \A q \in Proc : asleep'[q] = asleep[q] PROVE asleep' = asleep
<1>1. AsleepIs /\ AsleepIs'
  BY AsleepHolds, After
<1> QED
  BY <1>1 DEF AsleepIs

\* The step is one of the monitor, or does not concern it.
Monitored == M!Next \/ UNCHANGED <<lk, asleep>>

\* A process that runs is not asleep.
LEMMA AwakeOnCpu ==
  ASSUME SInv, NEW p \in Proc, OnCpu(p), pc[p] # "sched" PROVE asleep[p] = None
BY Running, AsleepHolds DEF AsleepIs

\* A step of p that neither begins nor ends anybody's sleep.
LEMMA ThreadQuiet ==
  ASSUME SInv, SInv', NEW p \in Proc, pc[p] # "wakeup", pc'[p] # "wakeup", irq' = irq,
         \A r \in Proc \ {p} : /\ pc'[r] = pc[r] /\ idx'[r] = idx[r] /\ arg'[r] = arg[r]
                               /\ state'[r] = state[r] /\ chan'[r] = chan[r],
         \/ state'[p] = state[p] /\ chan'[p] = chan[p]
         \/ state[p] # "SLEEPING" /\ state'[p] # "SLEEPING"
  PROVE  asleep' = asleep
<1>1. \A r \in Proc : NoWaker(r)
  BY DEF NoWaker
<1>2. \A c \in Cpu : NoIntrWaker(c)
  BY DEF NoIntrWaker
<1>3. ASSUME NEW q \in Proc PROVE asleep'[q] = asleep[q]
  <2>1. CASE q = p
    BY <1>1, <1>2, <2>1, Quiet
  <2>2. CASE q # p
    <3>1. state'[q] = state[q] /\ chan'[q] = chan[q]
      BY <2>2
    <3> QED
      BY <1>1, <1>2, <3>1, Quiet
  <2> QED
    BY <2>1, <2>2
<1> QED
  BY <1>3, AllQuiet

\* acquire(lk), by the caller or at the end of sleep().
LEMMA EnterMonitor ==
  ASSUME SInv, SInv', NEW p \in Proc, Enter(p) \/ Relock(p) PROVE M!Enter(p)
<1>1. /\ pc[p] \in Unlocked /\ OnCpu(p) /\ lk = None /\ lk' = p
      /\ pc' = [pc EXCEPT ![p] = "locked"] /\ UNCHANGED <<state, chan, idx, irq>>
      /\ (arg' = arg \/ arg' = [arg EXCEPT ![p] = None])
  BY DEF Enter, Relock, At, Goto, Unlocked
<1>2. pc'[p] = "locked" /\ \A r \in Proc \ {p} : pc'[r] = pc[r] /\ arg'[r] = arg[r]
  BY <1>1 DEF SInv, TypeOK
<1>3. asleep' = asleep
  BY <1>1, <1>2, ThreadQuiet DEF Unlocked
<1>4. asleep[p] = None
  BY <1>1, AwakeOnCpu DEF Unlocked
<1> QED
  BY <1>1, <1>3, <1>4 DEF M!Enter

\* The caller's release(lk).
LEMMA LeaveMonitor == ASSUME SInv, SInv', NEW p \in Proc, Leave(p) PROVE M!Exit(p)
<1>1. /\ pc[p] = "locked" /\ lk' = None /\ pc' = [pc EXCEPT ![p] = "user"]
      /\ UNCHANGED <<state, chan, idx, irq, arg>>
  BY DEF Leave, At, Goto
<1>2. pc'[p] = "user" /\ \A r \in Proc \ {p} : pc'[r] = pc[r]
  BY <1>1 DEF SInv, TypeOK
<1>3. asleep' = asleep
  BY <1>1, <1>2, ThreadQuiet, Zenon
<1>4. lk = p
  BY <1>1 DEF SInv, Owner, HasLk
<1> QED
  BY <1>1, <1>3, <1>4 DEF M!Exit

\* sleep()'s release(lk).
LEMMA SleepMonitor ==
  ASSUME SInv, SInv', NEW p \in Proc, SleepUnlock(p)
  PROVE  \E ch \in Channels : M!Sleep(p, ch)
<1>1. /\ pc[p] = "sleep_release" /\ OnCpu(p) /\ lk' = None /\ pc' = [pc EXCEPT ![p] = "sched"]
      /\ chan' = [chan EXCEPT ![p] = arg[p]] /\ state' = [state EXCEPT ![p] = "SLEEPING"]
      /\ UNCHANGED <<arg, idx, irq>>
  BY DEF SleepUnlock, SleepRelease, At, Goto
<1>2. /\ pc'[p] = "sched" /\ chan'[p] = arg[p] /\ state'[p] = "SLEEPING"
      /\ \A r \in Proc \ {p} : pc'[r] = pc[r] /\ chan'[r] = chan[r] /\ state'[r] = state[r]
  BY <1>1 DEF SInv, TypeOK
<1>3. PICK ch \in Channels : ch = arg[p]
  <2>1. Place(p) /\ arg[p] \in Channels \cup {None}
    BY DEF SInv, TypeOK
  <2> QED
    BY <1>1, <2>1 DEF Place
<1>4. lk = p
  BY <1>1 DEF SInv, Owner, HasLk
<1>5. AsleepIs /\ AsleepIs' /\ Wakers'
  BY AsleepHolds, After
<1>6. ~WillBeWoken(p)'
  BY <1>1, <1>5, NoneApart DEF Wakers
<1>7. asleep'[p] = ch
  BY <1>2, <1>3, <1>5, <1>6 DEF AsleepIs
<1>8. ASSUME NEW q \in Proc \ {p} PROVE asleep'[q] = asleep[q]
  <2>1. \A r \in Proc : NoWaker(r)
    BY <1>1, <1>2 DEF NoWaker
  <2>2. \A c \in Cpu : NoIntrWaker(c)
    BY <1>1 DEF NoIntrWaker
  <2> QED
    BY <1>2, <2>1, <2>2, Quiet, Zenon
<1>9. asleep' = [asleep EXCEPT ![p] = ch]
  BY <1>5, <1>7, <1>8 DEF AsleepIs
<1> QED
  BY Zenon, <1>1, <1>3, <1>4, <1>9 DEF M!Sleep

\* The other steps of a process, outside wakeup() and kill().
LEMMA ThreadStutters ==
  ASSUME SInv, SInv', NEW p \in Proc,
         \/ SleepLock(p) \/ Preempt(p) \/ Switch(p)
         \/ \E ch \in Channels : CallSleep(p, ch)
  PROVE  UNCHANGED <<lk, asleep>>
<1>1. UNCHANGED <<lk, idx, irq>>
  BY DEF SleepLock, Preempt, Switch, CallSleep
<1>2. CASE SleepLock(p)
  <2>1. /\ pc[p] = "sleep" /\ pc' = [pc EXCEPT ![p] = "sleep_release"] /\ UNCHANGED <<state, chan, arg>>
    BY <1>2 DEF SleepLock, SleepAcquire, At, Goto
  <2>2. pc'[p] = "sleep_release" /\ \A r \in Proc \ {p} : pc'[r] = pc[r]
    BY <2>1, Zenon DEF SInv, TypeOK
  <2> QED
    BY <1>1, <2>1, <2>2, ThreadQuiet
<1>3. CASE Preempt(p)
  <2>1. Yield(p, Unlocked) /\ arg' = arg
    BY <1>3 DEF Preempt
  <2>2. /\ pc[p] \in Unlocked /\ pc'[p] = "sched" /\ state'[p] = "RUNNABLE" /\ chan' = chan
        /\ \A r \in Proc \ {p} : pc'[r] = pc[r] /\ state'[r] = state[r]
        /\ state[p] = "RUNNING"
    BY <2>1, YieldEffect, Zenon
  <2> QED
    BY <1>1, <2>1, <2>2, ThreadQuiet, Zenon DEF Unlocked
<1>4. CASE SchedOut(p) /\ arg' = arg
  <2>1. /\ pc[p] = "sched" /\ pc' = [pc EXCEPT ![p] = "switched"] /\ UNCHANGED <<state, chan, arg>>
    BY <1>4 DEF SchedOut, At, Goto
  <2>2. pc'[p] = "switched" /\ \A r \in Proc \ {p} : pc'[r] = pc[r]
    BY <2>1, Zenon DEF SInv, TypeOK
  <2> QED
    BY <1>1, <2>1, <2>2, ThreadQuiet
<1>5. CASE Resume(p) /\ arg' = arg
  <2>1. /\ pc[p] = "switched" /\ OnCpu(p) /\ pc' = [pc EXCEPT ![p] = ret[p]]
        /\ chan' = [chan EXCEPT ![p] = None] /\ UNCHANGED <<state, arg>>
    BY <1>5 DEF Resume, At, Goto
  <2>2. /\ pc'[p] \in Unlocked /\ \A r \in Proc \ {p} : pc'[r] = pc[r] /\ chan'[r] = chan[r]
    BY <2>1, Zenon DEF SInv, TypeOK
  <2>3. state[p] = "RUNNING"
    BY <2>1, Running, Zenon
  <2> QED
    BY <1>1, <2>1, <2>2, <2>3, ThreadQuiet, Zenon DEF Unlocked
<1>6. ASSUME NEW ch \in Channels, CallSleep(p, ch) PROVE asleep' = asleep
  <2>1. /\ pc[p] = "locked" /\ pc' = [pc EXCEPT ![p] = "sleep"] /\ UNCHANGED <<state, chan>>
        /\ arg' = [arg EXCEPT ![p] = ch]
    BY <1>6 DEF CallSleep, At, Goto
  <2>2. pc'[p] = "sleep" /\ \A r \in Proc \ {p} : pc'[r] = pc[r] /\ arg'[r] = arg[r]
    BY <2>1, Zenon DEF SInv, TypeOK
  <2> QED
    BY <1>1, <2>1, <2>2, ThreadQuiet
<1> QED
  BY <1>1, <1>2, <1>3, <1>4, <1>5, <1>6 DEF Switch

\* A call of wakeup(ch) by x, a process or a handler with lk: from now on it will
\* wake everyone who sleeps on ch, and before nobody was waking anybody.
LEMMA CallMonitor ==
  ASSUME SInv, SInv', NEW x \in Proc \cup Cpu, NEW ch \in Channels, UNCHANGED <<lk, state, chan>>, lk = x,
         \A q \in Proc : ~WillBeWoken(q),
         \A q \in Proc : state[q] = "SLEEPING" => (WillBeWoken(q)' <=> chan[q] = ch)
  PROVE  M!Wakeup(x, ch)
<1>1. AsleepIs /\ AsleepIs'
  BY AsleepHolds, After
<1>2. ASSUME NEW q \in Proc PROVE asleep'[q] = IF asleep[q] = ch THEN None ELSE asleep[q]
  BY <1>1, NoneApart DEF AsleepIs
<1>3. ASSUME NEW c \in Cpu PROVE asleep'[c] = IF asleep[c] = ch THEN None ELSE asleep[c]
  BY <1>1 DEF AsleepIs
<1>4. asleep' = [q \in Proc \cup Cpu |-> IF asleep[q] = ch THEN None ELSE asleep[q]]
  <2>1. asleep' \in [Proc \cup Cpu -> Channels \cup {None}]
    BY <1>1 DEF AsleepIs
  <2> QED
    BY ONLY <1>2, <1>3, <2>1
<1> QED
  BY <1>4 DEF M!Wakeup

LEMMA CallWakeupMonitor ==
  ASSUME SInv, SInv', NEW p \in Proc, NEW ch \in Channels, CallWakeup(p, ch) PROVE M!Wakeup(p, ch)
<1>1. /\ pc[p] = "locked" /\ OnCpu(p) /\ pc' = [pc EXCEPT ![p] = "wakeup"]
      /\ arg' = [arg EXCEPT ![p] = ch] /\ idx' = [idx EXCEPT ![p] = 1]
      /\ UNCHANGED <<lk, state, chan, irq>>
  BY DEF CallWakeup, At, Goto
<1>2. pc'[p] = "wakeup" /\ arg'[p] = ch /\ idx'[p] = 1
  <2>1. p \in DOMAIN pc /\ p \in DOMAIN arg /\ p \in DOMAIN idx
    BY DEF SInv, TypeOK
  <2> QED
    BY ONLY <1>1, <2>1
<1>3. lk = p /\ state[p] = "RUNNING"
  BY <1>1, Running DEF SInv, Owner, HasLk
<1>4. Wakers /\ Wakers'
  BY OnlyHolderWakes, After
<1>5. ASSUME NEW q \in Proc PROVE ~WillBeWoken(q)
  <2>1. \A r \in Proc : ~PWakes(r, q)
    BY <1>1, <1>3, <1>4 DEF Wakers, PWakes
  <2>2. \A c \in Cpu : ~CWakes(c, q)
    BY <1>3, <1>4, NoneApart DEF Wakers
  <2> QED
    BY <1>4, <2>1, <2>2 DEF Wakers
<1>6. ASSUME NEW q \in Proc, state[q] = "SLEEPING" PROVE WillBeWoken(q)' <=> chan[q] = ch
  <2>1. \A r \in Proc \ {p} : ~PWakes(r, q)'
    BY <1>1, <1>3, <1>4 DEF Wakers
  <2>2. \A c \in Cpu : ~CWakes(c, q)'
    BY <1>1, <1>3, <1>4, NoneApart DEF Wakers
  <2>3. PWakes(p, q)' <=> chan[q] = ch
    BY <1>1, <1>2, <1>3, <1>6 DEF PWakes, Proc
  <2> QED
    BY <1>4, <2>1, <2>2, <2>3 DEF Wakers
<1> QED
  BY <1>1, <1>3, <1>5, <1>6, CallMonitor

LEMMA IntrCallMonitor ==
  ASSUME SInv, SInv', NEW c \in Cpu, IntrCall(c) PROVE \E ch \in Channels : M!Wakeup(c, ch)
<1>1. /\ InHandler(c, "locked") /\ UNCHANGED <<lk, state, chan, pc, idx, arg>>
      /\ irq' = [irq EXCEPT ![c] = [irq[c] EXCEPT !.pc = "wakeup"]]
  BY DEF IntrCall, Handler, schedVars
<1>2. PICK r \in Handlers : r = irq[c] /\ r.i = 1 /\ r.pc = "locked" /\ r.ch \in Channels /\ lk = c
  <2>1. irq[c] \in Handlers /\ irq[c].i = 1 /\ irq[c].pc = "locked" /\ irq[c].ch \in Channels /\ lk = c
    BY <1>1, HandlerAt
  <2> QED
    BY <2>1
<1>3. PICK ch \in Channels : ch = r.ch
  BY <1>2
<1>4. irq'[c] # None /\ irq'[c].pc = "wakeup" /\ irq'[c].i = 1 /\ irq'[c].ch = ch
  <2>1. /\ [r EXCEPT !.pc = "wakeup"].pc = "wakeup" /\ [r EXCEPT !.pc = "wakeup"] \in Handlers
        /\ [r EXCEPT !.pc = "wakeup"].i = r.i /\ [r EXCEPT !.pc = "wakeup"].ch = r.ch
    BY Zenon, HandlerGoto
  <2>2. irq'[c] = [r EXCEPT !.pc = "wakeup"]
    BY <1>1, <1>2 DEF SInv, TypeOK
  <2> QED
    BY <1>2, <1>3, <2>1, <2>2, NoneApart
<1>5. Wakers /\ Wakers'
  BY OnlyHolderWakes, After
<1>6. ASSUME NEW q \in Proc PROVE ~WillBeWoken(q)
  <2>1. \A p \in Proc : ~PWakes(p, q)
    BY <1>2, <1>5, NoneApart DEF Wakers
  <2>2. \A d \in Cpu : ~CWakes(d, q)
    BY <1>2, <1>5 DEF Wakers, CWakes, InHandler
  <2> QED
    BY <1>5, <2>1, <2>2 DEF Wakers
<1>7. ASSUME NEW q \in Proc PROVE WillBeWoken(q)' <=> chan[q] = ch
  <2>1. \A p \in Proc : ~PWakes(p, q)'
    BY <1>1, <1>2, <1>5, NoneApart DEF Wakers
  <2>2. \A d \in Cpu \ {c} : ~CWakes(d, q)'
    BY <1>1, <1>2, <1>5 DEF Wakers
  <2>3. CWakes(c, q)' <=> chan[q] = ch
    BY <1>1, <1>4 DEF CWakes, InHandler, Proc
  <2> QED
    BY <1>5, <2>1, <2>2, <2>3 DEF Wakers
<1>8. M!Wakeup(c, ch)
  BY <1>1, <1>2, <1>6, <1>7, CallMonitor
<1> QED
  BY <1>8

\* An iteration of wakeup(ch) at slot i: whom it wakes was on its way to be woken,
\* and the others stay so or not.
LEMMA IterationStutters ==
  ASSUME SInv, SInv', NEW x, NEW i \in Proc, NEW ch \in Channels, WakeupOne(x, i, ch),
         x \in Proc => state[x] = "RUNNING",
         \A q \in Proc \ {x} : WillBeWoken(q) <=> i <= q /\ chan[q] = ch,
         \A q \in Proc \ {x, i} : WillBeWoken(q)' <=> WillBeWoken(q),
         i # x /\ chan[i] # ch => ~WillBeWoken(i)'
  PROVE  asleep' = asleep
<1>1. AsleepIs /\ AsleepIs'
  BY AsleepHolds, After
<1>2. chan' = chan /\ \A r \in Proc \ {i} : state'[r] = state[r]
  BY WakeupOneWakes DEF WakeupOne
<1>3. ASSUME NEW q \in Proc PROVE asleep'[q] = asleep[q]
  <2>1. CASE q = x
    <3>1. state'[q] = state[q]
      BY <2>1 DEF WakeupOne
    <3> QED
      BY <1>1, <2>1, <3>1 DEF AsleepIs
  <2>2. CASE q # x /\ q # i
    BY <1>1, <1>2, <2>2 DEF AsleepIs
  <2>3. CASE q # x /\ q = i /\ chan[q] = ch
    <3>1. WillBeWoken(q)
      BY <2>3 DEF Proc
    <3>2. state'[q] # "SLEEPING"
      BY <2>3 DEF WakeupOne, SInv, TypeOK
    <3> QED
      BY <1>1, <3>1, <3>2 DEF AsleepIs
  <2>4. CASE q # x /\ q = i /\ chan[q] # ch
    <3>1. state' = state
      BY <2>4 DEF WakeupOne
    <3> QED
      BY <1>1, <1>2, <2>4, <3>1 DEF AsleepIs
  <2> QED
    BY <2>1, <2>2, <2>3, <2>4
<1> QED
  BY <1>3, AllQuiet

\* wakeup() in a process.
LEMMA WakeupStutters == ASSUME SInv, SInv', NEW p \in Proc, Wakeup(p) PROVE UNCHANGED <<lk, asleep>>
<1>1. /\ pc[p] = "wakeup" /\ OnCpu(p) /\ WakeupOne(p, idx[p], arg[p]) /\ UNCHANGED <<lk, irq, chan>>
      /\ idx' = [idx EXCEPT ![p] = NextSlot(idx[p])]
  BY DEF Wakeup, At, WakeupOne
<1>2. PICK i \in Proc, ch \in Channels : i = idx[p] /\ ch = arg[p]
  <2>1. Place(p) /\ idx[p] \in Proc /\ arg[p] \in Channels \cup {None}
    BY DEF SInv, TypeOK
  <2> QED
    BY <1>1, <2>1, Zenon DEF Place
<1>3. lk = p /\ state[p] = "RUNNING"
  BY <1>1, Running, Zenon DEF SInv, Owner, HasLk
<1>4. \/ i = NPROC /\ pc'[p] = "locked"
      \/ i # NPROC /\ idx'[p] = i + 1 /\ arg'[p] = ch /\ pc'[p] = "wakeup"
  <2>1. CASE i = NPROC
    <3>1. pc' = [pc EXCEPT ![p] = "locked"] /\ pc \in [Proc -> Labels]
      BY <1>2, <2>1 DEF Wakeup, Goto, SInv, TypeOK
    <3> QED
      BY <2>1, <3>1
  <2>2. CASE i # NPROC
    BY <1>1, <1>2, <2>2 DEF Wakeup, NextSlot, SInv, TypeOK
  <2> QED
    BY <2>1, <2>2
<1>5. Wakers /\ Wakers'
  BY OnlyHolderWakes, After
<1>6. ASSUME NEW q \in Proc \ {p}
      PROVE  /\ WillBeWoken(q) <=> PWakes(p, q)
             /\ WillBeWoken(q)' <=> PWakes(p, q)'
  <2>1. \A r \in Proc \ {p} : ~PWakes(r, q) /\ ~PWakes(r, q)'
    BY <1>1, <1>3, <1>5, Zenon DEF Wakers
  <2>2. \A c \in Cpu : ~CWakes(c, q) /\ ~CWakes(c, q)'
    BY <1>1, <1>3, <1>5, NoneApart, Zenon DEF Wakers
  <2> QED
    BY <1>5, <2>1, <2>2 DEF Wakers
<1>7. ASSUME NEW q \in Proc \ {p} PROVE WillBeWoken(q) <=> i <= q /\ chan[q] = ch
  BY <1>1, <1>2, <1>6 DEF PWakes
<1>8. ASSUME NEW q \in Proc \ {p}
      PROVE  WillBeWoken(q)' <=> i # NPROC /\ i + 1 <= q /\ chan[q] = ch
  BY <1>1, <1>4, <1>6 DEF PWakes
<1>9. ASSUME NEW q \in Proc \ {p, i} PROVE WillBeWoken(q)' <=> WillBeWoken(q)
  <2>1. i \in Nat /\ q \in Nat /\ NPROC \in Nat /\ q <= NPROC /\ q # i
    BY NPROCAssumption DEF Proc
  <2>2. i # NPROC /\ i + 1 <= q <=> i <= q
    BY <2>1
  <2> QED
    BY <1>7, <1>8, <2>2
<1>10. WakeupOne(p, i, ch)
  BY <1>1, <1>2
<1>11. i # p /\ chan[i] # ch => ~WillBeWoken(i)'
  BY <1>8
<1>12. asleep' = asleep
  BY <1>3, <1>7, <1>9, <1>10, <1>11, IterationStutters
<1> QED
  BY <1>1, <1>12

\* wakeup() in a handler.
LEMMA IntrWakeupStutters ==
  ASSUME SInv, SInv', NEW c \in Cpu, IntrWakeup(c) PROVE UNCHANGED <<lk, asleep>>
<1>1. /\ InHandler(c, "wakeup") /\ UNCHANGED <<pc, lk, arg, idx, chan>>
      /\ WakeupOne(cproc[c], irq[c].i, irq[c].ch)
      /\ irq' = [irq EXCEPT ![c] = IF irq[c].i = NPROC THEN [irq[c] EXCEPT !.pc = "unlock"]
                                   ELSE [irq[c] EXCEPT !.i = @ + 1]]
  BY DEF IntrWakeup, Handler, WakeupOne
<1>2. PICK r \in Handlers : /\ r = irq[c] /\ r.pc = "wakeup" /\ r.i \in Proc /\ r.ch \in Channels /\ lk = c
                            /\ cproc[c] # None => pc[cproc[c]] \in Unlocked
  <2>1. /\ irq[c] \in Handlers /\ irq[c].pc = "wakeup" /\ irq[c].i \in Proc /\ irq[c].ch \in Channels
        /\ lk = c
        /\ cproc[c] # None => pc[cproc[c]] \in Unlocked
    BY <1>1, HandlerAt
  <2> QED
    BY <2>1
<1>3. PICK i \in Proc, ch \in Channels, x \in Proc \cup {None} : i = r.i /\ ch = r.ch /\ x = cproc[c]
  BY <1>2 DEF SInv, TypeOK
<1>4. \/ i = NPROC /\ irq'[c].pc = "unlock"
      \/ i # NPROC /\ irq'[c] # None /\ irq'[c].pc = "wakeup" /\ irq'[c].i = i + 1 /\ irq'[c].ch = ch
  <2>1. CASE i = NPROC
    <3>1. [r EXCEPT !.pc = "unlock"].pc = "unlock"
      BY HandlerGoto
    <3> QED
      BY <1>1, <1>2, <1>3, <2>1, <3>1 DEF SInv, TypeOK
  <2>2. CASE i # NPROC
    <3>1. [r EXCEPT !.i = @ + 1] \in Handlers /\ [r EXCEPT !.i = @ + 1].pc = "wakeup"
      BY <1>2, <1>3, <2>2, HandlerNext
    <3>2. [r EXCEPT !.i = @ + 1].ch = r.ch /\ [r EXCEPT !.i = @ + 1].i = r.i + 1
      BY DEF Handlers
    <3>3. irq'[c] = [r EXCEPT !.i = @ + 1]
      BY <1>1, <1>2, <1>3, <2>2 DEF SInv, TypeOK
    <3> QED
      BY <1>3, <2>2, <3>1, <3>2, <3>3, NoneApart
  <2> QED
    BY <2>1, <2>2
<1>5. Wakers /\ Wakers'
  BY OnlyHolderWakes, After
<1>6. ASSUME NEW q \in Proc
      PROVE  /\ WillBeWoken(q) <=> CWakes(c, q)
             /\ WillBeWoken(q)' <=> CWakes(c, q)'
  <2>1. \A p \in Proc : ~PWakes(p, q) /\ ~PWakes(p, q)'
    BY <1>1, <1>2, <1>5, NoneApart DEF Wakers
  <2>2. \A d \in Cpu \ {c} : ~CWakes(d, q) /\ ~CWakes(d, q)'
    BY <1>1, <1>2, <1>5 DEF Wakers
  <2> QED
    BY <1>5, <2>1, <2>2 DEF Wakers
<1>7. ASSUME NEW q \in Proc PROVE WillBeWoken(q) <=> i <= q /\ chan[q] = ch
  BY <1>1, <1>2, <1>3, <1>6 DEF CWakes
<1>8. ASSUME NEW q \in Proc
      PROVE  WillBeWoken(q)' <=> i # NPROC /\ i + 1 <= q /\ chan[q] = ch
  BY <1>1, <1>4, <1>6 DEF CWakes, InHandler
<1>9. ASSUME NEW q \in Proc \ {x, i} PROVE WillBeWoken(q)' <=> WillBeWoken(q)
  <2>1. i \in Nat /\ q \in Nat /\ NPROC \in Nat /\ q <= NPROC /\ q # i
    BY NPROCAssumption DEF Proc
  <2>2. i # NPROC /\ i + 1 <= q <=> i <= q
    BY <2>1
  <2> QED
    BY <1>7, <1>8, <2>2
<1>10. WakeupOne(x, i, ch)
  BY <1>1, <1>2, <1>3
<1>11. i # x /\ chan[i] # ch => ~WillBeWoken(i)'
  BY <1>8
<1>12. x \in Proc => state[x] = "RUNNING"
  <2>1. ASSUME x \in Proc PROVE OnCpu(x) /\ pc[x] # "sched"
    BY <1>2, <1>3, <2>1, NoneApart DEF OnCpu, Unlocked
  <2> QED
    BY <2>1, Running
<1>13. asleep' = asleep
  BY <1>7, <1>9, <1>10, <1>11, <1>12, IterationStutters
<1> QED
  BY <1>1, <1>13

\* kill().
LEMMA KillMonitored ==
  ASSUME SInv, SInv', NEW p \in Proc, NEW q \in Proc, Kill(p, q)
  PROVE  M!Interrupted(q) \/ UNCHANGED <<lk, asleep>>
<1>1. UNCHANGED <<pc, lk, arg, idx, irq, chan>>
  BY DEF Kill, KillOne
<1>2. state' = IF state[q] = "SLEEPING" THEN [state EXCEPT ![q] = "RUNNABLE"] ELSE state
  BY DEF Kill, KillOne
<1>3. ASSUME NEW r \in Proc, state'[r] = state[r] PROVE asleep'[r] = asleep[r]
  BY <1>1, <1>3, Quiet DEF NoWaker, NoIntrWaker
<1>4. CASE state[q] # "SLEEPING"
  BY <1>1, <1>2, <1>3, <1>4, AllQuiet
<1>5. CASE state[q] = "SLEEPING"
  <2>1. state'[q] = "RUNNABLE" /\ \A r \in Proc \ {q} : state'[r] = state[r]
    BY <1>2, <1>5 DEF SInv, TypeOK
  <2>2. AsleepIs /\ AsleepIs'
    BY AsleepHolds, After
  <2>3. asleep'[q] = None /\ \A r \in Proc \ {q} : asleep'[r] = asleep[r]
    BY <1>3, <2>1, <2>2 DEF AsleepIs
  <2>4. CASE asleep[q] = None
    BY <1>1, <2>3, <2>4, AllQuiet
  <2>5. CASE asleep[q] # None
    <3>1. asleep' = [asleep EXCEPT ![q] = None]
      BY <2>2, <2>3 DEF AsleepIs
    <3> QED
      BY <1>1, <2>5, <3>1 DEF M!Interrupted
  <2> QED
    BY <2>4, <2>5
<1> QED
  BY <1>4, <1>5

\* scheduler().
LEMMA ScheduleStutters == ASSUME SInv, SInv', NEW c \in Cpu, Schedule(c) PROVE UNCHANGED <<lk, asleep>>
<1>1. UNCHANGED <<pc, lk, arg, idx, irq, chan>>
  BY DEF Schedule, Scheduler
<1>2. PICK p \in Proc : p = scan[c]
  BY DEF SInv, TypeOK
<1>3. \/ state' = state
      \/ state[p] = "RUNNABLE" /\ state' = [state EXCEPT ![p] = "RUNNING"]
  BY <1>2 DEF Schedule, Scheduler
<1>4. ASSUME NEW q \in Proc PROVE asleep'[q] = asleep[q]
  <2>1. state'[q] = state[q] \/ (state[q] # "SLEEPING" /\ state'[q] # "SLEEPING")
    BY <1>3 DEF SInv, TypeOK
  <2>2. chan'[q] = chan[q] /\ (\A r \in Proc : NoWaker(r)) /\ \A d \in Cpu : NoIntrWaker(d)
    BY <1>1, Zenon DEF NoWaker, NoIntrWaker
  <2> QED
    BY Zenon, <2>1, <2>2, Quiet
<1> QED
  BY <1>1, <1>4, AllQuiet

\* A step of a handler that is not one of wakeup().
LEMMA HandlerQuiet ==
  ASSUME SInv, SInv', NEW c \in Cpu, NEW h \in Handlers \cup {None}, irq' = [irq EXCEPT ![c] = h],
         ~InHandler(c, "wakeup"), h # None => h.pc # "wakeup",
         UNCHANGED <<idx, arg, chan>>,
         \A r \in Proc : pc'[r] = pc[r] \/ (pc[r] # "wakeup" /\ pc'[r] # "wakeup"),
         \A r \in Proc : state'[r] = state[r] \/ (state[r] # "SLEEPING" /\ state'[r] # "SLEEPING")
  PROVE  asleep' = asleep
<1>1. irq'[c] = h /\ \A d \in Cpu \ {c} : irq'[d] = irq[d]
  BY DEF SInv, TypeOK
<1>2. \A d \in Cpu : NoIntrWaker(d)
  BY <1>1, Zenon DEF NoIntrWaker, InHandler
<1>3. \A r \in Proc : NoWaker(r)
  BY Zenon DEF NoWaker
<1> QED
  BY Zenon, <1>2, <1>3, Quiet, AllQuiet

\* What scheduler() and the handlers do.
LEMMA CpuMonitored == ASSUME SInv, SInv', NEW c \in Cpu, CpuStep(c) PROVE Monitored
<1>0. ASSUME NEW l \in {"lock", "unlock", "yield"}, InHandler(c, l) PROVE ~InHandler(c, "wakeup")
  BY <1>0 DEF InHandler
<1>1. CASE Schedule(c)
  BY <1>1, ScheduleStutters DEF Monitored
<1>2. ASSUME NEW ch \in Channels, Interrupt(c, ch) PROVE Monitored
  <2>1. /\ irq[c] = None /\ irq' = [irq EXCEPT ![c] = [pc |-> "lock", ch |-> ch, i |-> 1]]
        /\ UNCHANGED <<state, chan, pc, lk, arg, idx>>
    BY <1>2, Zenon DEF Interrupt, Handler, schedVars
  <2>2. PICK h \in Handlers : h = [pc |-> "lock", ch |-> ch, i |-> 1] /\ h.pc = "lock"
    <3>1. 1 \in Proc
      BY NPROCAssumption DEF Proc
    <3>2. [pc |-> "lock", ch |-> ch, i |-> 1] \in Handlers
      BY <3>1 DEF Handlers
    <3> QED
      BY <3>2
  <2>3. ~InHandler(c, "wakeup")
    BY <2>1 DEF InHandler
  <2> QED
    BY Zenon, <2>1, <2>2, <2>3, HandlerQuiet DEF Monitored
<1>3. CASE IntrLock(c)
  <2>1. /\ InHandler(c, "lock") /\ lk = None /\ lk' = c
        /\ irq' = [irq EXCEPT ![c] = [irq[c] EXCEPT !.pc = "locked"]]
        /\ UNCHANGED <<state, chan, pc, arg, idx>>
    BY <1>3 DEF IntrLock, Handler, schedVars
  <2>2. PICK r \in Handlers : r = irq[c]
    BY <2>1, HandlerAt
  <2>3. PICK h \in Handlers : h = [r EXCEPT !.pc = "locked"] /\ h.pc = "locked"
    BY Zenon, HandlerGoto
  <2>4. asleep' = asleep
    BY Zenon, <1>0, <2>1, <2>2, <2>3, HandlerQuiet
  <2>5. M!Enter(c)
    BY <2>1, <2>4, AsleepHolds DEF AsleepIs, M!Enter
  <2> QED
    BY <2>5 DEF Monitored, M!Next
<1>4. CASE IntrCall(c)
  BY <1>4, IntrCallMonitor DEF Monitored, M!Next
<1>5. CASE IntrWakeup(c)
  BY <1>5, IntrWakeupStutters DEF Monitored
<1>6. ASSUME NEW h \in Handlers \cup {None}, h # None => h.pc = "yield", IntrUnlock(c, h) PROVE Monitored
  <2>1. /\ InHandler(c, "unlock") /\ lk' = None /\ irq' = [irq EXCEPT ![c] = h]
        /\ UNCHANGED <<state, chan, pc, arg, idx>>
    BY <1>6 DEF IntrUnlock, Handler, schedVars
  <2>2. asleep' = asleep
    BY Zenon, <1>0, <1>6, <2>1, HandlerQuiet
  <2>3. lk = c
    BY <2>1, HandlerAt
  <2>4. M!Exit(c)
    BY <2>1, <2>2, <2>3 DEF M!Exit
  <2> QED
    BY <2>4 DEF Monitored, M!Next
<1>7. CASE HandlerYield(c) /\ cproc[c] # None
  <2>1. PICK p \in Proc : cproc[c] = p
    BY <1>7 DEF SInv, TypeOK
  <2>2. /\ InHandler(c, "yield") /\ Yield(p, Unlocked) /\ irq' = [irq EXCEPT ![c] = None]
        /\ UNCHANGED <<lk, arg, idx>>
    BY <1>7, <2>1 DEF HandlerYield, Handler
  <2>3. /\ pc[p] \in Unlocked /\ pc'[p] = "sched" /\ state'[p] = "RUNNABLE" /\ chan' = chan
        /\ \A r \in Proc \ {p} : pc'[r] = pc[r] /\ state'[r] = state[r]
        /\ state[p] = "RUNNING"
    BY <2>2, YieldEffect, Zenon
  <2>4. ASSUME NEW r \in Proc
        PROVE  /\ pc'[r] = pc[r] \/ (pc[r] # "wakeup" /\ pc'[r] # "wakeup")
               /\ state'[r] = state[r] \/ (state[r] # "SLEEPING" /\ state'[r] # "SLEEPING")
    BY <2>3 DEF Unlocked
  <2>5. asleep' = asleep
    BY Zenon, <1>0, <2>2, <2>3, <2>4, HandlerQuiet
  <2> QED
    BY <2>2, <2>5 DEF Monitored
<1> QED
  BY <1>1, <1>2, <1>3, <1>4, <1>5, <1>6, <1>7, Zenon DEF CpuStep

\* What a process does.
LEMMA ThreadMonitored == ASSUME SInv, SInv', NEW p \in Proc, ThreadStep(p) PROVE Monitored
<1>1. CASE Enter(p) \/ Relock(p)
  BY <1>1, EnterMonitor DEF Monitored, M!Next
<1>2. CASE Leave(p)
  BY <1>2, LeaveMonitor DEF Monitored, M!Next
<1>3. CASE SleepUnlock(p)
  BY <1>3, SleepMonitor DEF Monitored, M!Next
<1>4. CASE Wakeup(p)
  BY <1>4, WakeupStutters DEF Monitored
<1>5. CASE SleepLock(p) \/ Preempt(p) \/ Switch(p) \/ \E ch \in Channels : CallSleep(p, ch)
  BY <1>5, ThreadStutters DEF Monitored
<1>6. ASSUME NEW ch \in Channels, CallWakeup(p, ch) PROVE Monitored
  BY <1>6, CallWakeupMonitor DEF Monitored, M!Next
<1>7. ASSUME NEW q \in Proc, Kill(p, q) PROVE Monitored
  BY <1>7, KillMonitored DEF Monitored, M!Next
<1> QED
  BY <1>1, <1>2, <1>3, <1>4, <1>5, <1>6, <1>7 DEF ThreadStep

\* sleep() and wakeup() are a monitor, whatever processes and handlers call them,
\* however wakeup()'s loop interleaves with them: to go to sleep is to release lk
\* in the same step, and a wakeup() ends the sleep of everyone on its channel.
THEOREM SleepIsMonitor == ClockSpec => ImplementsMonitor
<1>1. ClockInit => M!Init
  BY NoneApart DEF ClockInit, Init, M!Init, asleep
<1>2. IInv /\ IInv' /\ [AnyNext]_<<vars, clock>> => [M!Next]_(M!vars)
  <2>1. ASSUME IInv, IInv', AnyNext PROVE [M!Next]_(M!vars)
    <3>1. SInv /\ SInv' /\ AnyStep
      BY <2>1, AnyNextIs DEF IInv
    <3>2. Monitored
      BY <3>1, CpuMonitored, ThreadMonitored DEF AnyStep
    <3> QED
      BY <3>2 DEF Monitored, M!vars
  <2>2. ASSUME IInv, IInv', UNCHANGED <<vars, clock>> PROVE UNCHANGED M!vars
    <3>1. UNCHANGED <<state, chan, pc, idx, arg, irq, lk>>
      BY <2>2 DEF vars, schedVars
    <3>2. asleep' = asleep
      BY <2>2, <3>1, Quiet, AllQuiet DEF IInv, NoWaker, NoIntrWaker
    <3> QED
      BY <3>1, <3>2 DEF M!vars
  <2> QED
    BY <2>1, <2>2
<1> QED
  BY <1>1, <1>2, Invariance, PTL DEF ClockSpec, ImplementsMonitor, M!Spec
==============================================================================
