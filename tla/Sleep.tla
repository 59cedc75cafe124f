-------------------------------- MODULE Sleep --------------------------------
(***************************************************************************)
(* sleep() and wakeup() of kernel/proc.c used the way pipes, the log, the  *)
(* disk driver, the console, sleeplocks and the clock use them: processes  *)
(* that take one lock lk, and while they hold it sleep on a channel or     *)
(* wake the channel up, and interrupt handlers that do the latter.  Clock  *)
(* shows that it implements Monitor.                                       *)
(***************************************************************************)
EXTENDS Sched

CONSTANT Chan
ASSUME ChanAssumption == None \notin Chan /\ Proc \cap Cpu = {}

VARIABLES
  lk,    \* the holder of the caller's lock
  arg,   \* chan argument of the sleep() or wakeup() in progress
  idx,   \* the slot wakeup()'s loop is at
  irq    \* the interrupt handler that runs on each CPU: where it is, its
         \* wakeup()'s channel and the slot of the loop; or None

vars == <<schedVars, lk, arg, idx, irq>>

\* Every process of the table exists and is ready to run.
Init ==
  /\ state  = [p \in Proc |-> "RUNNABLE"]
  /\ chan   = [p \in Proc |-> None]
  /\ killed = [p \in Proc |-> FALSE]
  /\ plock  = [p \in Proc |-> None]
  /\ cproc  = [c \in Cpu |-> None]
  /\ scan   = [c \in Cpu |-> 1]
  /\ pc     = [p \in Proc |-> "switched"]
  /\ ret    = [p \in Proc |-> "user"]
  /\ lk     = None
  /\ arg    = [p \in Proc |-> None]
  /\ idx    = [p \in Proc |-> 1]
  /\ irq    = [c \in Cpu |-> None]

\* acquire(lk) and release(lk) around the caller's critical section.
Enter(p) ==
  /\ At(p, "user") /\ lk = None
  /\ lk' = p
  /\ Goto(p, "locked")
  /\ UNCHANGED <<state, chan, killed, plock, cproc, scan, ret, arg, idx, irq>>

Leave(p) ==
  /\ At(p, "locked")
  /\ lk' = None
  /\ Goto(p, "user")
  /\ UNCHANGED <<state, chan, killed, plock, cproc, scan, ret, arg, idx, irq>>

CallSleep(p, ch) ==
  /\ At(p, "locked")
  /\ arg' = [arg EXCEPT ![p] = ch]
  /\ Goto(p, "sleep")
  /\ UNCHANGED <<state, chan, killed, plock, cproc, scan, ret, lk, idx, irq>>

\* sleep()'s steps; the last acquire(lk) is Relock.
SleepLock(p) == SleepAcquire(p) /\ UNCHANGED <<lk, arg, idx, irq>>

\* Mutant: sleep() may release lk before it has p->lock.
SleepUnlockEarly(p) ==
  \/ /\ At(p, "sleep") /\ lk = p
     /\ lk' = None
     /\ UNCHANGED <<schedVars, arg, idx, irq>>
  \/ /\ SleepRelease(p, arg[p], "relock")
     /\ lk' = IF lk = p THEN None ELSE lk
     /\ UNCHANGED <<arg, idx, irq>>

SleepUnlock(p) ==
  /\ SleepRelease(p, arg[p], "relock")
  /\ lk' = None
  /\ UNCHANGED <<arg, idx, irq>>

Relock(p) ==
  /\ At(p, "relock") /\ lk = None
  /\ lk' = p
  /\ arg' = [arg EXCEPT ![p] = None]
  /\ Goto(p, "locked")
  /\ UNCHANGED <<state, chan, killed, plock, cproc, scan, ret, idx, irq>>

CallWakeup(p, ch) ==
  /\ At(p, "locked")
  /\ arg' = [arg EXCEPT ![p] = ch]
  /\ idx' = [idx EXCEPT ![p] = 1]
  /\ Goto(p, "wakeup")
  /\ UNCHANGED <<state, chan, killed, plock, cproc, scan, ret, lk, irq>>

\* One iteration of wakeup()'s loop.
Wakeup(p) ==
  /\ At(p, "wakeup")
  /\ WakeupOne(p, idx[p], arg[p])
  /\ idx' = [idx EXCEPT ![p] = NextSlot(@)]
  /\ IF idx[p] = NPROC
     THEN Goto(p, "locked") /\ arg' = [arg EXCEPT ![p] = None]
     ELSE UNCHANGED <<pc, arg>>
  /\ UNCHANGED <<lk, irq>>

Kill(p, q) ==
  /\ At(p, "user")
  /\ KillOne(q)
  /\ UNCHANGED <<pc, lk, arg, idx, irq>>

\* Where a process holds no lock, and interrupts are on.
Unlocked == {"user", "relock"}

\* The timer preempts a process.
Preempt(p) == Yield(p, Unlocked) /\ UNCHANGED <<lk, arg, idx, irq>>

Switch(p) == (SchedOut(p) \/ Resume(p)) /\ UNCHANGED <<lk, arg, idx, irq>>

Schedule(c) == Scheduler(c) /\ UNCHANGED <<lk, arg, idx, irq>>

-----------------------------------------------------------------------------
(* An interrupt handler: it takes lk, calls wakeup() and releases lk, on    *)
(* top of a process or of scheduler(), which go on when it has returned.    *)

Handler(c, r) == irq' = [irq EXCEPT ![c] = r]

InHandler(c, label) == irq[c] # None /\ irq[c].pc = label

Interrupt(c, ch) ==
  /\ irq[c] = None
  /\ cproc[c] # None => pc[cproc[c]] \in Unlocked
  /\ Handler(c, [pc |-> "lock", ch |-> ch, i |-> 1])
  /\ UNCHANGED <<schedVars, lk, arg, idx>>

IntrLock(c) ==
  /\ InHandler(c, "lock") /\ lk = None
  /\ lk' = c
  /\ Handler(c, [irq[c] EXCEPT !.pc = "locked"])
  /\ UNCHANGED <<schedVars, arg, idx>>

IntrCall(c) ==
  /\ InHandler(c, "locked")
  /\ Handler(c, [irq[c] EXCEPT !.pc = "wakeup"])
  /\ UNCHANGED <<schedVars, lk, arg, idx>>

IntrWakeup(c) ==
  /\ InHandler(c, "wakeup")
  /\ WakeupOne(cproc[c], irq[c].i, irq[c].ch)
  /\ Handler(c, IF irq[c].i = NPROC THEN [irq[c] EXCEPT !.pc = "unlock"]
                ELSE [irq[c] EXCEPT !.i = @ + 1])
  /\ UNCHANGED <<pc, lk, arg, idx>>

\* The handler goes on to r.
IntrUnlock(c, r) ==
  /\ InHandler(c, "unlock")
  /\ lk' = None
  /\ Handler(c, r)
  /\ UNCHANGED <<schedVars, arg, idx>>

\* The process that is on CPU c can go on.
Runs(p) == \E c \in Cpu : cproc[c] = p /\ irq[c] = None

Next ==
  \/ \E c \in Cpu :
       \/ irq[c] = None /\ Schedule(c)
       \/ \E ch \in Chan : Interrupt(c, ch)
       \/ IntrLock(c) \/ IntrCall(c) \/ IntrWakeup(c) \/ IntrUnlock(c, None)
  \/ \E p \in Proc :
       /\ Runs(p)
       /\ \/ Enter(p) \/ Leave(p)
          \/ SleepLock(p) \/ SleepUnlock(p) \/ Relock(p) \/ Wakeup(p)
          \/ Preempt(p) \/ Switch(p)
          \/ \E ch \in Chan : CallSleep(p, ch) \/ CallWakeup(p, ch)
          \/ \E q \in Proc : Kill(p, q)

Spec == Init /\ [][Next]_vars

-----------------------------------------------------------------------------
\* Some wakeup() in progress will still come to q and wake it.
WillBeWoken(q) ==
  \/ \E p \in Proc \ {q} : pc[p] = "wakeup" /\ idx[p] <= q /\ arg[p] = chan[q]
  \/ \E c \in Cpu : InHandler(c, "wakeup") /\ irq[c].i <= q /\ irq[c].ch = chan[q]

\* Who sleeps, for the monitor: a wakeup() counts from its first iteration for
\* everyone its loop has still to visit.
asleep == [q \in Proc \cup Cpu |->
             IF q \in Proc /\ state[q] = "SLEEPING" /\ ~WillBeWoken(q) THEN chan[q] ELSE None]
=============================================================================
