-------------------------------- MODULE Clock --------------------------------
(***************************************************************************)
(* The clock: clockintr() of kernel/trap.c, which counts ticks on CPU 0    *)
(* and then gives the CPU to another process, and sys_sleep() of           *)
(* kernel/sysproc.c, as a client of Sleep whose lk is tickslock.           *)
(***************************************************************************)
EXTENDS Sleep, Integers

CONSTANTS
  TICKS,   \* the channel &ticks
  UINT,    \* values of an unsigned int: 2^32 in the kernel
  Naps,    \* arguments of sleep()
  Napper   \* the processes that call it

\* All channels, and what a handler can be at.
Channels == Chan \cup {TICKS}
Handlers == [pc : {"lock", "locked", "wakeup", "unlock", "yield"}, ch : Channels, i : Proc]

ASSUME ClockAssumption ==
  /\ UINT \in Nat \ {0} /\ TICKS \notin Chan \cup {None} /\ Naps \subseteq Int /\ Napper \subseteq Proc
  /\ None \notin Cpu \cup Handlers \cup [ticks0 : Nat, n : Nat]

VARIABLES
  cpu0,    \* the CPU that counts ticks, or None in a kernel without clock
  ticks,   \* ticks
  nap      \* ticks0 and n of each process in sys_sleep(), or None

clock == <<cpu0, ticks, nap>>

\* At boot ticks is 0.  It may be anything later on.
ClockInit ==
  /\ Init
  /\ cpu0 \in Cpu \cup {None}
  /\ ticks \in IF cpu0 = None THEN {0} ELSE 0 .. UINT - 1
  /\ nap = [p \in Proc |-> None]

-----------------------------------------------------------------------------
(* clockintr().                                                            *)

\* The timer interrupt of CPU 0, up to acquire(&tickslock).
Clockintr == Interrupt(cpu0, TICKS) /\ UNCHANGED clock

\* ticks++, and wakeup(&ticks).
Tick ==
  /\ IntrCall(cpu0)
  /\ ticks' = (ticks + 1) % UINT
  /\ UNCHANGED <<cpu0, nap>>

\* The rest of it, until usertrap() or kerneltrap() calls yield() for the
\* process that it interrupted.
TickStep ==
  /\ \/ IntrLock(cpu0) \/ IntrWakeup(cpu0)
     \/ IntrUnlock(cpu0, IF cproc[cpu0] = None THEN None ELSE [irq[cpu0] EXCEPT !.pc = "yield"])
     \/ /\ InHandler(cpu0, "yield")
        /\ Yield(cproc[cpu0], Unlocked)
        /\ Handler(cpu0, None)
        /\ UNCHANGED <<lk, arg, idx>>
  /\ UNCHANGED clock

\* The timer interrupt of another CPU only calls yield().
OtherTimer(p) == cproc[cpu0] # p /\ Preempt(p) /\ UNCHANGED clock

-----------------------------------------------------------------------------
(* sys_sleep().                                                            *)

SysSleep(p, n) ==
  /\ Enter(p)
  /\ nap' = [nap EXCEPT ![p] = [ticks0 |-> ticks, n |-> IF n < 0 THEN 0 ELSE n]]
  /\ UNCHANGED <<cpu0, ticks>>

Elapsed(p) == (ticks - nap[p].ticks0) % UINT

\* Mutant: the loop goes on for one tick too many.
ShortOne(p) == Elapsed(p) <= nap[p].n

\* ticks - ticks0 < n.
Short(p) == Elapsed(p) < nap[p].n

\* One iteration of the loop, or what follows it.
NapLoop(p) ==
  /\ At(p, "locked")
  /\ IF Short(p) /\ ~killed[p]
     THEN CallSleep(p, TICKS) /\ UNCHANGED nap
     ELSE Leave(p) /\ nap' = [nap EXCEPT ![p] = None]
  /\ Short(p) => plock[p] = None
  /\ UNCHANGED <<cpu0, ticks>>

-----------------------------------------------------------------------------
ClockNext ==
  \/ Clockintr \/ Tick \/ TickStep
  \/ \E c \in Cpu : irq[c] = None /\ Schedule(c) /\ UNCHANGED clock
  \/ \E p \in Proc :
       /\ Runs(p)
       /\ \/ OtherTimer(p)
          \/ p \in Napper /\ \E n \in Naps : SysSleep(p, n)
          \/ NapLoop(p)
          \/ /\ \/ SleepLock(p) \/ SleepUnlock(p) \/ Relock(p) \/ Switch(p)
                \/ \E q \in Proc : Kill(p, q)
             /\ UNCHANGED clock

\* Any client of sleep() and wakeup(), or the clock.
AnyNext ==
  \/ cpu0 = None /\ Next /\ UNCHANGED clock
  \/ cpu0 # None /\ ClockNext

ClockSpec == ClockInit /\ [][AnyNext]_<<vars, clock>>

-----------------------------------------------------------------------------
M == INSTANCE Monitor WITH
       owner <- lk, Proc <- Proc \cup Cpu, Chan <- Channels

\* sleep() and wakeup() implement the monitor, whoever calls them: nobody who
\* sleeps on the channel when wakeup() is called goes on sleeping, and nobody
\* sleeps without having released lk in the same step.
ImplementsMonitor == M!Spec

\* No tick is missed: sys_sleep() is never asleep with its time over, but for
\* the moment until the wakeup() under way has come to it.  This is so when
\* ticks wraps around, and when kill() or a preemption comes between.
NoTickMissed ==
  \A p \in Proc : nap[p] # None /\ state[p] = "SLEEPING" =>
    Elapsed(p) < nap[p].n \/ WillBeWoken(p)
=============================================================================
