------------------------------ MODULE Spinlock ------------------------------
(***************************************************************************)
(* kernel/spinlock.c: acquire(), release(), holding(), push_off() and      *)
(* pop_off(), on CPUs that may take a device interrupt at every step whose *)
(* interrupts are enabled.  The handler runs on top of what it interrupts, *)
(* with interrupts off, and takes and releases locks itself.               *)
(*                                                                         *)
(* One step is one access to memory that another CPU or the handler of the *)
(* same CPU can see.  What follows intr_off() in push_off(), and all of    *)
(* pop_off(), touches only the CPU's own fields with interrupts off: each  *)
(* is one step.                                                            *)
(***************************************************************************)
EXTENDS Integers, FiniteSets

CONSTANTS
  Cpu,     \* the harts
  NLock,   \* number of spinlocks
  NoCpu    \* lk->cpu == 0

ASSUME NLockAssumption == NLock \in Nat
ASSUME NoCpuAssumption == NoCpu \notin Cpu

\* Locks are numbered in the order in which nested acquires take them.
Lock == 1 .. NLock

VARIABLES
  locked,  \* lk->locked
  lkcpu,   \* lk->cpu
  noff,    \* cpu->noff
  intena,  \* cpu->intena
  sie,     \* sstatus.SIE: interrupts enabled on the CPU
  pc,      \* where the code now running on the CPU is
  lk,      \* its argument, when it is in acquire() or release()
  old,     \* push_off()'s local variable
  held,    \* the locks the code now running has acquired and not released
  saved,   \* what the running interrupt handler interrupted, or NoFrame
  asked    \* the CPU's last explicit intr_on() or intr_off()

lockVars == <<locked, lkcpu>>
cpuVars  == <<noff, intena, sie>>
codeVars == <<pc, lk, old, held>>
vars     == <<lockVars, cpuVars, codeVars, saved, asked>>

Label == {"run", "push_off", "check_locked", "check_cpu", "swap", "set_cpu",
          "release_check", "clear_cpu", "unlock", "pop_off", "panic"}

Frame == [pc : Label, lk : Lock \cup {0}, old : BOOLEAN, held : SUBSET Lock]

NoFrame == [pc |-> "none"]

-----------------------------------------------------------------------------
Init ==
  /\ locked = [l \in Lock |-> FALSE]
  /\ lkcpu  = [l \in Lock |-> NoCpu]
  /\ noff   = [c \in Cpu |-> 0]
  /\ intena = [c \in Cpu |-> FALSE]
  /\ sie    = [c \in Cpu |-> FALSE]
  /\ pc     = [c \in Cpu |-> "run"]
  /\ lk     = [c \in Cpu |-> 0]
  /\ old    = [c \in Cpu |-> FALSE]
  /\ held   = [c \in Cpu |-> {}]
  /\ saved  = [c \in Cpu |-> NoFrame]
  /\ asked  = [c \in Cpu |-> FALSE]

Goto(c, label) == pc' = [pc EXCEPT ![c] = label]

\* Call acquire(l), which calls push_off(), which reads SIE.
Acquire(c, l) ==
  /\ pc[c] = "run"
  /\ \A h \in held[c] : h < l
  /\ lk' = [lk EXCEPT ![c] = l]
  /\ old' = [old EXCEPT ![c] = sie[c]]
  /\ Goto(c, "push_off")
  /\ UNCHANGED <<lockVars, cpuVars, held, saved, asked>>

\* Mutant: every push_off() overwrites intena, nested or not.
PushedIntenaAlways(c) == old[c]

\* The intena that push_off() leaves.
PushedIntena(c) == IF noff[c] = 0 THEN old[c] ELSE intena[c]

\* The rest of push_off().
PushOff(c) ==
  /\ pc[c] = "push_off"
  /\ sie' = [sie EXCEPT ![c] = FALSE]
  /\ intena' = [intena EXCEPT ![c] = PushedIntena(c)]
  /\ noff' = [noff EXCEPT ![c] = @ + 1]
  /\ Goto(c, "check_locked")
  /\ UNCHANGED <<lockVars, lk, old, held, saved, asked>>

\* acquire()'s holding() reads lk->locked, and lk->cpu when it is set.
CheckLocked(c) ==
  /\ pc[c] = "check_locked"
  /\ Goto(c, IF locked[lk[c]] THEN "check_cpu" ELSE "swap")
  /\ UNCHANGED <<lockVars, cpuVars, lk, old, held, saved, asked>>

CheckCpu(c) ==
  /\ pc[c] = "check_cpu"
  /\ Goto(c, IF lkcpu[lk[c]] = c THEN "panic" ELSE "swap")
  /\ UNCHANGED <<lockVars, cpuVars, lk, old, held, saved, asked>>

\* Mutant: the swap tests the owner instead of lk->locked.
SwapFreeByCpu(c) == lkcpu[lk[c]] = NoCpu

\* The amoswap returned 0.
SwapFree(c) == ~locked[lk[c]]

\* The amoswap that finds the lock free; the others only spin.
Swap(c) ==
  /\ pc[c] = "swap"
  /\ SwapFree(c)
  /\ locked' = [locked EXCEPT ![lk[c]] = TRUE]
  /\ Goto(c, "set_cpu")
  /\ UNCHANGED <<lkcpu, cpuVars, lk, old, held, saved, asked>>

SetCpu(c) ==
  /\ pc[c] = "set_cpu"
  /\ lkcpu' = [lkcpu EXCEPT ![lk[c]] = c]
  /\ held' = [held EXCEPT ![c] = @ \cup {lk[c]}]
  /\ Goto(c, "run")
  /\ UNCHANGED <<locked, cpuVars, lk, old, saved, asked>>

\* Call release(l), whose holding() reads lk->locked first.
Release(c, l) ==
  /\ pc[c] = "run"
  /\ l \in held[c]
  /\ lk' = [lk EXCEPT ![c] = l]
  /\ Goto(c, IF locked[l] THEN "release_check" ELSE "panic")
  /\ UNCHANGED <<lockVars, cpuVars, old, held, saved, asked>>

ReleaseCheck(c) ==
  /\ pc[c] = "release_check"
  /\ Goto(c, IF lkcpu[lk[c]] = c THEN "clear_cpu" ELSE "panic")
  /\ UNCHANGED <<lockVars, cpuVars, lk, old, held, saved, asked>>

\* Mutant: release() unlocks before it clears lk->cpu.
ReleaseStoresSwapped(c) ==
  \/ /\ pc[c] = "clear_cpu"
     /\ locked' = [locked EXCEPT ![lk[c]] = FALSE]
     /\ held' = [held EXCEPT ![c] = @ \ {lk[c]}]
     /\ Goto(c, "unlock")
     /\ UNCHANGED <<lkcpu, cpuVars, lk, old, saved, asked>>
  \/ /\ pc[c] = "unlock"
     /\ lkcpu' = [lkcpu EXCEPT ![lk[c]] = NoCpu]
     /\ Goto(c, "pop_off")
     /\ UNCHANGED <<locked, cpuVars, lk, old, held, saved, asked>>

\* release()'s two stores, in their order.
ReleaseStores(c) ==
  \/ /\ pc[c] = "clear_cpu"
     /\ lkcpu' = [lkcpu EXCEPT ![lk[c]] = NoCpu]
     /\ Goto(c, "unlock")
     /\ UNCHANGED <<locked, cpuVars, lk, old, held, saved, asked>>
  \/ /\ pc[c] = "unlock"
     /\ locked' = [locked EXCEPT ![lk[c]] = FALSE]
     /\ held' = [held EXCEPT ![c] = @ \ {lk[c]}]
     /\ Goto(c, "pop_off")
     /\ UNCHANGED <<lkcpu, cpuVars, lk, old, saved, asked>>

\* Mutant: pop_off() undoes every push_off().
PoppedNoffAll(c) == 0

\* The noff that pop_off() leaves.
PoppedNoff(c) == noff[c] - 1

PopOff(c) ==
  /\ pc[c] = "pop_off"
  /\ IF sie[c] \/ noff[c] < 1
     THEN Goto(c, "panic") /\ UNCHANGED cpuVars
     ELSE /\ noff' = [noff EXCEPT ![c] = PoppedNoff(c)]
          /\ sie' = [sie EXCEPT ![c] = PoppedNoff(c) = 0 /\ intena[c]]
          /\ Goto(c, "run")
          /\ UNCHANGED intena
  /\ UNCHANGED <<lockVars, lk, old, held, saved, asked>>

\* Code outside every critical section calls intr_on() or intr_off().
SetIntr(c, on) ==
  /\ pc[c] = "run" /\ held[c] = {} /\ saved[c] = NoFrame
  /\ sie' = [sie EXCEPT ![c] = on]
  /\ asked' = [asked EXCEPT ![c] = on]
  /\ UNCHANGED <<lockVars, noff, intena, codeVars, saved>>

\* A device interrupt: the hart clears SIE and enters the kernel's handler.
Interrupt(c) ==
  /\ sie[c] /\ saved[c] = NoFrame
  /\ saved' = [saved EXCEPT ![c] =
       [pc |-> pc[c], lk |-> lk[c], old |-> old[c], held |-> held[c]]]
  /\ sie' = [sie EXCEPT ![c] = FALSE]
  /\ held' = [held EXCEPT ![c] = {}]
  /\ Goto(c, "run")
  /\ UNCHANGED <<lockVars, noff, intena, lk, old, asked>>

\* The handler returns: sret sets SIE again and resumes the saved code.
IntrReturn(c) ==
  /\ saved[c] # NoFrame /\ pc[c] = "run" /\ held[c] = {}
  /\ pc' = [pc EXCEPT ![c] = saved[c].pc]
  /\ lk' = [lk EXCEPT ![c] = saved[c].lk]
  /\ old' = [old EXCEPT ![c] = saved[c].old]
  /\ held' = [held EXCEPT ![c] = saved[c].held]
  /\ saved' = [saved EXCEPT ![c] = NoFrame]
  /\ sie' = [sie EXCEPT ![c] = TRUE]
  /\ UNCHANGED <<lockVars, noff, intena, asked>>

Next ==
  \E c \in Cpu :
    \/ \E l \in Lock : Acquire(c, l) \/ Release(c, l)
    \/ PushOff(c) \/ CheckLocked(c) \/ CheckCpu(c) \/ Swap(c) \/ SetCpu(c)
    \/ ReleaseCheck(c) \/ ReleaseStores(c) \/ PopOff(c)
    \/ \E on \in BOOLEAN : SetIntr(c, on)
    \/ Interrupt(c) \/ IntrReturn(c)

Spec == Init /\ [][Next]_vars

-----------------------------------------------------------------------------
\* Every variable has its type.
TypeOK ==
  /\ locked \in [Lock -> BOOLEAN]
  /\ lkcpu  \in [Lock -> Cpu \cup {NoCpu}]
  /\ noff   \in [Cpu -> Nat]
  /\ intena \in [Cpu -> BOOLEAN]
  /\ sie    \in [Cpu -> BOOLEAN]
  /\ pc     \in [Cpu -> Label]
  /\ lk     \in [Cpu -> Lock \cup {0}]
  /\ old    \in [Cpu -> BOOLEAN]
  /\ held   \in [Cpu -> SUBSET Lock]
  /\ saved  \in [Cpu -> Frame \cup {NoFrame}]
  /\ asked  \in [Cpu -> BOOLEAN]

\* Mutual exclusion: acquire() returns on at most one CPU until release().
MutualExclusion ==
  \A c, d \in Cpu : c # d => held[c] \cap held[d] = {}

\* The unlocked reads of holding() never mislead it: none of the panics of
\* acquire(), release() and pop_off() is ever reached.
NoPanic == \A c \in Cpu : pc[c] # "panic"

\* Interrupts are off while the CPU holds a lock, nested acquires and
\* releases in any order included: no handler can find a lock taken by the
\* code it interrupted and spin on it for ever.
NoIntrWhileHolding ==
  \A c \in Cpu : /\ held[c] # {} => ~sie[c]
                 /\ saved[c] # NoFrame => saved[c].held = {}

\* push_off() and pop_off() are matched: outside every critical section the
\* interrupt enable is what the code last asked for, although handlers that
\* ran in between use the same noff and intena.
IntrRestored ==
  \A c \in Cpu :
    pc[c] = "run" /\ held[c] = {} /\ saved[c] = NoFrame => (sie[c] <=> asked[c])
=============================================================================
