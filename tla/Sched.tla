-------------------------------- MODULE Sched --------------------------------
(***************************************************************************)
(* The layer of kernel/proc.c that every other part of the kernel stands   *)
(* on: scheduler(), sched(), yield(), sleep(), wakeup(), kill(), and the   *)
(* process lock p->lock that is handed from the process to the scheduler   *)
(* and back across swtch().  Modules that use it extend this one.          *)
(*                                                                         *)
(* A step is what happens between two operations on a lock that another    *)
(* CPU can observe.  A section that takes p->lock and gives it back with   *)
(* nothing in between but accesses to what p->lock protects is one step,   *)
(* enabled when the lock is free.  Sections that take one lock while they  *)
(* hold another, or that carry p->lock through swtch(), are several steps. *)
(***************************************************************************)
EXTENDS Naturals, FiniteSets

CONSTANTS
  NPROC,   \* slots of the process table
  Cpu,     \* the harts
  None     \* no process, no lock holder, no channel

ASSUME NPROCAssumption == NPROC \in Nat \ {0}
ASSUME NoneAssumption  == None \notin 1 .. NPROC

\* Slots, in the order in which the loops over proc[] visit them.
Proc == 1 .. NPROC

VARIABLES
  state,   \* p->state
  chan,    \* p->chan
  killed,  \* p->killed
  plock,   \* the process whose kernel thread holds p->lock
  cproc,   \* c->proc
  scan,    \* the slot at which the CPU's scheduler() loop is
  pc,      \* where the process's kernel thread is
  ret      \* where it continues once it has been switched in again

schedVars == <<state, chan, killed, plock, cproc, scan, pc, ret>>

\* The kernel thread of p is on a CPU and can take a step.
OnCpu(p) == \E c \in Cpu : cproc[c] = p

At(p, label) == pc[p] = label /\ OnCpu(p)

Goto(p, label) == pc' = [pc EXCEPT ![p] = label]

\* The slot after i in a loop over proc[], and the first one after the last.
NextSlot(i) == IF i = NPROC THEN 1 ELSE i + 1

-----------------------------------------------------------------------------
(* The scheduler.  A process that is switched out waits at "switched", and  *)
(* one that is switched in owns the p->lock that scheduler() took for it.   *)

\* scheduler()'s acquire(&p->lock) can succeed.
CanLook(c) == plock[scan[c]] = None

\* One iteration of scheduler()'s loop over proc[], up to swtch().
Scheduler(c) ==
  /\ cproc[c] = None
  /\ CanLook(c)
  /\ IF state[scan[c]] = "RUNNABLE"
     THEN /\ state' = [state EXCEPT ![scan[c]] = "RUNNING"]
          /\ cproc' = [cproc EXCEPT ![c] = scan[c]]
          /\ plock' = [plock EXCEPT ![scan[c]] = scan[c]]
          /\ UNCHANGED scan
     ELSE /\ scan' = [scan EXCEPT ![c] = NextSlot(@)]
          /\ UNCHANGED <<state, cproc, plock>>
  /\ UNCHANGED <<chan, killed, pc, ret>>

\* Mutant: the loop over proc[] starts again after every process it ran.
AfterRunRestart(i) == 1

\* The slot that the loop visits after the process it ran came back.
AfterRun(i) == NextSlot(i)

\* sched() of p, and the scheduler's iteration that goes on after swtch().
SchedOut(p) ==
  /\ At(p, "sched")
  /\ \E c \in Cpu :
       /\ cproc[c] = p
       /\ cproc' = [cproc EXCEPT ![c] = None]
       /\ scan' = [scan EXCEPT ![c] = AfterRun(@)]
  /\ plock' = [plock EXCEPT ![p] = None]
  /\ Goto(p, "switched")
  /\ UNCHANGED <<state, chan, killed, ret>>

\* After swtch() back into p: the end of yield(), forkret() or sleep(), which
\* clears p->chan (it is clear already in the other two) and gives p->lock back.
Resume(p) ==
  /\ At(p, "switched")
  /\ chan' = [chan EXCEPT ![p] = None]
  /\ plock' = [plock EXCEPT ![p] = None]
  /\ Goto(p, ret[p])
  /\ ret' = [ret EXCEPT ![p] = "user"]
  /\ UNCHANGED <<state, killed, cproc, scan>>

\* A timer interrupt where p holds no lock: yield(), up to sched().
Yield(p, labels) ==
  /\ OnCpu(p) /\ pc[p] \in labels
  /\ plock[p] = None
  /\ plock' = [plock EXCEPT ![p] = p]
  /\ state' = [state EXCEPT ![p] = "RUNNABLE"]
  /\ ret' = [ret EXCEPT ![p] = pc[p]]
  /\ Goto(p, "sched")
  /\ UNCHANGED <<chan, killed, cproc, scan>>

-----------------------------------------------------------------------------
(* sleep(chan, lk): take p->lock, then release lk (the conjunct of the      *)
(* module that has lk), then mark p asleep and call sched().  What follows  *)
(* release(lk) is invisible to others until p->lock is free again.          *)

SleepAcquire(p) ==
  /\ At(p, "sleep")
  /\ plock[p] = None
  /\ plock' = [plock EXCEPT ![p] = p]
  /\ Goto(p, "sleep_release")
  /\ UNCHANGED <<state, chan, killed, cproc, scan, ret>>

SleepRelease(p, ch, label) ==
  /\ At(p, "sleep_release")
  /\ chan' = [chan EXCEPT ![p] = ch]
  /\ state' = [state EXCEPT ![p] = "SLEEPING"]
  /\ ret' = [ret EXCEPT ![p] = label]
  /\ Goto(p, "sched")
  /\ UNCHANGED <<killed, plock, cproc, scan>>

\* q's part of wakeup(ch), whose caller is p.
WakeupOne(p, q, ch) ==
  /\ q # p => plock[q] = None
  /\ state' = IF q # p /\ state[q] = "SLEEPING" /\ chan[q] = ch
              THEN [state EXCEPT ![q] = "RUNNABLE"] ELSE state
  /\ UNCHANGED <<chan, killed, plock, cproc, scan, ret>>

\* kill()'s section for the slot q it has found.
KillOne(q) ==
  /\ plock[q] = None
  /\ killed' = [killed EXCEPT ![q] = TRUE]
  /\ state' = IF state[q] = "SLEEPING"
              THEN [state EXCEPT ![q] = "RUNNABLE"] ELSE state
  /\ UNCHANGED <<chan, plock, cproc, scan, ret>>

-----------------------------------------------------------------------------
\* swtch() never runs one kernel stack twice: a process is on at most one CPU,
\* and while it is on a CPU nobody can run it elsewhere, wake it or free it,
\* because it is RUNNING or holds its own p->lock until swtch() is done.
OneStackOneCpu ==
  /\ \A c, d \in Cpu : c # d /\ cproc[c] # None => cproc[c] # cproc[d]
  /\ \A p \in Proc : state[p] = "RUNNING" => OnCpu(p)
  /\ \A p \in Proc : OnCpu(p) => state[p] = "RUNNING" \/ plock[p] = p
=============================================================================
