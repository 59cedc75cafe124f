-------------------------------- MODULE Proc ---------------------------------
(***************************************************************************)
(* The life of processes in kernel/proc.c: fork(), exit(), reparent(),     *)
(* wait() and kill() over the process table, with wait_lock and the        *)
(* processes' own locks, on top of Sched; trace() and fork()'s copy of the *)
(* trace mask; and user/init.c, which adopts and reaps orphans.            *)
(*                                                                         *)
(* A live process is known by its slot: its pid is unique as long as it    *)
(* lives, and pid 0 is that of every UNUSED slot.                          *)
(***************************************************************************)
EXTENDS Sched

CONSTANT Masks   \* trace masks processes ask for; 0 is the initial one

ASSUME MasksAssumption == 0 \in Masks

VARIABLES
  wlock,   \* the process that holds wait_lock
  parent,  \* p->parent
  mask,    \* p->trace_mask
  idx,     \* the slot p's loop over proc[] is at, 1 outside the loops; the
           \* child, in fork()
  sh       \* init's variable pid: the shell it waits for, or None

lifeVars == <<wlock, parent, mask, idx, sh>>
vars == <<schedVars, lifeVars>>

initproc == 1

\* userinit(): only the first process exists, and it is RUNNABLE.
Init ==
  /\ state  = [p \in Proc |-> IF p = initproc THEN "RUNNABLE" ELSE "UNUSED"]
  /\ chan   = [p \in Proc |-> None]
  /\ killed = [p \in Proc |-> FALSE]
  /\ plock  = [p \in Proc |-> None]
  /\ cproc  = [c \in Cpu |-> None]
  /\ scan   = [c \in Cpu |-> 1]
  /\ pc     = [p \in Proc |-> "switched"]
  /\ ret    = [p \in Proc |-> "user"]
  /\ wlock  = None
  /\ parent = [p \in Proc |-> None]
  /\ mask   = [p \in Proc |-> 0]
  /\ idx    = [p \in Proc |-> 1]
  /\ sh     = None

Children(p) == {q \in Proc : parent[q] = p}

\* A step of p that changes neither the scheduler's state nor any lock of it.
Internal(p, label) ==
  /\ Goto(p, label)
  /\ UNCHANGED <<state, chan, killed, plock, cproc, scan, ret>>

-----------------------------------------------------------------------------
(* User code and usertrap().                                               *)

\* init() in user/init.c forks a shell, then waits until that shell exits.
InitCalls == IF sh = None THEN {"fork_scan"} ELSE {"wait"}

\* The system calls that p may make.
Calls(p) == IF p = initproc THEN InitCalls ELSE {"fork_scan", "wait", "exit"}

\* A system call, on whose entry usertrap() found p->killed clear.
Syscall(p) ==
  /\ At(p, "user") /\ ~killed[p]
  /\ \E label \in Calls(p) : Internal(p, label)
  /\ UNCHANGED lifeVars

\* usertrap() finds p->killed set and calls exit(-1).
ExitKilled(p) ==
  /\ At(p, "user") /\ killed[p]
  /\ Internal(p, "exit")
  /\ UNCHANGED lifeVars

\* sys_trace().
Trace(p, m) ==
  /\ At(p, "user") /\ ~killed[p] /\ p # initproc
  /\ mask' = [mask EXCEPT ![p] = m]
  /\ UNCHANGED <<schedVars, wlock, parent, idx, sh>>

\* kill(): q is the slot of the process with the pid or, for kill(0), the first
\* slot that holds no process.
Kill(p, q) ==
  /\ At(p, "user") /\ ~killed[p] /\ p # initproc /\ q # initproc
  /\ \/ state[q] # "UNUSED"
     \/ state[q] = "UNUSED" /\ \A r \in 1 .. q - 1 : state[r] # "UNUSED"
  /\ KillOne(q)
  /\ UNCHANGED <<pc, lifeVars>>

-----------------------------------------------------------------------------
(* fork().                                                                 *)

\* The system call of init() that failed ends in exit(1).
Failed(p) == IF p = initproc THEN "exit" ELSE "user"

\* Mutant: allocproc() leaves the state as it found it.
AllocStateUnused == "UNUSED"

\* The state in which allocproc() leaves the slot.
AllocState == "USED"

\* One iteration of allocproc()'s loop; when it finds a slot, the rest of it.
ForkScan(p) ==
  /\ At(p, "fork_scan")
  /\ plock[idx[p]] = None
  /\ IF state[idx[p]] = "UNUSED"
     THEN /\ state' = [state EXCEPT ![idx[p]] = AllocState]
          /\ plock' = [plock EXCEPT ![idx[p]] = p]
          /\ pc' = [pc EXCEPT ![p] = "fork_copy", ![idx[p]] = "switched"]
          /\ ret' = [ret EXCEPT ![idx[p]] = "user"]
          /\ UNCHANGED <<chan, killed, cproc, scan, idx>>
     ELSE /\ Internal(p, IF idx[p] = NPROC THEN Failed(p) ELSE "fork_scan")
          /\ idx' = [idx EXCEPT ![p] = NextSlot(@)]
  /\ UNCHANGED <<wlock, parent, mask, sh>>

freeproc(q) ==
  /\ state'  = [state EXCEPT ![q] = "UNUSED"]
  /\ chan'   = [chan EXCEPT ![q] = None]
  /\ killed' = [killed EXCEPT ![q] = FALSE]
  /\ parent' = [parent EXCEPT ![q] = None]
  /\ mask'   = [mask EXCEPT ![q] = 0]

\* The child is filled in with its lock held, or some allocation fails and
\* freeproc() undoes it; then the lock is released.
ForkCopy(p) ==
  /\ At(p, "fork_copy")
  /\ plock' = [plock EXCEPT ![idx[p]] = None]
  /\ \/ /\ Goto(p, "fork_parent")
        /\ UNCHANGED <<state, chan, killed, parent, mask, idx>>
     \/ /\ Goto(p, Failed(p))
        /\ freeproc(idx[p])
        /\ idx' = [idx EXCEPT ![p] = 1]
  /\ UNCHANGED <<cproc, scan, ret, wlock, sh>>

\* np->parent = p, under wait_lock.
ForkParent(p) ==
  /\ At(p, "fork_parent")
  /\ wlock = None
  /\ parent' = [parent EXCEPT ![idx[p]] = p]
  /\ Internal(p, "fork_run")
  /\ UNCHANGED <<wlock, mask, idx, sh>>

\* np->state = RUNNABLE, under np->lock.
ForkRun(p) ==
  /\ At(p, "fork_run")
  /\ plock[idx[p]] = None
  /\ state' = [state EXCEPT ![idx[p]] = "RUNNABLE"]
  /\ Goto(p, "fork_trace")
  /\ UNCHANGED <<chan, killed, plock, cproc, scan, ret, lifeVars>>

\* np->trace_mask = p->trace_mask, with no lock; fork() returns the pid.
ForkTrace(p) ==
  /\ At(p, "fork_trace")
  /\ mask' = [mask EXCEPT ![idx[p]] = mask[p]]
  /\ sh' = IF p = initproc THEN idx[p] ELSE sh
  /\ Internal(p, "user")
  /\ idx' = [idx EXCEPT ![p] = 1]
  /\ UNCHANGED <<wlock, parent>>

-----------------------------------------------------------------------------
(* exit().                                                                 *)

\* panic("init exiting"), or acquire(&wait_lock).
ExitLock(p) ==
  /\ At(p, "exit")
  /\ IF p = initproc
     THEN Internal(p, "panic") /\ UNCHANGED wlock
     ELSE wlock = None /\ wlock' = p /\ Internal(p, "reparent")
  /\ UNCHANGED <<parent, mask, idx, sh>>

\* Mutant: exit() does not give its children to init.
ReparentNone(p) ==
  /\ At(p, "reparent")
  /\ Internal(p, "wake_parent")
  /\ UNCHANGED lifeVars

\* reparent(): everything it does to p->parent happens under wait_lock, and
\* init, once woken, cannot sleep again before wait_lock is released, so that
\* one wakeup(initproc) stands for one per child.
Reparent(p) ==
  /\ At(p, "reparent")
  /\ parent' = [q \in Proc |-> IF parent[q] = p THEN initproc ELSE parent[q]]
  /\ Internal(p, IF Children(p) # {} THEN "wake_init" ELSE "wake_parent")
  /\ UNCHANGED <<wlock, mask, idx, sh>>

\* Mutant: exit() wakes init instead of its parent.
ExitChanInit(p) == initproc

\* Whom exit() is waking.
ExitChan(p) == IF pc[p] = "wake_init" THEN initproc ELSE parent[p]

\* One iteration of wakeup(initproc), then of wakeup(p->parent).
ExitWakeup(p) ==
  /\ At(p, "wake_init") \/ At(p, "wake_parent")
  /\ WakeupOne(p, idx[p], ExitChan(p))
  /\ idx' = [idx EXCEPT ![p] = NextSlot(@)]
  /\ Goto(p, IF idx[p] # NPROC THEN pc[p]
             ELSE IF pc[p] = "wake_init" THEN "wake_parent" ELSE "zombie")
  /\ UNCHANGED <<wlock, parent, mask, sh>>

\* Mutant: exit() is a ZOMBIE before it has its own lock.
ZombieUnlocked(p) ==
  /\ At(p, "zombie")
  /\ plock[p] = None
  /\ IF state[p] = "ZOMBIE"
     THEN plock' = [plock EXCEPT ![p] = p] /\ Goto(p, "sched")
     ELSE UNCHANGED <<plock, pc>>
  /\ state' = [state EXCEPT ![p] = "ZOMBIE"]
  /\ wlock' = None
  /\ UNCHANGED <<chan, killed, cproc, scan, ret, parent, mask, idx, sh>>

\* p->lock is taken, p becomes a ZOMBIE and wait_lock is released; p->lock is
\* held until the scheduler has p off its stack.
Zombie(p) ==
  /\ At(p, "zombie")
  /\ plock[p] = None
  /\ plock' = [plock EXCEPT ![p] = p]
  /\ state' = [state EXCEPT ![p] = "ZOMBIE"]
  /\ wlock' = None
  /\ Goto(p, "sched")
  /\ UNCHANGED <<chan, killed, cproc, scan, ret, parent, mask, idx, sh>>

-----------------------------------------------------------------------------
(* wait().                                                                 *)

WaitLock(p) ==
  /\ At(p, "wait")
  /\ wlock = None
  /\ wlock' = p
  /\ Internal(p, "wait_scan")
  /\ UNCHANGED <<parent, mask, idx, sh>>

\* init's pid after wait() has returned q to p.
ShellAfter(p, q) == IF p = initproc /\ q = sh THEN None ELSE sh

\* The scan comes to a child that is a ZOMBIE: free it, or fail in copyout()
\* when the caller asked for the exit status (init does not).
Reap(p, q) ==
  /\ wlock' = None
  /\ Goto(p, "user")
  /\ \/ freeproc(q)
     \/ p # initproc /\ UNCHANGED <<state, chan, killed, parent, mask>>
  /\ sh' = ShellAfter(p, q)
  /\ idx' = [idx EXCEPT ![p] = 1]
  /\ UNCHANGED <<plock, cproc, scan, ret>>

\* One iteration of the scan.
WaitScan(p) ==
  /\ At(p, "wait_scan")
  /\ idx[p] \in Children(p) => plock[idx[p]] = None
  /\ IF idx[p] \in Children(p) /\ state[idx[p]] = "ZOMBIE"
     THEN Reap(p, idx[p])
     ELSE /\ Internal(p, IF idx[p] = NPROC THEN "wait_check" ELSE "wait_scan")
          /\ idx' = [idx EXCEPT ![p] = NextSlot(@)]
          /\ UNCHANGED <<wlock, parent, mask, sh>>

\* After a scan that found no ZOMBIE.
WaitCheck(p) ==
  /\ At(p, "wait_check")
  /\ plock[p] = None
  /\ IF Children(p) = {} \/ killed[p]
     THEN wlock' = None /\ Internal(p, Failed(p))
     ELSE UNCHANGED wlock /\ Internal(p, "sleep")
  /\ UNCHANGED <<parent, mask, idx, sh>>

\* sleep(p, &wait_lock).
WaitSleepLock(p) == SleepAcquire(p) /\ UNCHANGED lifeVars

\* Mutant: wait_lock is released before p->lock is taken.
WaitSleepEarly(p) ==
  \/ /\ At(p, "sleep") /\ wlock = p
     /\ wlock' = None
     /\ UNCHANGED <<schedVars, parent, mask, idx, sh>>
  \/ /\ SleepRelease(p, p, "wait")
     /\ wlock' = IF wlock = p THEN None ELSE wlock
     /\ UNCHANGED <<parent, mask, idx, sh>>

WaitSleepUnlock(p) ==
  /\ SleepRelease(p, p, "wait")
  /\ wlock' = None
  /\ UNCHANGED <<parent, mask, idx, sh>>

-----------------------------------------------------------------------------
Unlocked == {"user", "fork_scan", "fork_parent", "fork_run", "fork_trace", "exit", "wait"}

Preempt(p) == Yield(p, Unlocked) /\ UNCHANGED lifeVars

Switch(p) == (SchedOut(p) \/ Resume(p)) /\ UNCHANGED lifeVars

Schedule(c) == Scheduler(c) /\ UNCHANGED lifeVars

\* What the kernel does for p once p has entered it.
Kernel(p) ==
  \/ ForkScan(p) \/ ForkCopy(p) \/ ForkParent(p) \/ ForkRun(p) \/ ForkTrace(p)
  \/ ExitKilled(p) \/ ExitLock(p) \/ Reparent(p) \/ ExitWakeup(p) \/ Zombie(p)
  \/ WaitLock(p) \/ WaitScan(p) \/ WaitCheck(p) \/ WaitSleepLock(p) \/ WaitSleepUnlock(p)
  \/ Switch(p)

Next ==
  \/ \E c \in Cpu : Schedule(c)
  \/ \E p \in Proc :
       \/ Kernel(p) \/ Preempt(p) \/ Syscall(p)
       \/ \E m \in Masks : Trace(p, m)
       \/ \E q \in Proc : Kill(p, q)

Spec == Init /\ [][Next]_vars

\* CPU c executes scheduler() or the kernel code of the process on it.
Execute(c) == Schedule(c) \/ \E p \in Proc : cproc[c] = p /\ Kernel(p)

\* The timer of CPU c preempts the process on it.
Timer(c) == \E p \in Proc : cproc[c] = p /\ Preempt(p)

\* p gets wait_lock.
Acquire(p) == ForkParent(p) \/ ExitLock(p) \/ WaitLock(p)

\* CPUs run.  A timer interrupt that comes while interrupts are off stays
\* pending, so that user code and system calls are preempted in the end.  A
\* time slice is long enough for an acquire(&wait_lock) that need not spin; on
\* one CPU none has to, and nothing is assumed of who wins a contended lock.
Fairness ==
  /\ \A c \in Cpu : WF_vars(Execute(c)) /\ SF_vars(Timer(c))
  /\ \A p \in Proc : SF_vars(Acquire(p))

FairSpec == Spec /\ Fairness

-----------------------------------------------------------------------------
\* No exit is missed: whenever wait_lock is free, a parent asleep in wait()
\* has no child that it could reap.
NoMissedExit ==
  wlock = None =>
    \A p \in Proc : state[p] = "SLEEPING" =>
      \A q \in Children(p) : state[q] # "ZOMBIE"

\* Whenever wait_lock is free, every process but init has a parent that is
\* alive and can wait() for it: fork(), exit() and reparent() of parent and
\* child never leave a process to nobody.
ParentAlive ==
  wlock = None =>
    \A q \in Proc :
      /\ parent[q] # None => state[parent[q]] \in {"SLEEPING", "RUNNABLE", "RUNNING"}
      /\ q # initproc /\ state[q] \notin {"UNUSED", "USED"} => parent[q] # None

\* The writes that fork() makes to the child after it has released the child's
\* lock go to the child, although it may have run, exited or been killed.
ForkOwnsChild ==
  \A p \in Proc :
    /\ pc[p] \in {"fork_parent", "fork_run"} => state[idx[p]] = "USED"
    /\ pc[p] = "fork_trace" => parent[idx[p]] = p /\ state[idx[p]] \notin {"UNUSED", "USED"}

\* p is in wait(), running, asleep or preempted.
InWait(p) ==
  \/ pc[p] \in {"wait", "wait_scan", "wait_check", "sleep", "sleep_release"}
  \/ pc[p] \in {"sched", "switched"} /\ ret[p] = "wait"

\* wait() returns once a child has exited, unless init has exited and the
\* machine has panicked.
WaitReturns ==
  \A p \in Proc :
    InWait(p) /\ (\E q \in Children(p) : state[q] = "ZOMBIE")
    ~> pc[p] = "user" \/ pc[initproc] = "panic"

\* Round robin: every RUNNABLE process runs, however the others fork, exit, wait
\* and use up their time slices, unless the machine has panicked.
NobodyStarves ==
  \A p \in Proc :
    state[p] = "RUNNABLE" ~> state[p] = "RUNNING" \/ pc[initproc] = "panic"

\* trace_mask is "private to the process": once fork() has made the child
\* RUNNABLE, only the child's own trace() changes its mask.
MaskPrivate ==
  [][\A q \in Proc :
       mask'[q] # mask[q] /\ state[q] \in {"SLEEPING", "RUNNABLE", "RUNNING"}
       => \E m \in Masks : Trace(q, m)]_vars
=============================================================================
