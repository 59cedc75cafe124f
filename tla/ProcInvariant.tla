---------------------------- MODULE ProcInvariant -----------------------------
(***************************************************************************)
(* An invariant of fork(), exit(), wait() and kill() for every number of   *)
(* process slots and of CPUs, and that the scheduler, user code, wait()'s  *)
(* loop and allocproc() keep it.  ProcProofs has the other steps and what  *)
(* follows.                                                                *)
(*                                                                         *)
(* The invariant follows a process through preemption: Where(p) is the     *)
(* place in its code, also while it is switched out.                       *)
(***************************************************************************)
EXTENDS Proc, TLAPS

Live == {"SLEEPING", "RUNNABLE", "RUNNING"}

\* From acquire(&wait_lock) to its release.
Exiting == {"reparent", "wake_init", "wake_parent", "zombie"}
Waiting == {"wait_scan", "wait_check", "sleep", "sleep_release"}

\* fork() owns a slot that is not yet RUNNABLE.
Making == {"fork_copy", "fork_parent", "fork_run"}

Away   == {"sched", "switched"}
Labels == Unlocked \cup Exiting \cup Waiting \cup Away \cup {"fork_copy", "panic"}

\* Where the code of p is, or will go on.
Where(p) == IF pc[p] \in Away THEN ret[p] ELSE pc[p]

TypeOK ==
  /\ state \in [Proc -> Live \cup {"UNUSED", "USED", "ZOMBIE"}]
  /\ chan \in [Proc -> Proc \cup {None}] /\ killed \in [Proc -> BOOLEAN]
  /\ plock \in [Proc -> Proc \cup {None}]
  /\ cproc \in [Cpu -> Proc \cup {None}] /\ scan \in [Cpu -> Proc]
  /\ pc \in [Proc -> Labels] /\ ret \in [Proc -> Unlocked]
  /\ wlock \in Proc \cup {None} /\ parent \in [Proc -> Proc \cup {None}]
  /\ mask \in [Proc -> Masks] /\ idx \in [Proc -> Proc] /\ sh \in Proc \cup {None}

\* A process is on one CPU at most.
OneCpu == \A c, d \in Cpu : c # d /\ cproc[c] # None => cproc[c] # cproc[d]

\* p->state, p->chan and the place that p goes on from follow from where its kernel
\* thread is.
Place ==
  \A p \in Proc :
    /\ ~OnCpu(p) => pc[p] = "switched" /\ state[p] # "RUNNING"
    /\ OnCpu(p) => IF pc[p] = "sched" THEN state[p] \in {"RUNNABLE", "SLEEPING", "ZOMBIE"}
                   ELSE state[p] = "RUNNING"
    /\ state[p] = "SLEEPING" => chan[p] = p /\ ret[p] = "wait"
    /\ pc[p] \notin Away \/ state[p] \notin Live => ret[p] = "user"

\* p->lock belongs to p on its way out and in, and to the fork() that fills p in.
Locks ==
  \A p \in Proc :
    /\ plock[p] = p <=> pc[p] \in {"sched", "sleep_release"} \/ (pc[p] = "switched" /\ OnCpu(p))
    /\ \A q \in Proc \ {p} : plock[p] = q <=> pc[q] = "fork_copy" /\ idx[q] = p

\* wait_lock is held from its acquire in exit() and wait() to its release.
WaitLocked == \A p \in Proc : wlock = p <=> pc[p] \in Exiting \cup Waiting

\* What fork() knows of the child, and that no other fork() has it.
Forking ==
  \A p \in Proc :
    /\ Where(p) \in Making =>
         /\ state[idx[p]] = "USED"
         /\ \A q \in Proc \ {p} : Where(q) \in Making => idx[q] # idx[p]
    /\ Where(p) \in {"fork_run", "fork_trace"} => parent[idx[p]] = p
    /\ Where(p) = "fork_trace" => state[idx[p]] \in Live \cup {"ZOMBIE"}

\* The loops over proc[] start at the first slot.
Index ==
  \A p \in Proc :
    Where(p) \notin {"fork_scan", "fork_copy", "fork_parent", "fork_run", "fork_trace",
                     "wake_init", "wake_parent", "wait_scan"} => idx[p] = 1

\* Parents live, and who is past reparent() has no child.  init lives for ever.
Parents ==
  /\ state[initproc] \in Live /\ pc[initproc] \notin Exiting /\ parent[initproc] = None
  /\ \A q \in Proc :
       /\ parent[q] # None => state[parent[q]] \in Live
       /\ q # initproc /\ state[q] \in Live \cup {"ZOMBIE"} => parent[q] # None
       /\ pc[q] \in Exiting \ {"reparent"} => Children(q) = {}

\* exit() has woken its parent in the slots that its loop has passed.
Waking ==
  \A q \in Proc :
    /\ pc[q] = "wake_parent" /\ parent[q] \in 1 .. idx[q] - 1 => state[parent[q]] # "SLEEPING"
    /\ pc[q] = "zombie" /\ parent[q] \in Proc => state[parent[q]] # "SLEEPING"

\* wait() has found no ZOMBIE among the children in the slots that it has passed.
Scanned ==
  \A p \in Proc :
    /\ pc[p] = "wait_scan" => \A q \in 1 .. idx[p] - 1 : parent[q] = p => state[q] # "ZOMBIE"
    /\ pc[p] \in Waiting \ {"wait_scan"} => \A q \in Children(p) : state[q] # "ZOMBIE"

\* A process asleep in wait() has no ZOMBIE to reap, but for init while the
\* exit() that has given it one is still to wake it.
Sleepers ==
  \A p, q \in Proc :
    state[p] = "SLEEPING" /\ parent[q] = p /\ state[q] = "ZOMBIE"
    => p = initproc /\ \E r \in Proc : pc[r] = "wake_init" /\ idx[r] = 1

IInv == /\ TypeOK /\ OneCpu /\ Place /\ Locks /\ WaitLocked /\ Forking /\ Index
        /\ Parents /\ Waking /\ Scanned /\ Sleepers

-----------------------------------------------------------------------------
(* Facts the steps share.                                                  *)

LEMMA Slots ==
  /\ initproc \in Proc /\ None \notin Proc
  /\ \A i \in Proc : /\ NextSlot(i) \in Proc
                     /\ i = NPROC => NextSlot(i) = 1
                     /\ i # NPROC => NextSlot(i) = i + 1
BY NPROCAssumption, NoneAssumption DEF Proc, initproc, NextSlot

\* A process that takes a step of its own is RUNNING.
LEMMA Stepping ==
  ASSUME IInv, NEW p \in Proc, NEW l \in Labels \ Away, At(p, l)
  PROVE  /\ pc[p] = l /\ OnCpu(p) /\ state[p] = "RUNNING" /\ ret[p] = "user" /\ Where(p) = l
         /\ plock[p] = p <=> l = "sleep_release"
<1>1. pc[p] = l /\ OnCpu(p) /\ l \notin Away
  BY DEF At
<1>2. state[p] = "RUNNING" /\ ret[p] = "user"
  BY <1>1 DEF IInv, Place, Away
<1>3. plock[p] = p <=> l = "sleep_release"
  BY <1>1 DEF IInv, Locks, Away
<1> QED
  BY <1>1, <1>2, <1>3 DEF Where

\* The lock of a process that is neither on a CPU nor being filled in is free, and
\* one whose lock is free is RUNNING or off its CPU.
LEMMA FreeIsOff ==
  ASSUME IInv, NEW q \in Proc, plock[q] = None, state[q] # "RUNNING"
  PROVE  ~OnCpu(q) /\ pc[q] = "switched"
<1>1. plock[q] # q
  BY Slots
<1> QED
  BY <1>1 DEF IInv, Place, Locks

\* Process p goes on from l to m on its CPU.
Move(p, l, m) ==
  /\ At(p, l) /\ Goto(p, m)
  /\ UNCHANGED <<cproc, ret>>
  /\ \A q \in Proc \ {p} : idx'[q] = idx[q]

LEMMA Moved ==
  ASSUME IInv, NEW p \in Proc, NEW l \in Labels \ Away, NEW m \in Labels \ Away, Move(p, l, m)
  PROVE  /\ pc' \in [Proc -> Labels] /\ pc'[p] = m /\ Where(p)' = m
         /\ \A q \in Proc \ {p} : pc'[q] = pc[q] /\ Where(q)' = Where(q)
         /\ \A q : OnCpu(q)' = OnCpu(q)
<1>1. pc' = [pc EXCEPT ![p] = m] /\ pc \in [Proc -> Labels]
  BY DEF Move, Goto, IInv, TypeOK
<1>2. ret' = ret /\ cproc' = cproc
  BY DEF Move
<1>3. pc' \in [Proc -> Labels] /\ pc'[p] = m /\ \A q \in Proc \ {p} : pc'[q] = pc[q]
  BY <1>1
<1> QED
  BY <1>2, <1>3 DEF Where, OnCpu

\* The states that p changes on its way are of processes that are off their CPUs,
\* and it puts nobody to sleep.
OthersOff ==
  \A q \in Proc :
    \/ state'[q] = state[q] /\ chan'[q] = chan[q]
    \/ /\ ~OnCpu(q) /\ state'[q] \notin {"SLEEPING", "RUNNING"}
       /\ state'[q] \in Live \/ state[q] \notin Live

LEMMA MovedPlace ==
  ASSUME IInv, NEW p \in Proc, NEW l \in Labels \ Away, NEW m \in Labels \ Away,
         Move(p, l, m), OthersOff
  PROVE  OneCpu' /\ Place'
<1>1. OneCpu'
  BY DEF Move, IInv, OneCpu
<1>2. /\ pc'[p] = m /\ \A q \in Proc \ {p} : pc'[q] = pc[q]
      /\ \A q : OnCpu(q)' = OnCpu(q)
  BY Moved
<1>3. OnCpu(p) /\ state[p] = "RUNNING" /\ ret[p] = "user" /\ ret' = ret
  BY Stepping DEF Move
<1>4. ASSUME NEW q \in Proc
      PROVE  /\ ~OnCpu(q)' => pc'[q] = "switched" /\ state'[q] # "RUNNING"
             /\ OnCpu(q)' => IF pc'[q] = "sched" THEN state'[q] \in {"RUNNABLE", "SLEEPING", "ZOMBIE"}
                             ELSE state'[q] = "RUNNING"
             /\ state'[q] = "SLEEPING" => chan'[q] = q /\ ret'[q] = "wait"
             /\ pc'[q] \notin Away \/ state'[q] \notin Live => ret'[q] = "user"
  <2>1. /\ ~OnCpu(q) => pc[q] = "switched" /\ state[q] # "RUNNING"
        /\ OnCpu(q) => IF pc[q] = "sched" THEN state[q] \in {"RUNNABLE", "SLEEPING", "ZOMBIE"}
                       ELSE state[q] = "RUNNING"
        /\ state[q] = "SLEEPING" => chan[q] = q /\ ret[q] = "wait"
        /\ pc[q] \notin Away \/ state[q] \notin Live => ret[q] = "user"
    BY DEF IInv, Place
  <2>2. CASE q = p
    <3>1. state'[p] = "RUNNING" /\ m \notin Away
      BY <1>3, <2>2 DEF OthersOff
    <3> QED
      BY <1>2, <1>3, <2>2, <3>1 DEF Away
  <2>3. CASE q # p
    <3>1. pc'[q] = pc[q] /\ OnCpu(q)' = OnCpu(q) /\ ret'[q] = ret[q]
      BY <1>2, <1>3, <2>3
    <3>2. CASE state'[q] = state[q] /\ chan'[q] = chan[q]
      BY <2>1, <3>1, <3>2
    <3>3. CASE /\ ~OnCpu(q) /\ state'[q] \notin {"SLEEPING", "RUNNING"}
               /\ state'[q] \in Live \/ state[q] \notin Live
      BY <2>1, <3>1, <3>3 DEF Away
    <3> QED
      BY <3>2, <3>3 DEF OthersOff
  <2> QED
    BY <2>2, <2>3
<1>5. Place'
  BY <1>4 DEF Place
<1> QED
  BY <1>1, <1>5

LEMMA MovedLocks ==
  ASSUME IInv, NEW p \in Proc, NEW l \in Labels \ Away, NEW m \in Labels \ Away,
         Move(p, l, m), UNCHANGED plock, {l, m} \cap {"sleep_release", "fork_copy"} = {}
  PROVE  Locks'
<1>1. /\ pc'[p] = m /\ \A q \in Proc \ {p} : pc'[q] = pc[q] /\ idx'[q] = idx[q]
      /\ \A q : OnCpu(q)' = OnCpu(q)
  BY Moved DEF Move
<1>2. pc[p] = l /\ l \notin Away /\ m \notin Away /\ plock' = plock
  BY DEF Move, At
<1>3. ASSUME NEW q \in Proc
      PROVE  plock'[q] = q <=> \/ pc'[q] \in {"sched", "sleep_release"}
                               \/ pc'[q] = "switched" /\ OnCpu(q)'
  BY Zenon, <1>1, <1>2 DEF IInv, Locks, Away
<1>4. ASSUME NEW q \in Proc, NEW r \in Proc \ {q}
      PROVE  plock'[q] = r <=> pc'[r] = "fork_copy" /\ idx'[r] = q
  <2>1. plock[q] = r <=> pc[r] = "fork_copy" /\ idx[r] = q
    BY DEF IInv, Locks
  <2>2. CASE r = p
    BY Zenon, <1>1, <1>2, <2>1, <2>2
  <2>3. CASE r # p
    BY <1>1, <1>2, <2>1, <2>3
  <2> QED
    BY <2>2, <2>3
<1> QED
  BY <1>3, <1>4 DEF Locks

-----------------------------------------------------------------------------
(* Steps that keep everybody's place in the code: scheduling, preemption,  *)
(* kill() and trace().                                                     *)

\* What such a step leaves as it is.
Still ==
  /\ UNCHANGED <<wlock, parent, idx>>
  /\ \A q \in Proc :
       /\ Where(q)' = Where(q)
       /\ pc'[q] = pc[q] \/ {pc[q], pc'[q]} \subseteq Away \cup Unlocked
       /\ state'[q] = state[q] \/ (state[q] \in Live /\ state'[q] \in Live \ {"SLEEPING"})

LEMMA StillKeeps ==
  ASSUME IInv, Still
  PROVE  WaitLocked' /\ Forking' /\ Index' /\ Parents' /\ Waking' /\ Scanned' /\ Sleepers'
<1>1. /\ wlock' = wlock /\ parent' = parent /\ idx' = idx
      /\ \A q \in Proc : Where(q)' = Where(q)
  BY DEF Still
<1>2. \A q \in Proc : \A l \in Exiting \cup Waiting : pc'[q] = l <=> pc[q] = l
  BY DEF Still, Exiting, Waiting, Away, Unlocked
<1>3. \A q \in Proc : /\ state'[q] \in Live <=> state[q] \in Live
                      /\ state'[q] = "SLEEPING" => state[q] = "SLEEPING"
                      /\ state'[q] = "ZOMBIE" <=> state[q] = "ZOMBIE"
                      /\ state[q] = "USED" => state'[q] = "USED"
  BY DEF Still, Live
<1>4. WaitLocked'
  BY <1>1, <1>2 DEF IInv, WaitLocked
<1>5. Forking'
  <2>1. idx \in [Proc -> Proc]
    BY DEF IInv, TypeOK
  <2> QED
    BY <1>1, <1>3, <2>1 DEF IInv, Forking
<1>6. Index'
  BY <1>1 DEF IInv, Index
<1>7. Parents'
  <2>1. parent \in [Proc -> Proc \cup {None}] /\ initproc \in Proc
    BY Slots DEF IInv, TypeOK
  <2>2. \A q \in Proc : (pc'[q] \in Exiting <=> pc[q] \in Exiting)
                        /\ (pc'[q] \in Exiting \ {"reparent"} <=> pc[q] \in Exiting \ {"reparent"})
    BY <1>2 DEF Exiting
  <2>3. \A q \in Proc : Children(q)' = Children(q)
    BY <1>1 DEF Children
  <2> QED
    BY <1>1, <1>3, <2>1, <2>2, <2>3 DEF IInv, Parents
<1>8. Waking'
  <2>1. parent \in [Proc -> Proc \cup {None}]
    BY Slots DEF IInv, TypeOK
  <2>2. \A q \in Proc : (pc'[q] = "wake_parent" <=> pc[q] = "wake_parent")
                        /\ (pc'[q] = "zombie" <=> pc[q] = "zombie")
    BY <1>2 DEF Exiting
  <2>3. \A q \in Proc : 1 .. idx[q] - 1 \subseteq Proc
    BY NPROCAssumption DEF IInv, TypeOK, Proc
  <2> QED
    BY <1>1, <1>3, <2>1, <2>2, <2>3 DEF IInv, Waking
<1>9. Scanned'
  <2>1. \A q \in Proc : 1 .. idx[q] - 1 \subseteq Proc
    BY NPROCAssumption DEF IInv, TypeOK, Proc
  <2>2. \A q \in Proc : (pc'[q] = "wait_scan" <=> pc[q] = "wait_scan")
                        /\ (pc'[q] \in Waiting \ {"wait_scan"} <=> pc[q] \in Waiting \ {"wait_scan"})
    BY <1>2 DEF Waiting
  <2>3. \A q \in Proc : Children(q)' = Children(q) /\ Children(q) \subseteq Proc
    BY <1>1 DEF Children
  <2> QED
    BY <1>1, <1>3, <2>1, <2>2, <2>3 DEF IInv, Scanned
<1>10. Sleepers'
  <2>1. \A q \in Proc : pc'[q] = "wake_init" <=> pc[q] = "wake_init"
    BY <1>2 DEF Exiting
  <2> QED
    BY <1>1, <1>3, <2>1 DEF IInv, Sleepers
<1> QED
  BY <1>4, <1>5, <1>6, <1>7, <1>8, <1>9, <1>10

\* scheduler() takes a RUNNABLE process, or goes on to the next slot.
LEMMA ScheduleKeeps == ASSUME IInv, NEW c \in Cpu, Schedule(c) PROVE IInv'
<1> DEFINE s == scan[c]
<1>1. /\ cproc[c] = None /\ plock[s] = None /\ s \in Proc
      /\ UNCHANGED <<chan, killed, pc, ret, wlock, parent, mask, idx, sh>>
  BY DEF Schedule, Scheduler, CanLook, lifeVars, IInv, TypeOK
<1>2. CASE state[s] # "RUNNABLE"
  <2>1. UNCHANGED <<state, cproc, plock>> /\ scan' = [scan EXCEPT ![c] = NextSlot(@)]
    BY <1>2 DEF Schedule, Scheduler
  <2>2. TypeOK'
    BY <1>1, <2>1, Slots DEF IInv, TypeOK
  <2>3. \A q : OnCpu(q)' = OnCpu(q) /\ Where(q)' = Where(q)
    BY <1>1, <2>1 DEF OnCpu, Where
  <2>4. OneCpu' /\ Place' /\ Locks'
    BY <1>1, <2>1, <2>3 DEF IInv, OneCpu, Place, Locks
  <2>5. Still
    BY <1>1, <2>1, <2>3 DEF Still
  <2> QED
    BY <2>2, <2>4, <2>5, StillKeeps DEF IInv
<1>3. CASE state[s] = "RUNNABLE"
  <2>1. /\ state' = [state EXCEPT ![s] = "RUNNING"] /\ cproc' = [cproc EXCEPT ![c] = s]
        /\ plock' = [plock EXCEPT ![s] = s] /\ UNCHANGED scan
    BY <1>3 DEF Schedule, Scheduler
  <2>2. TypeOK'
    BY <1>1, <2>1 DEF IInv, TypeOK, Live
  <2>3. ~OnCpu(s) /\ pc[s] = "switched"
    BY <1>1, <1>3, FreeIsOff
  <2>4. OnCpu(s)' /\ \A q \in Proc \ {s} : OnCpu(q)' = OnCpu(q)
    <3>1. cproc \in [Cpu -> Proc \cup {None}] /\ None \notin Proc
      BY Slots DEF IInv, TypeOK
    <3> QED
      BY <1>1, <2>1, <3>1 DEF OnCpu
  <2>5. OneCpu'
    <3>1. cproc \in [Cpu -> Proc \cup {None}] /\ \A d \in Cpu : cproc[d] # s
      BY <2>3 DEF IInv, TypeOK, OnCpu
    <3> QED
      BY <1>1, <2>1, <3>1 DEF IInv, OneCpu
  <2>6. Place'
    <3>1. state \in [Proc -> Live \cup {"UNUSED", "USED", "ZOMBIE"}]
      BY DEF IInv, TypeOK
    <3> QED
      BY <1>1, <1>3, <2>1, <2>3, <2>4, <3>1 DEF IInv, Place, Live, Away
  <2>7. Locks'
    <3>1. plock \in [Proc -> Proc \cup {None}] /\ None \notin Proc
      BY Slots DEF IInv, TypeOK
    <3> QED
      BY <1>1, <2>1, <2>3, <2>4, <3>1 DEF IInv, Locks
  <2>8. Still
    <3>1. state \in [Proc -> Live \cup {"UNUSED", "USED", "ZOMBIE"}]
      BY DEF IInv, TypeOK
    <3> QED
      BY <1>1, <1>3, <2>1, <3>1 DEF Still, Where, Live
  <2> QED
    BY <2>2, <2>5, <2>6, <2>7, <2>8, StillKeeps DEF IInv
<1> QED
  BY <1>2, <1>3

\* swtch() takes p off its CPU and the scheduler gives p->lock back, or p is back
\* on a CPU and gives it back itself.
LEMMA SwitchKeeps == ASSUME IInv, NEW p \in Proc, Switch(p) PROVE IInv'
<1>1. UNCHANGED <<wlock, parent, mask, idx, sh>> /\ UNCHANGED <<state, killed>>
      /\ plock' = [plock EXCEPT ![p] = None]
  BY DEF Switch, SchedOut, Resume, lifeVars
<1>2. \A q \in Proc \ {p} : plock'[q] = plock[q]
  BY <1>1 DEF IInv, TypeOK
<1>3. plock'[p] = None
  BY <1>1 DEF IInv, TypeOK
<1>4. CASE SchedOut(p)
  <2>1. pc[p] = "sched" /\ pc' = [pc EXCEPT ![p] = "switched"] /\ UNCHANGED <<chan, ret>>
    BY <1>4 DEF SchedOut, At, Goto
  <2>2. PICK c \in Cpu : /\ cproc[c] = p /\ cproc' = [cproc EXCEPT ![c] = None]
                         /\ scan' = [scan EXCEPT ![c] = AfterRun(@)]
    BY Zenon, <1>4 DEF SchedOut
  <2>3. TypeOK'
    BY <1>1, <2>1, <2>2, Slots DEF IInv, TypeOK, AfterRun, Labels, Away
  <2>4. cproc \in [Cpu -> Proc \cup {None}] /\ None \notin Proc /\ pc \in [Proc -> Labels]
    BY Slots DEF IInv, TypeOK
  <2>5. ~OnCpu(p)' /\ \A q \in Proc \ {p} : OnCpu(q)' = OnCpu(q)
    BY <2>2, <2>4 DEF OnCpu, IInv, OneCpu
  <2>6. OneCpu'
    BY <2>2, <2>4 DEF IInv, OneCpu
  <2>7. pc'[p] = "switched" /\ \A q \in Proc \ {p} : pc'[q] = pc[q]
    BY <2>1, <2>4
  <2>8. Place'
    <3>1. OnCpu(p)
      BY <2>2 DEF OnCpu
    <3>2. state[p] # "RUNNING"
      BY <2>1, <3>1 DEF IInv, Place
    <3> QED
      BY <1>1, <2>1, <2>5, <2>7, <3>2 DEF IInv, Place, Away
  <2>9. Locks'
    BY <1>1, <1>2, <1>3, <2>1, <2>4, <2>5, <2>7 DEF IInv, Locks
  <2>10. Still
    BY <1>1, <2>1, <2>7 DEF Still, Where, Away
  <2> QED
    BY <2>3, <2>6, <2>8, <2>9, <2>10, StillKeeps DEF IInv
<1>5. CASE Resume(p)
  <2>1. /\ pc[p] = "switched" /\ OnCpu(p) /\ pc' = [pc EXCEPT ![p] = ret[p]]
        /\ chan' = [chan EXCEPT ![p] = None] /\ ret' = [ret EXCEPT ![p] = "user"]
        /\ UNCHANGED <<cproc, scan>>
    BY <1>5 DEF Resume, At, Goto
  <2>2. TypeOK'
    BY <1>1, <2>1 DEF IInv, TypeOK, Labels, Unlocked
  <2>3. /\ pc \in [Proc -> Labels] /\ ret \in [Proc -> Unlocked] /\ chan \in [Proc -> Proc \cup {None}]
        /\ None \notin Proc
    BY Slots DEF IInv, TypeOK
  <2>4. /\ pc'[p] = ret[p] /\ ret'[p] = "user" /\ ret[p] \in Unlocked
        /\ \A q \in Proc \ {p} : pc'[q] = pc[q] /\ ret'[q] = ret[q] /\ chan'[q] = chan[q]
        /\ \A q : OnCpu(q)' = OnCpu(q)
    BY <2>1, <2>3 DEF OnCpu
  <2>5. OneCpu'
    BY <2>1 DEF IInv, OneCpu
  <2>6. Place'
    <3>1. state[p] = "RUNNING"
      BY <2>1 DEF IInv, Place
    <3> QED
      BY <1>1, <2>1, <2>4, <3>1 DEF IInv, Place, Away, Unlocked
  <2>7. Locks'
    BY <1>1, <1>2, <1>3, <2>1, <2>3, <2>4 DEF IInv, Locks, Unlocked
  <2>8. Still
    BY <1>1, <2>1, <2>4 DEF Still, Where, Away, Unlocked
  <2> QED
    BY <2>2, <2>5, <2>6, <2>7, <2>8, StillKeeps DEF IInv
<1> QED
  BY <1>4, <1>5 DEF Switch

\* A timer interrupt: yield() where p holds no lock.
LEMMA PreemptKeeps == ASSUME IInv, NEW p \in Proc, Preempt(p) PROVE IInv'
<1>1. /\ OnCpu(p) /\ pc[p] \in Unlocked /\ plock[p] = None
      /\ plock' = [plock EXCEPT ![p] = p] /\ state' = [state EXCEPT ![p] = "RUNNABLE"]
      /\ ret' = [ret EXCEPT ![p] = pc[p]] /\ pc' = [pc EXCEPT ![p] = "sched"]
      /\ UNCHANGED <<chan, killed, cproc, scan, wlock, parent, mask, idx, sh>>
  BY DEF Preempt, Yield, Goto, lifeVars
<1>2. TypeOK'
  BY <1>1 DEF IInv, TypeOK, Live, Labels, Away
<1>3. /\ pc \in [Proc -> Labels] /\ ret \in [Proc -> Unlocked]
      /\ plock \in [Proc -> Proc \cup {None}]
      /\ state \in [Proc -> Live \cup {"UNUSED", "USED", "ZOMBIE"}] /\ None \notin Proc
  BY Slots DEF IInv, TypeOK
<1>4. /\ pc'[p] = "sched" /\ ret'[p] = pc[p] /\ plock'[p] = p /\ state'[p] = "RUNNABLE"
      /\ \A q \in Proc \ {p} : /\ pc'[q] = pc[q] /\ ret'[q] = ret[q]
                               /\ plock'[q] = plock[q] /\ state'[q] = state[q]
      /\ \A q : OnCpu(q)' = OnCpu(q)
  BY <1>1, <1>3 DEF OnCpu
<1>5. OneCpu'
  BY <1>1 DEF IInv, OneCpu
<1>6. state[p] = "RUNNING" /\ pc[p] \notin Away
  BY <1>1 DEF IInv, Place, Unlocked, Away
<1>7. Place'
  BY <1>1, <1>4, <1>6 DEF IInv, Place, Away, Live
<1>8. Locks'
  <2>1. pc[p] \in Unlocked /\ plock[p] # p /\ idx' = idx
    BY <1>1, <1>3
  <2>2. ASSUME NEW q \in Proc
        PROVE  plock'[q] = q <=> \/ pc'[q] \in {"sched", "sleep_release"}
                                 \/ pc'[q] = "switched" /\ OnCpu(q)'
    <3>1. plock[q] = q <=> \/ pc[q] \in {"sched", "sleep_release"}
                           \/ pc[q] = "switched" /\ OnCpu(q)
      BY DEF IInv, Locks
    <3> QED
      BY Zenon, <1>4, <3>1
  <2>3. ASSUME NEW q \in Proc, NEW r \in Proc \ {q}
        PROVE  plock'[q] = r <=> pc'[r] = "fork_copy" /\ idx'[r] = q
    <3>1. plock[q] = r <=> pc[r] = "fork_copy" /\ idx[r] = q
      BY DEF IInv, Locks
    <3>2. pc[p] # "fork_copy" /\ pc'[p] # "fork_copy"
      BY <1>4, <2>1 DEF Unlocked
    <3>3. pc'[r] = "fork_copy" <=> pc[r] = "fork_copy"
      BY Zenon, <1>4, <3>2
    <3>4. plock'[q] = r <=> plock[q] = r
      <4>1. CASE q = p
        BY Zenon, <1>1, <1>3, <1>4, <4>1
      <4>2. CASE q # p
        BY Zenon, <1>4, <4>2
      <4> QED
        BY <4>1, <4>2
    <3> QED
      BY Zenon, <2>1, <3>1, <3>3, <3>4
  <2> QED
    BY <2>2, <2>3 DEF Locks
<1>9. Still
  BY <1>1, <1>4, <1>6 DEF Still, Where, Away, Live
<1> QED
  BY <1>2, <1>5, <1>7, <1>8, <1>9, StillKeeps DEF IInv

\* kill() of q: one that sleeps is off its CPU when kill() has its lock.
LEMMA KillKeeps == ASSUME IInv, NEW p \in Proc, NEW q \in Proc, Kill(p, q) PROVE IInv'
<1>1. /\ plock[q] = None /\ killed' = [killed EXCEPT ![q] = TRUE]
      /\ state' = IF state[q] = "SLEEPING" THEN [state EXCEPT ![q] = "RUNNABLE"] ELSE state
      /\ UNCHANGED <<chan, plock, cproc, scan, pc, ret, wlock, parent, mask, idx, sh>>
  BY DEF Kill, KillOne, lifeVars
<1>2. TypeOK'
  BY <1>1 DEF IInv, TypeOK, Live
<1>3. \A r : OnCpu(r)' = OnCpu(r) /\ Where(r)' = Where(r)
  BY <1>1 DEF OnCpu, Where
<1>4. OneCpu' /\ Locks'
  BY <1>1, <1>3 DEF IInv, OneCpu, Locks
<1>5. \A r \in Proc : \/ state'[r] = state[r]
                      \/ ~OnCpu(r) /\ state[r] = "SLEEPING" /\ state'[r] = "RUNNABLE"
  <2>1. state \in [Proc -> Live \cup {"UNUSED", "USED", "ZOMBIE"}]
    BY DEF IInv, TypeOK
  <2>2. state[q] = "SLEEPING" => ~OnCpu(q)
    BY <1>1, FreeIsOff
  <2> QED
    BY <1>1, <2>1, <2>2
<1>6. Place'
  BY <1>1, <1>3, <1>5 DEF IInv, Place, Live
<1>7. Still
  BY <1>1, <1>3, <1>5 DEF Still, Live
<1> QED
  BY <1>2, <1>4, <1>6, <1>7, StillKeeps DEF IInv

\* trace() changes the mask only, and so does a step that changes nothing.
LEMMA TraceKeeps ==
  ASSUME IInv, mask' \in [Proc -> Masks], UNCHANGED <<schedVars, wlock, parent, idx, sh>>
  PROVE  IInv'
<1>1. UNCHANGED <<state, chan, killed, plock, cproc, scan, pc, ret, wlock, parent, idx, sh>>
  BY DEF schedVars
<1>2. TypeOK'
  BY <1>1 DEF IInv, TypeOK
<1>3. \A r : OnCpu(r)' = OnCpu(r) /\ Where(r)' = Where(r)
  BY <1>1 DEF OnCpu, Where
<1>4. OneCpu' /\ Place' /\ Locks'
  BY <1>1, <1>3 DEF IInv, OneCpu, Place, Locks
<1>5. Still
  BY <1>1, <1>3 DEF Still
<1> QED
  BY <1>2, <1>4, <1>5, StillKeeps DEF IInv

-----------------------------------------------------------------------------
(* Steps of a process that leave everybody's state and parent as they are. *)

\* wait_lock is taken, given back or left as it is when p goes on from l to m.
LockStep(p, l, m) ==
  LET holding == Exiting \cup Waiting
  IN  \/ wlock' = wlock /\ (l \in holding <=> m \in holding)
      \/ wlock = None /\ wlock' = p /\ m \in holding
      \/ l \in holding /\ wlock' = None /\ m \notin holding

LEMMA MovedWaitLock ==
  ASSUME IInv, NEW p \in Proc, NEW l \in Labels \ Away, NEW m \in Labels \ Away,
         Move(p, l, m), LockStep(p, l, m)
  PROVE  WaitLocked'
<1>1. pc[p] = l /\ pc'[p] = m /\ \A q \in Proc \ {p} : pc'[q] = pc[q]
  BY Moved DEF Move, At
<1>2. \A q \in Proc : wlock = q <=> pc[q] \in Exiting \cup Waiting
  BY DEF IInv, WaitLocked
<1>3. None \notin Proc
  BY Slots
<1> HIDE DEF IInv
<1>4. ASSUME NEW q \in Proc PROVE wlock' = q <=> pc'[q] \in Exiting \cup Waiting
  <2>1. CASE wlock' = wlock /\ (l \in Exiting \cup Waiting <=> m \in Exiting \cup Waiting)
    BY <1>1, <1>2, <2>1
  <2>2. CASE wlock = None /\ wlock' = p /\ m \in Exiting \cup Waiting
    BY <1>1, <1>2, <1>3, <2>2
  <2>3. CASE l \in Exiting \cup Waiting /\ wlock' = None /\ m \notin Exiting \cup Waiting
    BY <1>1, <1>2, <1>3, <2>3
  <2> QED
    BY <2>1, <2>2, <2>3 DEF LockStep
<1> QED
  BY <1>4 DEF WaitLocked

\* What wait() has found out when p is at m.
Found(p, m) ==
  /\ m = "wait_scan" => \A q \in 1 .. idx'[p] - 1 : parent[q] = p => state[q] # "ZOMBIE"
  /\ m \in Waiting \ {"wait_scan"} => \A q \in Children(p) : state[q] # "ZOMBIE"

\* Labels between which p moves without a word about anybody else's state.
Plain == Labels \ (Away \cup Making \cup Exiting \cup {"fork_trace"})

LEMMA PlainKeeps ==
  ASSUME IInv, NEW p \in Proc, NEW l \in Plain \cup {"fork_trace"}, NEW m \in Plain \cup {"reparent"},
         Move(p, l, m), UNCHANGED <<state, parent>>,
         p = initproc => m # "reparent",
         m \notin {"fork_scan", "wait_scan"} => idx'[p] = 1,
         Found(p, m)
  PROVE  Forking' /\ Index' /\ Parents' /\ Waking' /\ Scanned' /\ Sleepers'
<1>1. l \in Labels \ Away /\ m \in Labels \ Away
  BY DEF Plain, Labels, Unlocked, Exiting, Away
<1>2. /\ pc[p] = l /\ pc'[p] = m /\ \A q \in Proc \ {p} : pc'[q] = pc[q] /\ idx'[q] = idx[q]
      /\ Where(p) = l /\ Where(p)' = m /\ \A q \in Proc \ {p} : Where(q)' = Where(q)
  BY <1>1, Moved, Stepping DEF Move, At
<1>3. /\ l \notin Making \cup Exiting
      /\ m \notin Making \cup {"fork_trace", "wake_init", "wake_parent", "zombie"}
  BY DEF Plain, Making, Exiting
<1>4. state' = state /\ parent' = parent /\ \A q : Children(q)' = Children(q)
  BY DEF Children
<1>5. Forking'
  BY <1>2, <1>3, <1>4 DEF IInv, Forking, Making
<1>6. Index'
  BY <1>2, <1>3 DEF IInv, Index, Making
<1>7. Parents'
  <2>1. initproc \in Proc /\ pc'[initproc] \notin Exiting
    BY <1>2, <1>3, Slots DEF IInv, Parents, Exiting
  <2>2. \A q \in Proc : pc'[q] \in Exiting \ {"reparent"} => pc[q] = pc'[q]
    BY <1>2, <1>3 DEF Exiting
  <2> QED
    BY <1>4, <2>1, <2>2 DEF IInv, Parents
<1>8. Waking'
  BY <1>2, <1>3, <1>4 DEF IInv, Waking
<1>9. Scanned'
  BY <1>2, <1>4 DEF IInv, Scanned, Found
<1>10. Sleepers'
  BY <1>2, <1>3, <1>4 DEF IInv, Sleepers, Exiting
<1> QED
  BY <1>5, <1>6, <1>7, <1>8, <1>9, <1>10

LEMMA PlainStep ==
  ASSUME IInv, TypeOK', NEW p \in Proc,
         NEW l \in (Plain \cup {"fork_trace"}) \ {"sleep_release", "fork_copy"},
         NEW m \in (Plain \cup {"reparent"}) \ {"sleep_release", "fork_copy"},
         Move(p, l, m), LockStep(p, l, m), UNCHANGED <<state, chan, plock, parent>>,
         p = initproc => m # "reparent",
         m \notin {"fork_scan", "wait_scan"} => idx'[p] = 1,
         Found(p, m)
  PROVE  IInv'
<1>1. l \in Labels \ Away /\ m \in Labels \ Away
  BY DEF Plain, Labels, Unlocked, Exiting, Away
<1>2. OneCpu' /\ Place'
  <2>1. OthersOff
    BY DEF OthersOff
  <2> QED
    BY <1>1, <2>1, MovedPlace
<1>3. Locks'
  BY <1>1, MovedLocks
<1>4. WaitLocked'
  BY <1>1, MovedWaitLock
<1>5. Forking' /\ Index' /\ Parents' /\ Waking' /\ Scanned' /\ Sleepers'
  BY PlainKeeps
<1> QED
  BY <1>2, <1>3, <1>4, <1>5 DEF IInv

\* A step of p from l to m that touches no more than its place and its loop.
LEMMA InternalMoves ==
  ASSUME IInv, NEW p \in Proc, NEW l, NEW m \in Labels, At(p, l), Internal(p, m),
         wlock' \in Proc \cup {None}, parent' = parent, mask' \in [Proc -> Masks], sh' \in Proc \cup {None},
         NEW k \in Proc, idx' = [idx EXCEPT ![p] = k] \/ (idx' = idx /\ k = idx[p])
  PROVE  Move(p, l, m) /\ TypeOK' /\ UNCHANGED <<state, chan, plock>> /\ idx'[p] = k
<1>1. /\ pc' = [pc EXCEPT ![p] = m] /\ UNCHANGED <<state, chan, killed, plock, cproc, scan, ret>>
  BY DEF Internal, Goto
<1>2. idx \in [Proc -> Proc]
  BY DEF IInv, TypeOK
<1>3. idx' \in [Proc -> Proc] /\ idx'[p] = k /\ \A q \in Proc \ {p} : idx'[q] = idx[q]
  BY <1>2
<1>4. TypeOK'
  BY Zenon, <1>1, <1>3 DEF IInv, TypeOK
<1> QED
  BY <1>1, <1>3, <1>4 DEF Move, Goto

\* The same where p is in no loop.
LEMMA StayMoves ==
  ASSUME IInv, NEW p \in Proc, NEW l, NEW m \in Labels, At(p, l), Internal(p, m),
         UNCHANGED <<parent, mask, idx, sh>>, wlock' \in {wlock, p, None}, idx[p] = 1
  PROVE  Move(p, l, m) /\ TypeOK' /\ UNCHANGED <<state, chan, plock>> /\ idx'[p] = 1
<1>1. /\ wlock' \in Proc \cup {None} /\ mask' \in [Proc -> Masks] /\ sh' \in Proc \cup {None}
      /\ idx[p] \in Proc
  BY DEF IInv, TypeOK
<1> QED
  BY <1>1, InternalMoves, Zenon

\* fork()s are not disturbed.
LEMMA ForkingKept ==
  ASSUME IInv,
         \A q \in Proc : Where(q)' \in Making \cup {"fork_trace"} =>
           /\ Where(q)' = Where(q) /\ idx'[q] = idx[q] /\ (parent[idx[q]] = q => parent'[idx[q]] = q)
           /\ state[idx[q]] = "USED" => state'[idx[q]] = "USED"
           /\ state[idx[q]] \in Live \cup {"ZOMBIE"} => state'[idx[q]] \in Live \cup {"ZOMBIE"}
  PROVE  Forking'
<1>1. Forking
  BY DEF IInv
<1>2. ASSUME NEW q \in Proc, Where(q)' \in Making
      PROVE  /\ state'[idx'[q]] = "USED"
             /\ \A r \in Proc \ {q} : Where(r)' \in Making => idx'[r] # idx'[q]
  BY <1>1, <1>2 DEF Forking
<1>3. ASSUME NEW q \in Proc, Where(q)' \in {"fork_run", "fork_trace"} PROVE parent'[idx'[q]] = q
  BY <1>1, <1>3 DEF Forking, Making
<1>4. ASSUME NEW q \in Proc, Where(q)' = "fork_trace" PROVE state'[idx'[q]] \in Live \cup {"ZOMBIE"}
  BY <1>1, <1>4 DEF Forking
<1> QED
  BY <1>2, <1>3, <1>4 DEF Forking

\* A system call, or exit() of a killed process.
LEMMA SyscallKeeps == ASSUME IInv, NEW p \in Proc, Syscall(p) \/ ExitKilled(p) PROVE IInv'
<1>1. PICK m \in {"fork_scan", "wait", "exit"} : At(p, "user") /\ Internal(p, m)
  BY DEF Syscall, ExitKilled, Calls, InitCalls
<1>2. UNCHANGED <<wlock, parent, mask, idx, sh>>
  BY DEF Syscall, ExitKilled, lifeVars
<1>3. "user" \in Plain /\ m \in Plain
  BY DEF Plain, Labels, Unlocked, Away, Making, Exiting
<1>4. idx[p] = 1 /\ idx[p] \in Proc
  BY <1>1, <1>3, Stepping DEF IInv, Index, TypeOK, Plain
<1>5. Move(p, "user", m) /\ TypeOK' /\ UNCHANGED <<state, chan, plock>> /\ idx'[p] = 1
  BY <1>1, <1>2, <1>3, <1>4, StayMoves DEF Plain
<1>6. LockStep(p, "user", m)
  BY <1>2 DEF LockStep, Exiting, Waiting
<1>7. Found(p, m)
  BY DEF Found, Waiting
<1> QED
  BY <1>2, <1>3, <1>5, <1>6, <1>7, PlainStep

\* exit() takes wait_lock; init's panics.
LEMMA ExitLockKeeps == ASSUME IInv, NEW p \in Proc, ExitLock(p) PROVE IInv'
<1> DEFINE m == IF p = initproc THEN "panic" ELSE "reparent"
<1>1. /\ At(p, "exit") /\ Internal(p, m) /\ UNCHANGED <<parent, mask, idx, sh>>
      /\ IF p = initproc THEN wlock' = wlock ELSE wlock = None /\ wlock' = p
  BY DEF ExitLock
<1>2. "exit" \in Plain /\ m \in Plain \cup {"reparent"} /\ m \in Labels
      /\ m \notin {"fork_scan", "wait_scan", "sleep_release", "fork_copy"}
  BY DEF Plain, Labels, Unlocked, Away, Making, Exiting
<1>3. idx[p] = 1 /\ idx[p] \in Proc
  BY <1>1, <1>2, Stepping DEF IInv, Index, TypeOK, Plain
<1>4. Move(p, "exit", m) /\ TypeOK' /\ UNCHANGED <<state, chan, plock>> /\ idx'[p] = 1
  BY <1>1, <1>2, <1>3, StayMoves
<1>5. LockStep(p, "exit", m)
  BY <1>1 DEF LockStep, Exiting, Waiting
<1>6. Found(p, m)
  BY DEF Found, Waiting
<1>7. p = initproc => m # "reparent"
  OBVIOUS
<1> HIDE DEF m
<1> QED
  BY <1>1, <1>2, <1>4, <1>5, <1>6, <1>7, PlainStep

\* allocproc() goes on to the next slot, or has found none.
LEMMA ForkScanOnKeeps ==
  ASSUME IInv, NEW p \in Proc, ForkScan(p), state[idx[p]] # "UNUSED" PROVE IInv'
<1> DEFINE m == IF idx[p] = NPROC THEN Failed(p) ELSE "fork_scan"
<1>1. /\ At(p, "fork_scan") /\ Internal(p, m) /\ idx' = [idx EXCEPT ![p] = NextSlot(idx[p])]
      /\ UNCHANGED <<wlock, parent, mask, sh>>
  BY DEF ForkScan
<1>2. "fork_scan" \in Plain /\ m \in Plain /\ m \in {"fork_scan", "exit", "user"}
  BY DEF Plain, Labels, Unlocked, Away, Making, Exiting, Failed
<1>3. idx[p] \in Proc /\ NextSlot(idx[p]) \in Proc /\ (m # "fork_scan" => NextSlot(idx[p]) = 1)
  BY Slots DEF IInv, TypeOK
<1> HIDE DEF m
<1>4. /\ Move(p, "fork_scan", m) /\ TypeOK' /\ UNCHANGED <<state, chan, plock>>
      /\ idx'[p] = NextSlot(idx[p])
  BY Zenon, <1>1, <1>2, <1>3, InternalMoves DEF Plain, IInv, TypeOK
<1>5. LockStep(p, "fork_scan", m)
  BY <1>1, <1>2 DEF LockStep, Exiting, Waiting
<1>6. Found(p, m)
  BY <1>2 DEF Found, Waiting
<1> QED
  BY Zenon, <1>1, <1>2, <1>3, <1>4, <1>5, <1>6, PlainStep

\* wait() takes wait_lock.
LEMMA WaitLockKeeps == ASSUME IInv, NEW p \in Proc, WaitLock(p) PROVE IInv'
<1>1. /\ At(p, "wait") /\ Internal(p, "wait_scan") /\ UNCHANGED <<parent, mask, idx, sh>>
      /\ wlock = None /\ wlock' = p
  BY DEF WaitLock
<1>2. "wait" \in Plain /\ "wait_scan" \in Plain
  BY DEF Plain, Labels, Unlocked, Away, Making, Exiting, Waiting
<1>3. idx[p] = 1 /\ idx[p] \in Proc
  BY <1>1, <1>2, Stepping DEF IInv, Index, TypeOK, Plain
<1>4. /\ Move(p, "wait", "wait_scan") /\ TypeOK' /\ UNCHANGED <<state, chan, plock>>
      /\ idx'[p] = 1
  BY <1>1, <1>2, <1>3, StayMoves DEF Plain
<1>5. LockStep(p, "wait", "wait_scan")
  BY <1>1 DEF LockStep, Exiting, Waiting
<1>6. Found(p, "wait_scan")
  <2>1. idx'[p] = 1
    BY <1>4
  <2>2. \A q \in 1 .. idx'[p] - 1 : FALSE
    BY ONLY <2>1
  <2> QED
    BY Zenon, <2>2 DEF Found
<1> QED
  BY <1>1, <1>2, <1>4, <1>5, <1>6, PlainStep

\* wait() finds no ZOMBIE child in a slot, and goes on.
LEMMA WaitScanOnKeeps ==
  ASSUME IInv, NEW p \in Proc, WaitScan(p), ~(idx[p] \in Children(p) /\ state[idx[p]] = "ZOMBIE")
  PROVE  IInv'
<1> DEFINE m == IF idx[p] = NPROC THEN "wait_check" ELSE "wait_scan"
<1>1. /\ At(p, "wait_scan") /\ Internal(p, m) /\ idx' = [idx EXCEPT ![p] = NextSlot(idx[p])]
      /\ UNCHANGED <<wlock, parent, mask, sh>>
  BY Zenon DEF WaitScan
<1>2. "wait_scan" \in Plain /\ m \in Plain /\ m \in {"wait_scan", "wait_check"}
  BY DEF Plain, Labels, Unlocked, Away, Making, Exiting, Waiting
<1>3. idx[p] \in Proc /\ NextSlot(idx[p]) \in Proc /\ (m # "wait_scan" => NextSlot(idx[p]) = 1)
  BY Slots DEF IInv, TypeOK
<1>4. /\ Move(p, "wait_scan", m) /\ TypeOK' /\ UNCHANGED <<state, chan, plock>>
      /\ idx'[p] = NextSlot(idx[p])
  <2> HIDE DEF m
  <2> QED
    BY Zenon, <1>1, <1>2, <1>3, InternalMoves DEF Plain, IInv, TypeOK
<1>5. LockStep(p, "wait_scan", m)
  BY <1>1, <1>2 DEF LockStep, Exiting, Waiting
<1>6. \A q \in 1 .. idx[p] : parent[q] = p => state[q] # "ZOMBIE"
  <2>1. \A q \in 1 .. idx[p] - 1 : parent[q] = p => state[q] # "ZOMBIE"
    BY Zenon, <1>1 DEF At, IInv, Scanned
  <2>2. parent[idx[p]] = p => state[idx[p]] # "ZOMBIE"
    BY <1>3 DEF Children
  <2> QED
    BY <1>3, <2>1, <2>2, NPROCAssumption DEF Proc
<1>7. Found(p, m)
  <2>1. CASE idx[p] = NPROC
    BY <1>6, <2>1 DEF Found, Children, Proc
  <2>2. CASE idx[p] # NPROC
    <3>1. idx'[p] = idx[p] + 1 /\ idx[p] \in Nat
      BY <1>3, <1>4, <2>2, Slots, NPROCAssumption DEF Proc
    <3> QED
      BY <1>6, <2>2, <3>1 DEF Found
  <2> QED
    BY <2>1, <2>2
<1> HIDE DEF m
<1> QED
  BY <1>1, <1>2, <1>3, <1>4, <1>5, <1>7, PlainStep, Zenon

\* wait() gives up, or is about to sleep.
LEMMA WaitCheckKeeps == ASSUME IInv, NEW p \in Proc, WaitCheck(p) PROVE IInv'
<1>1. PICK m \in {"user", "exit", "sleep"} :
        /\ At(p, "wait_check") /\ Internal(p, m) /\ UNCHANGED <<parent, mask, idx, sh>>
        /\ IF m = "sleep" THEN wlock' = wlock ELSE wlock' = None
  BY DEF WaitCheck, Failed
<1>2. "wait_check" \in Plain /\ m \in Plain
  BY DEF Plain, Labels, Unlocked, Away, Making, Exiting, Waiting
<1>3. idx[p] = 1 /\ idx[p] \in Proc
  BY <1>1, <1>2, Stepping DEF IInv, Index, TypeOK, Plain
<1>4. /\ Move(p, "wait_check", m) /\ TypeOK' /\ UNCHANGED <<state, chan, plock>>
      /\ idx'[p] = 1
  BY <1>1, <1>2, <1>3, StayMoves DEF Plain
<1>5. LockStep(p, "wait_check", m)
  BY <1>1 DEF LockStep, Exiting, Waiting
<1>6. Found(p, m)
  BY <1>1 DEF Found, Waiting, At, IInv, Scanned
<1> QED
  BY <1>1, <1>2, <1>4, <1>5, <1>6, PlainStep

-----------------------------------------------------------------------------
(* sleep(p, &wait_lock).                                                   *)

\* sleep() takes p->lock while p has wait_lock.
LEMMA WaitSleepLockKeeps == ASSUME IInv, NEW p \in Proc, WaitSleepLock(p) PROVE IInv'
<1>1. /\ plock[p] = None /\ plock' = [plock EXCEPT ![p] = p] /\ Goto(p, "sleep_release")
      /\ At(p, "sleep") /\ UNCHANGED <<state, chan, killed, cproc, scan, ret>>
      /\ UNCHANGED <<wlock, parent, mask, idx, sh>>
  BY DEF WaitSleepLock, SleepAcquire, lifeVars
<1>2. /\ "sleep" \in Plain /\ "sleep_release" \in Plain
      /\ "sleep" \in Labels \ Away /\ "sleep_release" \in Labels \ Away
  BY DEF Plain, Labels, Unlocked, Away, Making, Exiting, Waiting
<1>3. Move(p, "sleep", "sleep_release")
  BY <1>1 DEF Move
<1>4. /\ pc' \in [Proc -> Labels] /\ pc'[p] = "sleep_release"
      /\ \A q \in Proc \ {p} : pc'[q] = pc[q]
      /\ \A q : OnCpu(q)' = OnCpu(q)
  BY <1>2, <1>3, Moved
<1>5. TypeOK'
  BY Zenon, <1>1, <1>4 DEF IInv, TypeOK
<1>6. OneCpu' /\ Place'
  <2>1. OthersOff
    BY <1>1 DEF OthersOff
  <2> QED
    BY <1>2, <1>3, <2>1, MovedPlace
<1>7. Locks'
  <2>1. /\ plock \in [Proc -> Proc \cup {None}] /\ None \notin Proc /\ idx' = idx
        /\ pc[p] = "sleep"
    BY <1>1, Slots DEF IInv, TypeOK, At
  <2>2. plock'[p] = p /\ \A q \in Proc \ {p} : plock'[q] = plock[q]
    BY <1>1, <2>1
  <2>3. ASSUME NEW q \in Proc
        PROVE  plock'[q] = q <=> \/ pc'[q] \in {"sched", "sleep_release"}
                                 \/ pc'[q] = "switched" /\ OnCpu(q)'
    <3>1. plock[q] = q <=> \/ pc[q] \in {"sched", "sleep_release"}
                           \/ pc[q] = "switched" /\ OnCpu(q)
      BY DEF IInv, Locks
    <3> QED
      BY Zenon, <1>4, <2>2, <3>1
  <2>4. ASSUME NEW q \in Proc, NEW r \in Proc \ {q}
        PROVE  plock'[q] = r <=> pc'[r] = "fork_copy" /\ idx'[r] = q
    <3>1. plock[q] = r <=> pc[r] = "fork_copy" /\ idx[r] = q
      BY DEF IInv, Locks
    <3>2. pc'[r] = "fork_copy" <=> pc[r] = "fork_copy"
      BY <1>4, <2>1
    <3> QED
      BY <1>1, <2>1, <2>2, <3>1, <3>2
  <2> QED
    BY <2>3, <2>4 DEF Locks
<1>8. WaitLocked'
  <2>1. LockStep(p, "sleep", "sleep_release")
    BY <1>1 DEF LockStep, Waiting
  <2> QED
    BY <1>2, <1>3, <2>1, MovedWaitLock
<1>9. Forking' /\ Index' /\ Parents' /\ Waking' /\ Scanned' /\ Sleepers'
  <2>1. Found(p, "sleep_release")
    BY <1>1 DEF Found, Waiting, At, IInv, Scanned
  <2>2. idx'[p] = 1
    BY <1>1, <1>2, Stepping DEF IInv, Index
  <2> QED
    BY <1>1, <1>2, <1>3, <2>1, <2>2, PlainKeeps
<1> QED
  BY <1>5, <1>6, <1>7, <1>8, <1>9 DEF IInv

\* p gives wait_lock back and is SLEEPING.  It has looked at all its children while
\* it had wait_lock, and none was a ZOMBIE.
LEMMA WaitSleepUnlockKeeps == ASSUME IInv, NEW p \in Proc, WaitSleepUnlock(p) PROVE IInv'
<1>1. /\ At(p, "sleep_release") /\ chan' = [chan EXCEPT ![p] = p]
      /\ state' = [state EXCEPT ![p] = "SLEEPING"] /\ ret' = [ret EXCEPT ![p] = "wait"]
      /\ pc' = [pc EXCEPT ![p] = "sched"] /\ wlock' = None
      /\ UNCHANGED <<killed, plock, cproc, scan, parent, mask, idx, sh>>
  BY DEF WaitSleepUnlock, SleepRelease, Goto
<1>2. TypeOK'
  BY <1>1 DEF IInv, TypeOK, Live, Labels, Away, Unlocked
<1>3. /\ pc[p] = "sleep_release" /\ OnCpu(p) /\ state[p] = "RUNNING" /\ Where(p) = "sleep_release"
      /\ plock[p] = p
  BY Zenon, <1>1, Stepping DEF Labels, Waiting, Away
<1>4. /\ state'[p] = "SLEEPING" /\ ret'[p] = "wait" /\ pc'[p] = "sched" /\ chan'[p] = p
      /\ \A q \in Proc \ {p} : /\ state'[q] = state[q] /\ ret'[q] = ret[q]
                               /\ pc'[q] = pc[q] /\ chan'[q] = chan[q]
      /\ \A q : OnCpu(q)' = OnCpu(q)
  BY <1>1 DEF IInv, TypeOK, OnCpu
<1>5. Where(p)' = "wait" /\ \A q \in Proc \ {p} : Where(q)' = Where(q)
  BY Zenon, <1>4 DEF Where, Away
<1>6. OneCpu'
  BY <1>1 DEF IInv, OneCpu
<1>7. Place'
  BY <1>3, <1>4 DEF IInv, Place, Live, Away
<1>8. Locks'
  <2>1. \A q \in Proc : /\ pc'[q] = "fork_copy" <=> pc[q] = "fork_copy"
                        /\ pc'[q] = "switched" <=> pc[q] = "switched"
                        /\ pc'[q] \in {"sched", "sleep_release"} <=> pc[q] \in {"sched", "sleep_release"}
    BY <1>3, <1>4
  <2>2. plock' = plock /\ idx' = idx
    BY <1>1
  <2>3. ASSUME NEW q \in Proc
        PROVE  plock'[q] = q <=> \/ pc'[q] \in {"sched", "sleep_release"}
                                 \/ pc'[q] = "switched" /\ OnCpu(q)'
    <3>1. plock[q] = q <=> \/ pc[q] \in {"sched", "sleep_release"}
                           \/ pc[q] = "switched" /\ OnCpu(q)
      BY DEF IInv, Locks
    <3>2. pc'[q] \in {"sched", "sleep_release"} <=> pc[q] \in {"sched", "sleep_release"}
      BY <2>1
    <3>3. (pc'[q] = "switched" <=> pc[q] = "switched") /\ OnCpu(q)' = OnCpu(q)
      BY <1>4, <2>1
    <3> QED
      BY ONLY <2>2, <3>1, <3>2, <3>3
  <2>4. ASSUME NEW q \in Proc, NEW r \in Proc \ {q}
        PROVE  plock'[q] = r <=> pc'[r] = "fork_copy" /\ idx'[r] = q
    <3>1. plock[q] = r <=> pc[r] = "fork_copy" /\ idx[r] = q
      BY DEF IInv, Locks
    <3>2. pc'[r] = "fork_copy" <=> pc[r] = "fork_copy"
      BY <2>1
    <3> QED
      BY ONLY <2>2, <3>1, <3>2
  <2> QED
    BY <2>3, <2>4 DEF Locks
<1>9. wlock = p /\ \A q \in Proc \ {p} : pc[q] \notin Exiting \cup Waiting
  BY <1>3 DEF IInv, WaitLocked, Waiting
<1>10. WaitLocked'
  BY <1>1, <1>4, <1>9, Slots DEF WaitLocked, Exiting, Waiting
<1>11. Forking'
  <2>1. \A q \in Proc : Where(q)' \in Making \cup {"fork_trace"} => Where(q)' = Where(q)
    BY <1>5 DEF Making
  <2>2. \A q \in Proc : /\ state[q] = "USED" => state'[q] = "USED"
                        /\ state[q] \in Live \cup {"ZOMBIE"} => state'[q] \in Live \cup {"ZOMBIE"}
    BY <1>3, <1>4 DEF Live
  <2>3. idx \in [Proc -> Proc]
    BY DEF IInv, TypeOK
  <2> QED
    BY <1>1, <2>1, <2>2, <2>3, ForkingKept
<1>12. Index'
  BY Zenon, <1>1, <1>3, <1>5 DEF IInv, Index
<1>13. Parents'
  <2>1. \A q \in Proc : /\ state[q] \in Live => state'[q] \in Live
                        /\ state'[q] \in Live \cup {"ZOMBIE"} => state[q] \in Live \cup {"ZOMBIE"}
                        /\ pc'[q] \in Exiting => pc[q] = pc'[q]
    BY <1>3, <1>4, Zenon DEF Live, Exiting
  <2>2. parent' = parent /\ \A q : Children(q)' = Children(q)
    BY <1>1 DEF Children
  <2>3. initproc \in Proc /\ parent \in [Proc -> Proc \cup {None}]
    BY Slots DEF IInv, TypeOK
  <2> QED
    BY <2>1, <2>2, <2>3 DEF IInv, Parents
<1>14. Waking' /\ Scanned'
  BY <1>4, <1>9 DEF Waking, Scanned, Exiting, Waiting
<1>15. Sleepers'
  <2>1. \A q \in Children(p) : state[q] # "ZOMBIE"
    BY <1>3 DEF IInv, Scanned, Waiting
  <2>2. \A r \in Proc : pc[r] # "wake_init"
    BY <1>3, <1>9 DEF Exiting
  <2>3. ASSUME NEW a \in Proc, NEW q \in Proc, parent[q] = a,
               state'[a] = "SLEEPING", state'[q] = "ZOMBIE"
        PROVE  FALSE
    <3>1. q # p /\ state[q] = "ZOMBIE"
      BY <1>4, <2>3
    <3>2. a # p
      BY <2>1, <2>3, <3>1 DEF Children
    <3> QED
      BY <1>4, <2>2, <2>3, <3>1, <3>2, Zenon DEF IInv, Sleepers
  <2> QED
    BY <1>1, <2>3 DEF Sleepers
<1> QED
  BY <1>2, <1>6, <1>7, <1>8, <1>10, <1>11, <1>12, <1>13, <1>14, <1>15 DEF IInv

-----------------------------------------------------------------------------
(* fork().                                                                 *)

\* fork() of p goes on from l to m, and changes at most the slot k, which nobody runs.
ForkStep(p, l, m, k) ==
  /\ Move(p, l, m) /\ wlock' = wlock
  /\ \A q \in Proc \ {k} : state'[q] = state[q] /\ parent'[q] = parent[q] /\ chan'[q] = chan[q]
  /\ state[k] \in {"UNUSED", "USED"} /\ state'[k] \in {"UNUSED", "USED", "RUNNABLE"}

LEMMA ForkStepKeeps ==
  ASSUME IInv, NEW p \in Proc, NEW k \in Proc,
         NEW l \in Unlocked \cup {"fork_copy"}, NEW m \in Unlocked \cup {"fork_copy"},
         ForkStep(p, l, m, k)
  PROVE  /\ ~OnCpu(k) /\ p # k
         /\ OneCpu' /\ Place' /\ WaitLocked' /\ Waking' /\ Scanned' /\ Sleepers'
<1>1. l \in Labels \ Away /\ m \in Labels \ Away /\ Move(p, l, m)
  BY DEF Labels, Unlocked, Away, ForkStep
<1>2. /\ pc[p] = l /\ state[p] = "RUNNING" /\ pc'[p] = m
      /\ \A q \in Proc \ {p} : pc'[q] = pc[q] /\ idx'[q] = idx[q]
  <2>1. At(p, l) /\ \A q \in Proc \ {p} : idx'[q] = idx[q]
    BY <1>1 DEF Move
  <2>2. pc[p] = l /\ state[p] = "RUNNING"
    BY <1>1, <2>1, Stepping
  <2>3. pc'[p] = m /\ \A q \in Proc \ {p} : pc'[q] = pc[q]
    BY <1>1, Moved
  <2> QED
    BY <2>1, <2>2, <2>3
<1>3. p # k /\ ~OnCpu(k) /\ pc[k] = "switched"
  BY <1>2 DEF ForkStep, IInv, Place
<1>4. OneCpu' /\ Place'
  <2>1. OthersOff
    BY <1>3 DEF OthersOff, ForkStep, Live
  <2> QED
    BY <1>1, <2>1, MovedPlace
<1>5. WaitLocked'
  <2>1. LockStep(p, l, m)
    BY DEF LockStep, ForkStep, Exiting, Waiting, Unlocked
  <2> QED
    BY <1>1, <2>1, MovedWaitLock
<1>6. \A q \in Proc : pc'[q] \in Exiting \cup Waiting \/ pc[q] \in Exiting \cup Waiting
                      => pc'[q] = pc[q] /\ idx'[q] = idx[q] /\ parent'[q] = parent[q]
  BY <1>2, <1>3 DEF ForkStep, Exiting, Waiting, Unlocked
<1>7. \A q \in Proc : /\ state'[q] = "SLEEPING" => state[q] = "SLEEPING"
                      /\ state'[q] = "ZOMBIE" => state[q] = "ZOMBIE" /\ parent'[q] = parent[q]
  BY DEF ForkStep
<1>8. \A q \in Proc : 1 .. idx[q] - 1 \subseteq Proc
  BY NPROCAssumption DEF IInv, TypeOK, Proc
<1>9. Waking'
  BY <1>6, <1>7, <1>8 DEF IInv, Waking, Exiting
<1>10. Scanned'
  BY <1>6, <1>7, <1>8 DEF IInv, Scanned, Waiting, Children
<1>11. Sleepers'
  <2> SUFFICES ASSUME NEW a \in Proc, NEW q \in Proc,
                      state'[a] = "SLEEPING", parent'[q] = a, state'[q] = "ZOMBIE"
               PROVE  a = initproc /\ \E r \in Proc : pc'[r] = "wake_init" /\ idx'[r] = 1
    BY DEF Sleepers
  <2>1. state[a] = "SLEEPING" /\ parent[q] = a /\ state[q] = "ZOMBIE"
    BY <1>7
  <2>2. a = initproc /\ \E r \in Proc : pc[r] = "wake_init" /\ idx[r] = 1
    BY <2>1 DEF IInv, Sleepers
  <2> QED
    BY <1>6, <2>2 DEF Exiting
<1> QED
  BY <1>3, <1>4, <1>5, <1>9, <1>10, <1>11

\* allocproc() takes an UNUSED slot and its lock.
LEMMA ForkScanFoundKeeps ==
  ASSUME IInv, NEW p \in Proc, ForkScan(p), state[idx[p]] = "UNUSED" PROVE IInv'
<1> DEFINE k == idx[p]
<1>1. /\ At(p, "fork_scan") /\ plock[k] = None /\ state' = [state EXCEPT ![k] = "USED"]
      /\ plock' = [plock EXCEPT ![k] = p]
      /\ pc' = [pc EXCEPT ![p] = "fork_copy", ![k] = "switched"]
      /\ ret' = [ret EXCEPT ![k] = "user"]
      /\ UNCHANGED <<chan, killed, cproc, scan, idx, wlock, parent, mask, sh>>
  BY DEF ForkScan, AllocState
<1>2. /\ "fork_scan" \in Labels \ Away /\ "fork_copy" \in Labels \ Away
      /\ k \in Proc /\ pc \in [Proc -> Labels] /\ ret \in [Proc -> Unlocked]
      /\ state \in [Proc -> Live \cup {"UNUSED", "USED", "ZOMBIE"}]
      /\ plock \in [Proc -> Proc \cup {None}] /\ None \notin Proc
  BY Slots DEF Labels, Unlocked, Away, IInv, TypeOK
<1>3. pc[p] = "fork_scan" /\ state[p] = "RUNNING" /\ k # p
  BY <1>1, <1>2, Stepping
<1>4. ~OnCpu(k) /\ pc[k] = "switched" /\ ret[k] = "user"
  <2>1. ~OnCpu(k) /\ pc[k] = "switched"
    BY <1>1, <1>2, FreeIsOff, Zenon
  <2> QED
    BY <1>2, <2>1 DEF IInv, Place, Live
<1>5. pc' = [pc EXCEPT ![p] = "fork_copy"] /\ ret' = ret
  BY Zenon, <1>1, <1>2, <1>3, <1>4
<1>6. /\ state'[k] = "USED" /\ plock'[k] = p
      /\ \A q \in Proc \ {k} : state'[q] = state[q] /\ plock'[q] = plock[q]
  BY <1>1, <1>2, Zenon
<1> HIDE DEF k
<1>7. Move(p, "fork_scan", "fork_copy")
  BY Zenon, <1>1, <1>5 DEF Move, Goto
<1>8. /\ pc' \in [Proc -> Labels] /\ pc'[p] = "fork_copy"
      /\ \A q \in Proc \ {p} : pc'[q] = pc[q] /\ Where(q)' = Where(q)
      /\ \A q : OnCpu(q)' = OnCpu(q)
      /\ Where(p)' = "fork_copy"
  BY <1>2, <1>7, Moved
<1>9. TypeOK'
  <2>1. /\ state' \in [Proc -> Live \cup {"UNUSED", "USED", "ZOMBIE"}]
        /\ plock' \in [Proc -> Proc \cup {None}]
    BY <1>1, <1>2
  <2> QED
    BY Zenon, <1>1, <1>5, <1>8, <2>1 DEF IInv, TypeOK
<1>10. OneCpu' /\ Place' /\ WaitLocked' /\ Waking' /\ Scanned' /\ Sleepers'
  <2>1. ForkStep(p, "fork_scan", "fork_copy", k)
    BY <1>1, <1>6, <1>7 DEF ForkStep, k
  <2> QED
    BY Zenon, <1>2, <2>1, ForkStepKeeps DEF Unlocked
<1>11. Locks'
  <2>1. ASSUME NEW q \in Proc
        PROVE  plock'[q] = q <=> \/ pc'[q] \in {"sched", "sleep_release"}
                                 \/ pc'[q] = "switched" /\ OnCpu(q)'
    <3>1. plock[q] = q <=> pc[q] \in {"sched", "sleep_release"} \/ (pc[q] = "switched" /\ OnCpu(q))
      BY DEF IInv, Locks
    <3>2. CASE q = k
      BY <1>3, <1>4, <1>6, <1>8, <3>2, Zenon
    <3>3. CASE q = p
      BY <1>3, <1>6, <1>8, <3>1, <3>3
    <3>4. CASE q # k /\ q # p
      BY <1>6, <1>8, <3>1, <3>4
    <3> QED
      BY <3>2, <3>3, <3>4
  <2>2. ASSUME NEW q \in Proc, NEW r \in Proc \ {q}
        PROVE  plock'[q] = r <=> pc'[r] = "fork_copy" /\ idx'[r] = q
    <3>1. plock[q] = r <=> pc[r] = "fork_copy" /\ idx[r] = q
      BY DEF IInv, Locks
    <3>2. CASE r = p
      BY Zenon, <1>1, <1>3, <1>6, <1>8, <3>1, <3>2 DEF k
    <3>3. CASE r # p
      <4>1. plock'[q] = r <=> plock[q] = r
        BY <1>1, <1>2, <1>6, <3>3, Zenon
      <4> QED
        BY <1>1, <1>8, <3>1, <3>3, <4>1, Zenon
    <3> QED
      BY <3>2, <3>3
  <2> QED
    BY <2>1, <2>2 DEF Locks
<1>12. Forking'
  <2>1. \A q \in Proc \ {p} : Where(q) \in Making \cup {"fork_trace"} => idx[q] # k
    BY DEF IInv, Forking, Live, k
  <2>2. idx \in [Proc -> Proc]
    BY DEF IInv, TypeOK
  <2>3. ASSUME NEW q \in Proc
        PROVE  /\ Where(q)' \in Making =>
                    /\ state'[idx[q]] = "USED"
                    /\ \A r \in Proc \ {q} : Where(r)' \in Making => idx[r] # idx[q]
               /\ Where(q)' \in {"fork_run", "fork_trace"} => parent[idx[q]] = q
               /\ Where(q)' = "fork_trace" => state'[idx[q]] \in Live \cup {"ZOMBIE"}
    <3>1. CASE q = p
      BY <1>6, <1>8, <2>1, <3>1 DEF Making, k
    <3>2. CASE q # p
      <4>1. Where(q)' = Where(q) /\ idx[q] \in Proc
        BY <1>8, <2>2, <3>2
      <4>2. Where(q) \in Making \cup {"fork_trace"} => state'[idx[q]] = state[idx[q]]
        BY <1>6, <2>1, <3>2, <4>1
      <4>3. \A r \in Proc \ {q} : Where(r)' \in Making /\ Where(q) \in Making => idx[r] # idx[q]
        BY <1>8, <2>1, <3>2 DEF IInv, Forking, k
      <4> QED
        BY <4>1, <4>2, <4>3 DEF IInv, Forking, Making
    <3> QED
      BY <3>1, <3>2
  <2> QED
    BY <1>1, <2>3, Zenon DEF Forking
<1>13. Index'
  BY <1>1, <1>8 DEF IInv, Index
<1>14. Parents'
  <2>1. initproc \in Proc /\ initproc # k /\ \A q \in Proc : parent[q] # k
    BY <1>2, Slots DEF IInv, Parents, Live, k
  <2>2. parent \in [Proc -> Proc \cup {None}]
    BY DEF IInv, TypeOK
  <2>3. \A q \in Proc : pc'[q] \in Exiting => pc[q] = pc'[q]
    BY <1>8 DEF Exiting
  <2>4. \A q \in Proc : state'[q] \in Live \cup {"ZOMBIE"} <=> state[q] \in Live \cup {"ZOMBIE"}
    BY <1>6 DEF Live, k
  <2>5. state'[initproc] \in Live
    BY <1>6, <2>1 DEF IInv, Parents
  <2>6. ASSUME NEW q \in Proc
        PROVE  /\ parent[q] # None => state'[parent[q]] \in Live
               /\ q # initproc /\ state'[q] \in Live \cup {"ZOMBIE"} => parent[q] # None
               /\ pc'[q] \in Exiting \ {"reparent"} => Children(q) = {}
    BY <1>6, <2>1, <2>2, <2>3, <2>4 DEF IInv, Parents
  <2>7. parent' = parent /\ \A q \in Proc : Children(q)' = Children(q)
    BY <1>1 DEF Children
  <2>8. pc'[initproc] \notin Exiting /\ parent[initproc] = None
    BY <2>1, <2>3, Zenon DEF IInv, Parents
  <2> QED
    BY Zenon, <2>5, <2>6, <2>7, <2>8 DEF Parents
<1> QED
  BY <1>9, <1>10, <1>11, <1>12, <1>13, <1>14 DEF IInv
==============================================================================
