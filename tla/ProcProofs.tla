----------------------------- MODULE ProcProofs ------------------------------
(***************************************************************************)
(* fork(), exit(), wait() and kill() for every number of process slots and *)
(* of CPUs: a kernel stack is on one CPU, no exit is missed, every process *)
(* has a parent that lives, and fork() writes only to its own child.       *)
(***************************************************************************)
EXTENDS ProcInvariant

\* fork() has filled the child in, or undoes it with freeproc(); the child's lock is
\* free again.
LEMMA ForkCopyKeeps == ASSUME IInv, NEW p \in Proc, ForkCopy(p) PROVE IInv'
<1> DEFINE k == idx[p]
<1>1. /\ At(p, "fork_copy") /\ plock' = [plock EXCEPT ![k] = None]
      /\ UNCHANGED <<cproc, scan, ret, wlock, sh>>
  BY DEF ForkCopy
<1>2. PICK m \in {"fork_parent", "user", "exit"} :
        /\ Goto(p, m)
        /\ IF m = "fork_parent" THEN UNCHANGED <<state, chan, killed, parent, mask, idx>>
           ELSE freeproc(k) /\ idx' = [idx EXCEPT ![p] = 1]
  BY DEF ForkCopy, Failed
<1>3. /\ m \in Labels \ Away /\ "fork_copy" \in Labels \ Away /\ m \in Unlocked
      /\ k \in Proc /\ idx \in [Proc -> Proc] /\ 1 \in Proc
      /\ state \in [Proc -> Live \cup {"UNUSED", "USED", "ZOMBIE"}]
      /\ plock \in [Proc -> Proc \cup {None}] /\ None \notin Proc
      /\ parent \in [Proc -> Proc \cup {None}] /\ chan \in [Proc -> Proc \cup {None}]
  BY Slots DEF Labels, Unlocked, Away, IInv, TypeOK, initproc
<1>4. /\ pc[p] = "fork_copy" /\ Where(p) = "fork_copy" /\ state[p] = "RUNNING" /\ state[k] = "USED"
      /\ p # k
  <2>1. pc[p] = "fork_copy" /\ Where(p) = "fork_copy" /\ state[p] = "RUNNING"
    BY <1>1, <1>3, Stepping
  <2> QED
    BY <2>1 DEF IInv, Forking, Making
<1>5. Move(p, "fork_copy", m)
  <2>1. \A q \in Proc \ {p} : idx'[q] = idx[q]
    BY <1>2, <1>3
  <2> QED
    BY <1>1, <1>2, <2>1 DEF Move
<1>6. /\ \A q \in Proc \ {k} : state'[q] = state[q] /\ parent'[q] = parent[q] /\ chan'[q] = chan[q]
      /\ IF m = "fork_parent" THEN state'[k] = "USED" /\ parent'[k] = parent[k]
         ELSE state'[k] = "UNUSED" /\ parent'[k] = None
  BY <1>2, <1>3, <1>4 DEF freeproc
<1>7. plock'[k] = None /\ \A q \in Proc \ {k} : plock'[q] = plock[q]
  BY <1>1, <1>3
<1>8. idx' \in [Proc -> Proc] /\ IF m = "fork_parent" THEN idx' = idx ELSE idx'[p] = 1
  BY <1>2, <1>3
<1>9. TypeOK'
  <2>1. pc' \in [Proc -> Labels]
    BY <1>3, <1>5, Moved
  <2>2. CASE m = "fork_parent"
    BY Zenon, <1>1, <1>2, <1>8, <2>1, <2>2 DEF IInv, TypeOK
  <2>3. CASE m # "fork_parent"
    <3>1. /\ state' = [state EXCEPT ![k] = "UNUSED"] /\ chan' = [chan EXCEPT ![k] = None]
          /\ killed' = [killed EXCEPT ![k] = FALSE] /\ parent' = [parent EXCEPT ![k] = None]
          /\ mask' = [mask EXCEPT ![k] = 0] /\ plock' = [plock EXCEPT ![k] = None]
      BY <1>1, <1>2, <2>3 DEF freeproc
    <3>2. killed \in [Proc -> BOOLEAN] /\ mask \in [Proc -> Masks]
      BY DEF IInv, TypeOK
    <3>3. /\ state' \in [Proc -> Live \cup {"UNUSED", "USED", "ZOMBIE"}]
          /\ killed' \in [Proc -> BOOLEAN] /\ mask' \in [Proc -> Masks]
      BY <1>3, <3>1, <3>2, MasksAssumption
    <3>4. /\ chan' \in [Proc -> Proc \cup {None}] /\ parent' \in [Proc -> Proc \cup {None}]
          /\ plock' \in [Proc -> Proc \cup {None}]
      BY <1>3, <3>1
    <3> QED
      BY Zenon, <1>1, <1>8, <2>1, <3>3, <3>4 DEF IInv, TypeOK
  <2> QED
    BY <2>2, <2>3
<1> HIDE DEF k
<1>10. ~OnCpu(k) /\ OneCpu' /\ Place' /\ WaitLocked' /\ Waking' /\ Scanned' /\ Sleepers'
  <2>1. ForkStep(p, "fork_copy", m, k)
    BY <1>1, <1>4, <1>5, <1>6 DEF ForkStep
  <2> QED
    BY <1>3, <2>1, ForkStepKeeps
<1>11. /\ pc'[p] = m /\ Where(p)' = m
       /\ \A q \in Proc \ {p} : pc'[q] = pc[q] /\ Where(q)' = Where(q) /\ idx'[q] = idx[q]
       /\ \A q : OnCpu(q)' = OnCpu(q)
  BY <1>3, <1>5, Moved DEF Move
<1>12. Locks'
  <2>1. ASSUME NEW q \in Proc
        PROVE  plock'[q] = q <=> \/ pc'[q] \in {"sched", "sleep_release"}
                                 \/ pc'[q] = "switched" /\ OnCpu(q)'
    <3>1. pc[k] = "switched"
      BY <1>3, <1>10 DEF IInv, Place
    <3> QED
      BY <1>3, <1>4, <1>7, <1>10, <1>11, <3>1 DEF IInv, Locks
  <2>2. ASSUME NEW q \in Proc, NEW r \in Proc \ {q}
        PROVE  plock'[q] = r <=> pc'[r] = "fork_copy" /\ idx'[r] = q
    <3>1. plock[q] = r <=> pc[r] = "fork_copy" /\ idx[r] = q
      BY DEF IInv, Locks
    <3>2. plock[k] = p
      BY <1>3, <1>4 DEF IInv, Locks, k
    <3>3. CASE r = p
      BY <1>3, <1>4, <1>7, <1>11, <3>1, <3>3 DEF k
    <3>4. CASE r # p
      BY <1>3, <1>7, <1>11, <3>1, <3>2, <3>4
    <3> QED
      BY <3>3, <3>4
  <2> QED
    BY <2>1, <2>2 DEF Locks
<1>13. Forking'
  <2>1. \A q \in Proc \ {p} : Where(q) \in Making \cup {"fork_trace"} => idx[q] # k
    BY <1>4 DEF IInv, Forking, Making, Live, k
  <2>2. ASSUME NEW q \in Proc
        PROVE  /\ Where(q)' \in Making =>
                    /\ state'[idx'[q]] = "USED"
                    /\ \A r \in Proc \ {q} : Where(r)' \in Making => idx'[r] # idx'[q]
               /\ Where(q)' \in {"fork_run", "fork_trace"} => parent'[idx'[q]] = q
               /\ Where(q)' = "fork_trace" => state'[idx'[q]] \in Live \cup {"ZOMBIE"}
    <3>1. CASE q = p
      BY <1>6, <1>8, <1>11, <2>1, <3>1 DEF Making, k
    <3>2. CASE q # p
      <4>1. Where(q)' = Where(q) /\ idx'[q] = idx[q] /\ idx[q] \in Proc
        BY <1>3, <1>11, <3>2
      <4>2. Where(q) \in Making \cup {"fork_trace"}
            => state'[idx[q]] = state[idx[q]] /\ parent'[idx[q]] = parent[idx[q]]
        BY <1>6, <2>1, <3>2, <4>1
      <4>3. \A r \in Proc \ {q} : Where(q) \in Making /\ Where(r)' \in Making => idx'[r] # idx[q]
        BY <1>8, <1>11, <2>1, <3>2 DEF IInv, Forking, Making, k
      <4> QED
        BY <4>1, <4>2, <4>3 DEF IInv, Forking, Making
    <3> QED
      BY <3>1, <3>2
  <2> QED
    BY <2>2 DEF Forking
<1>14. Index'
  BY <1>8, <1>11 DEF IInv, Index
<1>15. Parents'
  <2>1. initproc \in Proc /\ initproc # k /\ \A q \in Proc : parent[q] # k
    BY <1>3, <1>4, Slots DEF IInv, Parents, Live
  <2>2. \A q \in Proc : parent'[q] # None => parent'[q] = parent[q]
    BY <1>6
  <2>3. \A q \in Proc : pc'[q] \in Exiting => pc[q] = pc'[q]
    BY <1>11 DEF Exiting
  <2>4. /\ state'[initproc] \in Live /\ parent'[initproc] = None
        /\ pc'[initproc] \notin Exiting
    BY <1>6, <2>1, <2>3 DEF IInv, Parents
  <2>5. ASSUME NEW q \in Proc
        PROVE  /\ parent'[q] # None => state'[parent'[q]] \in Live
               /\ q # initproc /\ state'[q] \in Live \cup {"ZOMBIE"} => parent'[q] # None
               /\ pc'[q] \in Exiting \ {"reparent"} => Children(q)' = {}
    <3>1. parent'[q] # None => state'[parent'[q]] \in Live
      BY <1>3, <1>6, <2>1, <2>2 DEF IInv, Parents
    <3>2. q # initproc /\ state'[q] \in Live \cup {"ZOMBIE"} => parent'[q] # None
      BY <1>6 DEF IInv, Parents, Live
    <3>3. pc'[q] \in Exiting \ {"reparent"} => Children(q)' = {}
      BY <1>3, <2>2, <2>3 DEF IInv, Parents, Children
    <3> QED
      BY <3>1, <3>2, <3>3
  <2> QED
    BY <2>4, <2>5 DEF Parents
<1> QED
  BY <1>9, <1>10, <1>12, <1>13, <1>14, <1>15 DEF IInv

\* np->parent = p.
LEMMA ForkParentKeeps == ASSUME IInv, NEW p \in Proc, ForkParent(p) PROVE IInv'
<1> DEFINE k == idx[p]
<1>1. /\ At(p, "fork_parent") /\ parent' = [parent EXCEPT ![k] = p] /\ Goto(p, "fork_run")
      /\ UNCHANGED <<state, chan, killed, plock, cproc, scan, ret, wlock, mask, idx, sh>>
  BY DEF ForkParent, Internal
<1>2. /\ "fork_parent" \in Labels \ Away /\ "fork_run" \in Labels \ Away
      /\ k \in Proc /\ idx \in [Proc -> Proc] /\ parent \in [Proc -> Proc \cup {None}]
  BY DEF Labels, Unlocked, Away, IInv, TypeOK
<1>3. /\ pc[p] = "fork_parent" /\ Where(p) = "fork_parent" /\ state[p] = "RUNNING"
      /\ state[k] = "USED"
  <2>1. pc[p] = "fork_parent" /\ Where(p) = "fork_parent" /\ state[p] = "RUNNING"
    BY <1>1, <1>2, Stepping
  <2> QED
    BY <2>1 DEF IInv, Forking, Making
<1>4. Move(p, "fork_parent", "fork_run")
  BY <1>1 DEF Move
<1>5. parent'[k] = p /\ \A q \in Proc \ {k} : parent'[q] = parent[q]
  BY <1>1, <1>2
<1>6. /\ pc' \in [Proc -> Labels] /\ pc'[p] = "fork_run" /\ Where(p)' = "fork_run"
      /\ \A q \in Proc \ {p} : pc'[q] = pc[q] /\ Where(q)' = Where(q)
  BY <1>2, <1>4, Moved
<1>7. TypeOK'
  BY Zenon, <1>1, <1>6 DEF IInv, TypeOK
<1> HIDE DEF k
<1>8. OneCpu' /\ Place' /\ WaitLocked' /\ Waking' /\ Scanned' /\ Sleepers' /\ p # k
  <2>1. ForkStep(p, "fork_parent", "fork_run", k)
    BY <1>1, <1>3, <1>4, <1>5 DEF ForkStep
  <2> QED
    BY <1>2, <2>1, ForkStepKeeps DEF Unlocked
<1>9. Locks'
  BY <1>1, <1>2, <1>4, MovedLocks
<1>10. Forking'
  <2>1. \A q \in Proc \ {p} : Where(q) \in Making \cup {"fork_trace"} => idx[q] # k
    BY <1>3 DEF IInv, Forking, Making, Live, k
  <2>2. ASSUME NEW q \in Proc
        PROVE  /\ Where(q)' \in Making =>
                    /\ state[idx[q]] = "USED"
                    /\ \A r \in Proc \ {q} : Where(r)' \in Making => idx[r] # idx[q]
               /\ Where(q)' \in {"fork_run", "fork_trace"} => parent'[idx[q]] = q
               /\ Where(q)' = "fork_trace" => state[idx[q]] \in Live \cup {"ZOMBIE"}
    <3>1. CASE q = p
      BY <1>3, <1>5, <1>6, <2>1, <3>1 DEF Making, k
    <3>2. CASE q # p
      BY <1>2, <1>3, <1>5, <1>6, <2>1, <3>2 DEF IInv, Forking, Making
    <3> QED
      BY <3>1, <3>2
  <2> QED
    BY <1>1, <2>2 DEF Forking
<1>11. Index'
  BY <1>1, <1>6 DEF IInv, Index
<1>12. Parents'
  <2>1. initproc \in Proc /\ initproc # k
    BY <1>3, Slots DEF IInv, Parents, Live
  <2>2. \A q \in Proc : pc'[q] \in Exiting => pc[q] = pc'[q] /\ q # p
    BY <1>6 DEF Exiting
  <2>3. ASSUME NEW q \in Proc
        PROVE  /\ parent'[q] # None => state[parent'[q]] \in Live
               /\ q # initproc /\ state[q] \in Live \cup {"ZOMBIE"} => parent'[q] # None
               /\ pc'[q] \in Exiting \ {"reparent"} => Children(q)' = {}
    <3>1. parent'[q] # None => state[parent'[q]] \in Live
      BY <1>3, <1>5 DEF IInv, Parents, Live
    <3>2. q # initproc /\ state[q] \in Live \cup {"ZOMBIE"} => parent'[q] # None
      BY <1>3, <1>5 DEF IInv, Parents, Live
    <3>3. pc'[q] \in Exiting \ {"reparent"} => Children(q)' = {}
      BY <1>5, <2>2 DEF IInv, Parents, Children
    <3> QED
      BY <3>1, <3>2, <3>3
  <2>4. pc'[initproc] \notin Exiting /\ parent'[initproc] = None /\ state[initproc] \in Live
    BY <1>5, <2>1, <2>2 DEF IInv, Parents
  <2> QED
    BY <1>1, <2>3, <2>4 DEF Parents
<1> QED
  BY <1>7, <1>8, <1>9, <1>10, <1>11, <1>12 DEF IInv

\* np->state = RUNNABLE.
LEMMA ForkRunKeeps == ASSUME IInv, NEW p \in Proc, ForkRun(p) PROVE IInv'
<1> DEFINE k == idx[p]
<1>1. /\ At(p, "fork_run") /\ state' = [state EXCEPT ![k] = "RUNNABLE"] /\ Goto(p, "fork_trace")
      /\ UNCHANGED <<chan, killed, plock, cproc, scan, ret, wlock, parent, mask, idx, sh>>
  BY DEF ForkRun, lifeVars
<1>2. /\ "fork_run" \in Labels \ Away /\ "fork_trace" \in Labels \ Away
      /\ k \in Proc /\ idx \in [Proc -> Proc] /\ parent \in [Proc -> Proc \cup {None}]
      /\ state \in [Proc -> Live \cup {"UNUSED", "USED", "ZOMBIE"}]
  BY DEF Labels, Unlocked, Away, IInv, TypeOK
<1>3. Where(p) = "fork_run" /\ state[k] = "USED" /\ parent[k] = p
  <2>1. Where(p) = "fork_run"
    BY <1>1, <1>2, Stepping
  <2> QED
    BY <2>1 DEF IInv, Forking, Making
<1>4. Move(p, "fork_run", "fork_trace")
  BY <1>1 DEF Move
<1>5. state'[k] = "RUNNABLE" /\ \A q \in Proc \ {k} : state'[q] = state[q]
  BY <1>1, <1>2
<1>6. /\ pc' \in [Proc -> Labels] /\ pc'[p] = "fork_trace" /\ Where(p)' = "fork_trace"
      /\ \A q \in Proc \ {p} : pc'[q] = pc[q] /\ Where(q)' = Where(q)
  BY <1>2, <1>4, Moved
<1>7. TypeOK'
  BY Zenon, <1>1, <1>6 DEF IInv, TypeOK, Live
<1> HIDE DEF k
<1>8. OneCpu' /\ Place' /\ WaitLocked' /\ Waking' /\ Scanned' /\ Sleepers'
  <2>1. ForkStep(p, "fork_run", "fork_trace", k)
    BY <1>1, <1>3, <1>4, <1>5 DEF ForkStep
  <2> QED
    BY <1>2, <2>1, ForkStepKeeps DEF Unlocked
<1>9. Locks'
  BY <1>1, <1>2, <1>4, MovedLocks
<1>10. Forking'
  <2>1. \A q \in Proc \ {p} : Where(q) \in Making \cup {"fork_trace"} => idx[q] # k
    BY <1>3 DEF IInv, Forking, Making, Live, k
  <2>2. ASSUME NEW q \in Proc
        PROVE  /\ Where(q)' \in Making =>
                    /\ state'[idx[q]] = "USED"
                    /\ \A r \in Proc \ {q} : Where(r)' \in Making => idx[r] # idx[q]
               /\ Where(q)' \in {"fork_run", "fork_trace"} => parent[idx[q]] = q
               /\ Where(q)' = "fork_trace" => state'[idx[q]] \in Live \cup {"ZOMBIE"}
    <3>1. CASE q = p
      BY <1>3, <1>5, <1>6, <3>1 DEF Making, Live, k
    <3>2. CASE q # p
      BY <1>2, <1>3, <1>5, <1>6, <2>1, <3>2 DEF IInv, Forking, Making
    <3> QED
      BY <3>1, <3>2
  <2> QED
    BY <1>1, <2>2 DEF Forking
<1>11. Index'
  BY <1>1, <1>6 DEF IInv, Index
<1>12. Parents'
  <2>1. \A q \in Proc : state[q] \in Live => state'[q] \in Live
    BY <1>3, <1>5 DEF Live
  <2>2. \A q \in Proc : state'[q] \in Live \cup {"ZOMBIE"}
                        => state[q] \in Live \cup {"ZOMBIE"} \/ parent[q] = p
    BY <1>3, <1>5
  <2>3. \A q \in Proc : pc'[q] \in Exiting => pc[q] = pc'[q]
    BY <1>6 DEF Exiting
  <2>4. parent' = parent /\ \A q : Children(q)' = Children(q)
    BY <1>1 DEF Children
  <2>5. initproc \in Proc /\ p # None
    BY Slots
  <2> QED
    BY <1>2, <2>1, <2>2, <2>3, <2>4, <2>5 DEF IInv, Parents
<1> QED
  BY <1>7, <1>8, <1>9, <1>10, <1>11, <1>12 DEF IInv

\* np->trace_mask = p->trace_mask.
LEMMA ForkTraceKeeps == ASSUME IInv, NEW p \in Proc, ForkTrace(p) PROVE IInv'
<1>1. /\ At(p, "fork_trace") /\ Internal(p, "user") /\ UNCHANGED <<wlock, parent>>
      /\ idx' = [idx EXCEPT ![p] = 1] /\ mask' = [mask EXCEPT ![idx[p]] = mask[p]]
      /\ sh' = IF p = initproc THEN idx[p] ELSE sh
  BY DEF ForkTrace
<1>2. "user" \in Plain /\ "user" \in Labels /\ 1 \in Proc
  BY Slots DEF Plain, Labels, Unlocked, Away, Making, Exiting, initproc
<1>3. mask' \in [Proc -> Masks] /\ sh' \in Proc \cup {None} /\ wlock' \in Proc \cup {None}
  BY <1>1 DEF IInv, TypeOK
<1>4. Move(p, "fork_trace", "user") /\ TypeOK' /\ UNCHANGED <<state, chan, plock>> /\ idx'[p] = 1
  BY Zenon, <1>1, <1>2, <1>3, InternalMoves
<1>5. LockStep(p, "fork_trace", "user")
  BY <1>1 DEF LockStep, Exiting, Waiting
<1>6. Found(p, "user")
  BY DEF Found, Waiting
<1> QED
  BY <1>1, <1>2, <1>4, <1>5, <1>6, PlainStep

-----------------------------------------------------------------------------
(* exit().                                                                 *)

\* Only the holder of wait_lock is in exit() or in wait()'s loop.
LEMMA Alone ==
  ASSUME IInv, NEW p \in Proc, pc[p] \in Exiting \cup Waiting
  PROVE  wlock = p /\ \A q \in Proc \ {p} : pc[q] \notin Exiting \cup Waiting
BY DEF IInv, WaitLocked

\* reparent(): the children go to init, whom p is to wake then.
LEMMA ReparentKeeps == ASSUME IInv, NEW p \in Proc, Reparent(p) PROVE IInv'
<1> DEFINE m == IF Children(p) # {} THEN "wake_init" ELSE "wake_parent"
<1>1. /\ At(p, "reparent") /\ Goto(p, m)
      /\ parent' = [q \in Proc |-> IF parent[q] = p THEN initproc ELSE parent[q]]
      /\ UNCHANGED <<state, chan, killed, plock, cproc, scan, ret, wlock, mask, idx, sh>>
  BY DEF Reparent, Internal
<1>2. /\ "reparent" \in Labels \ Away /\ m \in Labels \ Away /\ m \in {"wake_init", "wake_parent"}
      /\ initproc \in Proc /\ None \notin Proc /\ parent \in [Proc -> Proc \cup {None}]
  BY Slots DEF Labels, Exiting, Away, IInv, TypeOK
<1>3. pc[p] = "reparent" /\ Where(p) = "reparent"
  BY <1>1, <1>2, Stepping
<1>4. p # initproc /\ idx[p] = 1
  BY <1>3 DEF IInv, Parents, Exiting, Index
<1>5. \A q \in Proc \ {p} : pc[q] \notin Exiting \cup Waiting
  BY <1>3, Alone DEF Exiting
<1>6. \A q \in Proc : parent'[q] = IF parent[q] = p THEN initproc ELSE parent[q]
  BY <1>1
<1>7. Children(p) # {} => m = "wake_init"
  OBVIOUS
<1> HIDE DEF m
<1>8. Move(p, "reparent", m)
  BY <1>1 DEF Move
<1>9. /\ pc' \in [Proc -> Labels] /\ pc'[p] = m /\ Where(p)' = m
      /\ \A q \in Proc \ {p} : pc'[q] = pc[q] /\ Where(q)' = Where(q)
  BY <1>2, <1>8, Moved
<1>10. TypeOK'
  BY <1>1, <1>2, <1>9 DEF IInv, TypeOK
<1>11. OneCpu' /\ Place'
  <2>1. OthersOff
    BY <1>1 DEF OthersOff
  <2> QED
    BY <1>2, <1>8, <2>1, MovedPlace
<1>12. Locks'
  BY <1>1, <1>2, <1>8, MovedLocks
<1>13. WaitLocked'
  <2>1. LockStep(p, "reparent", m)
    BY <1>1, <1>2 DEF LockStep, Exiting
  <2> QED
    BY <1>2, <1>8, <2>1, MovedWaitLock
<1>14. Forking'
  <2>1. \A q \in Proc : Where(q)' \in Making \cup {"fork_trace"} => q # p /\ Where(q)' = Where(q)
    BY <1>2, <1>9 DEF Making
  <2>2. idx \in [Proc -> Proc]
    BY DEF IInv, TypeOK
  <2> QED
    BY <1>1, <1>6, <2>1, <2>2, ForkingKept
<1>15. Index'
  BY <1>1, <1>2, <1>9 DEF IInv, Index
<1>16. Parents'
  <2>1. /\ state[initproc] \in Live /\ parent'[initproc] = None /\ pc'[initproc] \notin Exiting
    BY <1>2, <1>4, <1>6, <1>9 DEF IInv, Parents
  <2>2. ASSUME NEW q \in Proc
        PROVE  /\ parent'[q] # None => state[parent'[q]] \in Live
               /\ q # initproc /\ state[q] \in Live \cup {"ZOMBIE"} => parent'[q] # None
    BY <1>2, <1>6, <2>1 DEF IInv, Parents
  <2>3. ASSUME NEW q \in Proc, pc'[q] \in Exiting \ {"reparent"} PROVE Children(q)' = {}
    <3>1. q = p
      BY <1>5, <1>9, <2>3
    <3> QED
      BY <1>4, <1>6, <3>1 DEF Children
  <2> QED
    BY <1>1, <2>1, <2>2, <2>3 DEF Parents
<1>17. Waking' /\ Scanned'
  <2>1. \A q \in Proc : pc'[q] \in Exiting \cup Waiting => q = p /\ pc'[q] = m
    BY <1>5, <1>9
  <2>2. 1 .. idx'[p] - 1 = {}
    BY <1>1, <1>4
  <2> QED
    BY <1>2, <2>1, <2>2 DEF Waking, Scanned, Exiting, Waiting
<1>18. Sleepers'
  <2> SUFFICES ASSUME NEW a \in Proc, NEW q \in Proc,
                      state'[a] = "SLEEPING", parent'[q] = a, state'[q] = "ZOMBIE"
               PROVE  a = initproc /\ \E r \in Proc : pc'[r] = "wake_init" /\ idx'[r] = 1
    BY DEF Sleepers
  <2>1. parent[q] = p
    <3> SUFFICES ASSUME parent[q] # p PROVE FALSE
      OBVIOUS
    <3>1. parent[q] = a
      BY <1>6
    <3>2. PICK r \in Proc : pc[r] = "wake_init"
      BY <1>1, <3>1 DEF IInv, Sleepers
    <3> QED
      BY <1>3, <1>5, <3>2 DEF Exiting
  <2>2. a = initproc /\ m = "wake_init"
    BY <1>6, <1>7, <2>1 DEF Children
  <2> QED
    BY <1>1, <1>4, <1>9, <2>2
<1> QED
  BY <1>10, <1>11, <1>12, <1>13, <1>14, <1>15, <1>16, <1>17, <1>18 DEF IInv

\* One iteration of wakeup(initproc) or of wakeup(p->parent).
LEMMA ExitWakeupKeeps == ASSUME IInv, NEW p \in Proc, ExitWakeup(p) PROVE IInv'
<1> DEFINE k == idx[p]
           l == pc[p]
           m == IF k # NPROC THEN l ELSE IF l = "wake_init" THEN "wake_parent" ELSE "zombie"
<1>1. /\ l \in {"wake_init", "wake_parent"} /\ At(p, l) /\ WakeupOne(p, k, ExitChan(p))
      /\ idx' = [idx EXCEPT ![p] = NextSlot(k)] /\ Goto(p, m)
      /\ UNCHANGED <<chan, killed, plock, cproc, scan, ret, wlock, parent, mask, sh>>
  BY DEF ExitWakeup, At, WakeupOne
<1>2. /\ k \in Proc /\ idx \in [Proc -> Proc] /\ parent \in [Proc -> Proc \cup {None}]
      /\ state \in [Proc -> Live \cup {"UNUSED", "USED", "ZOMBIE"}]
      /\ l \in Labels \ Away /\ m \in Labels \ Away /\ l \in Exiting \ {"reparent"}
      /\ m \in Exiting \ {"reparent"}
  BY <1>1 DEF Labels, Exiting, Away, IInv, TypeOK
<1>3. Where(p) = l /\ state[p] = "RUNNING"
  BY Zenon, <1>1, <1>2, Stepping
<1>4. /\ p # initproc /\ Children(p) = {}
      /\ \A q \in Proc \ {p} : pc[q] \notin Exiting \cup Waiting
  BY <1>2, Alone DEF IInv, Parents
<1>5. /\ k # NPROC => m = l
      /\ k = NPROC => m = IF l = "wake_init" THEN "wake_parent" ELSE "zombie"
      /\ pc[p] = l
  BY <1>1
<1>6. /\ idx'[p] = NextSlot(k) /\ \A q \in Proc \ {p} : idx'[q] = idx[q]
  BY <1>1, <1>2
<1>7. /\ \A q \in Proc \ {k} : state'[q] = state[q]
      /\ state'[k] = state[k] \/ (k # p /\ state[k] = "SLEEPING" /\ state'[k] = "RUNNABLE")
      /\ state[k] = "SLEEPING" /\ k = ExitChan(p) => state'[k] = "RUNNABLE"
      /\ k # p => plock[k] = None
  <2>1. state[k] = "SLEEPING" => chan[k] = k /\ k # p
    BY <1>2, <1>3 DEF IInv, Place
  <2> QED
    BY <1>1, <1>2, <2>1 DEF WakeupOne
<1>8. state' \in [Proc -> Live \cup {"UNUSED", "USED", "ZOMBIE"}]
  BY <1>1, <1>2 DEF WakeupOne, Live
<1>9. k = idx[p]
  OBVIOUS
<1> HIDE DEF k, l, m
<1>10. Move(p, l, m)
  BY <1>1, <1>6 DEF Move
<1>11. /\ pc' \in [Proc -> Labels] /\ pc'[p] = m /\ Where(p)' = m
       /\ \A q \in Proc \ {p} : pc'[q] = pc[q] /\ Where(q)' = Where(q)
  BY <1>2, <1>10, Moved
<1>12. TypeOK'
  BY <1>1, <1>2, <1>8, <1>11, Slots DEF IInv, TypeOK
<1>13. OneCpu' /\ Place'
  <2>1. OthersOff
    <3>1. state[k] = "SLEEPING" /\ k # p => ~OnCpu(k)
      BY <1>2, <1>7, FreeIsOff
    <3>2. \A q \in Proc : state'[q] = "SLEEPING" => state[q] = "SLEEPING"
      BY <1>7
    <3> QED
      BY <1>1, <1>2, <1>7, <3>1, <3>2 DEF OthersOff, Live
  <2> QED
    BY <1>2, <1>10, <2>1, MovedPlace
<1>14. Locks'
  BY <1>1, <1>2, <1>10, MovedLocks DEF Exiting
<1>15. WaitLocked'
  <2>1. LockStep(p, l, m)
    BY <1>1, <1>2 DEF LockStep
  <2> QED
    BY <1>2, <1>10, <2>1, MovedWaitLock
<1>16. Forking'
  <2>1. \A q \in Proc : Where(q)' \in Making \cup {"fork_trace"}
                        => q # p /\ Where(q)' = Where(q) /\ idx'[q] = idx[q]
    BY <1>2, <1>6, <1>11 DEF Making, Exiting
  <2>2. \A q \in Proc : /\ state[q] = "USED" => state'[q] = "USED"
                        /\ state[q] \in Live \cup {"ZOMBIE"} => state'[q] \in Live \cup {"ZOMBIE"}
    BY <1>7 DEF Live
  <2> QED
    BY <1>1, <1>2, <2>1, <2>2, ForkingKept
<1>17. Index'
  <2>1. m = "zombie" => idx'[p] = 1
    BY <1>1, <1>2, <1>5, <1>6, Slots
  <2> QED
    BY <1>2, <1>6, <1>11, <2>1 DEF IInv, Index, Exiting
<1>18. Parents'
  <2>1. \A q \in Proc : /\ state[q] \in Live => state'[q] \in Live
                        /\ state'[q] \in Live \cup {"ZOMBIE"} => state[q] \in Live \cup {"ZOMBIE"}
    BY <1>7 DEF Live
  <2>2. \A q \in Proc : pc'[q] \in Exiting \ {"reparent"} => q = p
    BY <1>4, <1>11
  <2>3. parent' = parent /\ Children(p)' = {}
    BY <1>1, <1>4 DEF Children
  <2>4. pc'[initproc] \notin Exiting /\ initproc \in Proc
    BY <1>4, <1>11, Slots
  <2> QED
    BY <1>2, <2>1, <2>2, <2>3, <2>4 DEF IInv, Parents
<1>19. Waking'
  <2>1. \A q \in Proc : pc'[q] \in Exiting => q = p
    BY <1>4, <1>11
  <2>2. \A q \in Proc : state'[q] = "SLEEPING" => state[q] = "SLEEPING"
    BY <1>7
  <2>3. parent[p] \in Proc
    BY <1>2, <1>3, <1>4 DEF IInv, Parents, Live
  <2>4. ASSUME l = "wake_parent", parent[p] \in 1 .. k PROVE state'[parent[p]] # "SLEEPING"
    <3>1. CASE parent[p] = k
      <4>1. ExitChan(p) = k
        BY <1>5, <2>4, <3>1 DEF ExitChan
      <4> QED
        BY <1>7, <3>1, <4>1
    <3>2. CASE parent[p] # k
      <4>1. parent[p] \in 1 .. k - 1
        BY <1>2, <2>3, <2>4, <3>2 DEF Proc
      <4>2. state[parent[p]] # "SLEEPING"
        BY <1>5, <1>9, <2>4, <4>1 DEF IInv, Waking
      <4> QED
        BY <2>2, <2>3, <4>2
    <3> QED
      BY <3>1, <3>2
  <2>5. ASSUME m = "wake_parent", parent[p] \in 1 .. idx'[p] - 1 PROVE state'[parent[p]] # "SLEEPING"
    <3>1. l = "wake_parent" /\ k # NPROC
      BY <1>2, <1>5, <1>6, <2>5, Slots
    <3>2. parent[p] \in 1 .. k
      BY <1>2, <1>6, <2>5, <3>1, Slots DEF Proc
    <3> QED
      BY <2>4, <3>1, <3>2
  <2>6. ASSUME m = "zombie" PROVE state'[parent[p]] # "SLEEPING"
    <3>1. l = "wake_parent" /\ k = NPROC
      BY <1>1, <1>5, <2>6
    <3> QED
      BY <2>3, <2>4, <3>1 DEF Proc
  <2> QED
    BY <1>1, <1>11, <2>1, <2>5, <2>6 DEF Waking, Exiting
<1>20. Scanned'
  <2>1. \A q \in Proc : pc'[q] \notin Waiting
    BY <1>2, <1>4, <1>11 DEF Exiting, Waiting
  <2> QED
    BY <2>1 DEF Scanned, Waiting
<1>21. Sleepers'
  <2> SUFFICES ASSUME NEW a \in Proc, NEW q \in Proc,
                      state'[a] = "SLEEPING", parent'[q] = a, state'[q] = "ZOMBIE"
               PROVE  FALSE
    BY DEF Sleepers
  <2>1. state[a] = "SLEEPING" /\ parent[q] = a /\ state[q] = "ZOMBIE"
    BY Zenon, <1>1, <1>7
  <2>2. a = initproc /\ \E r \in Proc : pc[r] = "wake_init" /\ idx[r] = 1
    BY <2>1 DEF IInv, Sleepers
  <2>3. l = "wake_init" /\ k = 1
    BY <1>4, <1>5, <1>9, <2>2 DEF Exiting
  <2>4. a = k /\ ExitChan(p) = k
    BY <1>5, <2>2, <2>3 DEF ExitChan, initproc
  <2> QED
    BY <1>7, <2>1, <2>4
<1> QED
  BY <1>12, <1>13, <1>14, <1>15, <1>16, <1>17, <1>18, <1>19, <1>20, <1>21 DEF IInv

\* p becomes a ZOMBIE with its own lock held and gives wait_lock back.
LEMMA ZombieKeeps == ASSUME IInv, NEW p \in Proc, Zombie(p) PROVE IInv'
<1>1. /\ At(p, "zombie") /\ plock[p] = None
      /\ plock' = [plock EXCEPT ![p] = p] /\ state' = [state EXCEPT ![p] = "ZOMBIE"]
      /\ wlock' = None /\ pc' = [pc EXCEPT ![p] = "sched"]
      /\ UNCHANGED <<chan, killed, cproc, scan, ret, parent, mask, idx, sh>>
  BY DEF Zombie, Goto
<1>2. /\ "zombie" \in Labels \ Away /\ "sched" \in Labels /\ "zombie" \in Exiting \ {"reparent"}
      /\ initproc \in Proc /\ None \notin Proc
  BY Slots DEF Labels, Exiting, Away
<1>3. /\ pc[p] = "zombie" /\ OnCpu(p) /\ state[p] = "RUNNING" /\ ret[p] = "user" /\ Where(p) = "zombie"
  BY <1>1, <1>2, Stepping
<1>4. /\ p # initproc /\ Children(p) = {} /\ wlock = p
      /\ \A q \in Proc \ {p} : pc[q] \notin Exiting \cup Waiting
  BY <1>2, <1>3, Alone DEF IInv, Parents
<1>5. TypeOK'
  BY <1>1, <1>2 DEF IInv, TypeOK
<1>6. /\ pc'[p] = "sched" /\ state'[p] = "ZOMBIE" /\ plock'[p] = p
      /\ \A q \in Proc \ {p} : pc'[q] = pc[q] /\ state'[q] = state[q] /\ plock'[q] = plock[q]
  BY <1>1 DEF IInv, TypeOK
<1>7. \A q : OnCpu(q)' = OnCpu(q)
  BY <1>1 DEF OnCpu
<1>8. Where(p)' = "user" /\ \A q \in Proc \ {p} : Where(q)' = Where(q)
  BY <1>1, <1>3, <1>6 DEF Where, Away
<1>9. OneCpu'
  BY <1>1 DEF IInv, OneCpu
<1>10. Place'
  <2>1. ASSUME NEW q \in Proc
        PROVE /\ ~OnCpu(q) => pc'[q] = "switched" /\ state'[q] # "RUNNING"
              /\ OnCpu(q) => IF pc'[q] = "sched" THEN state'[q] \in {"RUNNABLE", "SLEEPING", "ZOMBIE"}
                             ELSE state'[q] = "RUNNING"
              /\ state'[q] = "SLEEPING" => chan[q] = q /\ ret[q] = "wait"
              /\ pc'[q] \notin Away \/ state'[q] \notin Live => ret[q] = "user"
    <3>1. CASE q = p
      BY <1>3, <1>6, <3>1
    <3>2. CASE q # p
      <4>1. pc'[q] = pc[q] /\ state'[q] = state[q]
        BY <1>6, <3>2
      <4> QED
        BY Zenon, <4>1 DEF IInv, Place
    <3> QED
      BY <3>1, <3>2
  <2> QED
    BY <1>1, <1>7, <2>1 DEF Place
<1>11. Locks'
  <2>1. ASSUME NEW q \in Proc
        PROVE plock'[q] = q <=> pc'[q] \in {"sched", "sleep_release"} \/ (pc'[q] = "switched" /\ OnCpu(q))
    BY <1>6 DEF IInv, Locks
  <2>2. \A r \in Proc : pc'[r] = "fork_copy" <=> pc[r] = "fork_copy"
    BY <1>3, <1>6
  <2>3. ASSUME NEW q \in Proc, NEW r \in Proc \ {q}
        PROVE plock'[q] = r <=> pc[r] = "fork_copy" /\ idx[r] = q
    <3>1. plock[q] = r <=> pc[r] = "fork_copy" /\ idx[r] = q
      BY DEF IInv, Locks
    <3>2. CASE q = p
      BY <1>1, <1>2, <1>6, <3>1, <3>2
    <3>3. CASE q # p
      BY <1>6, <3>1, <3>3
    <3> QED
      BY <3>2, <3>3
  <2> QED
    BY <1>1, <1>7, <2>1, <2>2, <2>3 DEF Locks
<1>12. \A q \in Proc : pc'[q] \notin Exiting \cup Waiting
  BY <1>4, <1>6 DEF Exiting, Waiting
<1>13. WaitLocked' /\ Waking' /\ Scanned'
  <2>1. WaitLocked'
    BY <1>1, <1>2, <1>12 DEF WaitLocked
  <2> QED
    BY <1>12, <2>1 DEF Waking, Scanned, Exiting, Waiting
<1>14. Forking'
  <2>1. \A q \in Proc : Where(q)' \in Making \cup {"fork_trace"} => q # p /\ Where(q)' = Where(q)
    BY <1>8 DEF Making
  <2>2. \A q \in Proc : /\ state[q] = "USED" => state'[q] = "USED"
                        /\ state[q] \in Live \cup {"ZOMBIE"} => state'[q] \in Live \cup {"ZOMBIE"}
    BY <1>3, <1>6
  <2>3. idx \in [Proc -> Proc]
    BY DEF IInv, TypeOK
  <2> QED
    BY <1>1, <2>1, <2>2, <2>3, ForkingKept
<1>15. Index'
  BY <1>1, <1>3, <1>8 DEF IInv, Index
<1>16. Parents'
  <2>1. \A q \in Proc : parent[q] # p
    BY <1>4 DEF Children
  <2>2. state'[initproc] = state[initproc]
    BY <1>2, <1>4, <1>6
  <2>3. \A q \in Proc : parent[q] # None => state'[parent[q]] = state[parent[q]] /\ parent[q] \in Proc
    BY <1>6, <2>1 DEF IInv, TypeOK
  <2>4. \A q \in Proc : state'[q] \in Live \cup {"ZOMBIE"} => state[q] \in Live \cup {"ZOMBIE"}
    BY Zenon, <1>3, <1>6 DEF Live
  <2>5. \A q \in Proc : pc'[q] \notin Exiting
    BY <1>12
  <2> QED
    BY <1>1, <1>2, <2>2, <2>3, <2>4, <2>5 DEF IInv, Parents
<1>17. Sleepers'
  <2> SUFFICES ASSUME NEW a \in Proc, NEW q \in Proc,
                      state'[a] = "SLEEPING", parent'[q] = a, state'[q] = "ZOMBIE"
               PROVE  FALSE
    BY DEF Sleepers
  <2>1. state[a] = "SLEEPING" /\ parent[q] = a
    BY <1>1, <1>6
  <2>2. CASE q = p
    BY <1>3, <2>1, <2>2 DEF IInv, Waking
  <2>3. CASE q # p
    <3>1. state[q] = "ZOMBIE"
      BY <1>6, <2>3
    <3>2. PICK r \in Proc : pc[r] = "wake_init"
      BY <2>1, <3>1 DEF IInv, Sleepers
    <3> QED
      BY <1>3, <1>4, <3>2 DEF Exiting
  <2> QED
    BY <2>2, <2>3
<1> QED
  BY <1>5, <1>9, <1>10, <1>11, <1>13, <1>14, <1>15, <1>16, <1>17 DEF IInv

-----------------------------------------------------------------------------
(* wait() reaps a child.                                                   *)

LEMMA ReapKeeps ==
  ASSUME IInv, NEW p \in Proc, At(p, "wait_scan"), NEW k, k = idx[p], k \in Children(p),
         plock[k] = None, state[k] = "ZOMBIE", Reap(p, k)
  PROVE  IInv'
<1>1. /\ wlock' = None /\ Goto(p, "user") /\ idx' = [idx EXCEPT ![p] = 1]
      /\ sh' = ShellAfter(p, k) /\ UNCHANGED <<plock, cproc, scan, ret>>
  BY DEF Reap
<1>2. /\ "wait_scan" \in Labels \ Away /\ "user" \in Labels \ Away /\ "user" \in Plain
      /\ "wait_scan" \in Plain /\ initproc \in Proc /\ None \notin Proc /\ 1 \in Proc
      /\ k \in Proc /\ parent[k] = p
      /\ state \in [Proc -> Live \cup {"UNUSED", "USED", "ZOMBIE"}]
      /\ parent \in [Proc -> Proc \cup {None}] /\ idx \in [Proc -> Proc]
  BY Slots DEF Plain, Labels, Unlocked, Waiting, Exiting, Making, Away, IInv, TypeOK, Children, initproc
<1>3. pc[p] = "wait_scan" /\ Where(p) = "wait_scan" /\ state[p] = "RUNNING"
  BY <1>2, Stepping
<1>4. /\ wlock = p /\ \A q \in Proc \ {p} : pc[q] \notin Exiting \cup Waiting
  BY <1>3, Alone DEF Waiting
<1>5. idx'[p] = 1 /\ \A q \in Proc \ {p} : idx'[q] = idx[q]
  BY <1>1, <1>2
<1>6. Move(p, "wait_scan", "user")
  BY <1>1, <1>5 DEF Move
<1>7. LockStep(p, "wait_scan", "user")
  BY <1>1, <1>4 DEF LockStep, Exiting, Waiting
<1>8. /\ pc' \in [Proc -> Labels] /\ pc'[p] = "user" /\ Where(p)' = "user"
      /\ \A q \in Proc \ {p} : pc'[q] = pc[q] /\ Where(q)' = Where(q)
  BY <1>2, <1>6, Moved
<1>9. sh' \in Proc \cup {None}
  BY <1>1 DEF ShellAfter, IInv, TypeOK
<1>10. CASE UNCHANGED <<state, chan, killed, parent, mask>>
  <2>1. TypeOK'
    BY Zenon, <1>1, <1>2, <1>8, <1>9, <1>10 DEF IInv, TypeOK
  <2>2. Found(p, "user")
    BY DEF Found, Waiting
  <2> QED
    BY <1>1, <1>2, <1>5, <1>6, <1>7, <1>10, <2>1, <2>2, PlainStep
<1>11. CASE freeproc(k)
  <2>1. TypeOK'
    BY Zenon, <1>1, <1>2, <1>8, <1>9, <1>11, MasksAssumption DEF IInv, TypeOK, freeproc
  <2>2. /\ state'[k] = "UNUSED" /\ parent'[k] = None
        /\ \A q \in Proc \ {k} : state'[q] = state[q] /\ parent'[q] = parent[q] /\ chan'[q] = chan[q]
    BY <1>2, <1>11 DEF freeproc, IInv, TypeOK
  <2>3. OneCpu' /\ Place'
    <3>1. ~OnCpu(k)
      BY <1>2, FreeIsOff
    <3>2. OthersOff
      BY <1>2, <2>2, <3>1 DEF OthersOff, Live
    <3> QED
      BY <1>2, <1>6, <3>2, MovedPlace
  <2>4. Locks'
    BY <1>1, <1>2, <1>6, MovedLocks
  <2>5. WaitLocked'
    BY <1>2, <1>6, <1>7, MovedWaitLock
  <2>6. Forking'
    <3>1. \A q \in Proc : Where(q)' \in Making \cup {"fork_trace"}
                          => q # p /\ Where(q)' = Where(q) /\ idx'[q] = idx[q]
      BY <1>5, <1>8 DEF Making
    <3>2. \A q \in Proc \ {p} : Where(q) \in Making \cup {"fork_trace"} => idx[q] \in Proc \ {k}
      BY <1>2 DEF IInv, Forking, Making
    <3>3. ASSUME NEW q \in Proc
          PROVE  /\ Where(q)' \in Making =>
                      /\ state'[idx'[q]] = "USED"
                      /\ \A r \in Proc \ {q} : Where(r)' \in Making => idx'[r] # idx'[q]
                 /\ Where(q)' \in {"fork_run", "fork_trace"} => parent'[idx'[q]] = q
                 /\ Where(q)' = "fork_trace" => state'[idx'[q]] \in Live \cup {"ZOMBIE"}
      <4>1. CASE Where(q)' \in Making \cup {"fork_trace"}
        <5>1. /\ q # p /\ Where(q)' = Where(q) /\ idx'[q] = idx[q] /\ idx[q] \in Proc \ {k}
          BY <3>1, <3>2, <4>1
        <5>2. state'[idx[q]] = state[idx[q]] /\ parent'[idx[q]] = parent[idx[q]]
          BY Zenon, <2>2, <5>1
        <5> QED
          BY <3>1, <5>1, <5>2 DEF IInv, Forking
      <4>2. CASE Where(q)' \notin Making \cup {"fork_trace"}
        BY <4>2 DEF Making
      <4> QED
        BY <4>1, <4>2
    <3> QED
      BY <3>3 DEF Forking
  <2>7. Index'
    BY <1>5, <1>8 DEF IInv, Index
  <2>8. \A q \in Proc : pc'[q] \notin Exiting \cup Waiting
    BY <1>4, <1>8 DEF Exiting, Waiting
  <2>9. Parents'
    <3>1. \A q \in Proc : parent[q] # k
      BY <1>2 DEF IInv, Parents, Live
    <3>2. \A q \in Proc : parent[q] # None => state'[parent[q]] = state[parent[q]] /\ parent[q] \in Proc
      BY <1>2, <2>2, <3>1
    <3>3. k # initproc
      BY <1>2 DEF IInv, Parents
    <3>4. state'[initproc] \in Live /\ parent'[initproc] = None /\ pc'[initproc] \notin Exiting
      BY <1>2, <2>2, <2>8, <3>3 DEF IInv, Parents
    <3>5. ASSUME NEW q \in Proc
          PROVE  /\ parent'[q] # None => state'[parent'[q]] \in Live
                 /\ q # initproc /\ state'[q] \in Live \cup {"ZOMBIE"} => parent'[q] # None
      BY Zenon, <2>2, <3>2 DEF IInv, Parents, Live
    <3> QED
      BY <2>8, <3>4, <3>5 DEF Parents
  <2>10. Waking' /\ Scanned'
    BY Zenon, <2>8 DEF Waking, Scanned, Exiting, Waiting
  <2>11. Sleepers'
    <3> SUFFICES ASSUME NEW a \in Proc, NEW q \in Proc,
                        state'[a] = "SLEEPING", parent'[q] = a, state'[q] = "ZOMBIE"
                 PROVE  FALSE
      BY DEF Sleepers
    <3>1. state[a] = "SLEEPING" /\ parent[q] = a /\ state[q] = "ZOMBIE"
      BY <2>2
    <3>2. PICK r \in Proc : pc[r] = "wake_init"
      BY <3>1 DEF IInv, Sleepers
    <3> QED
      BY <1>3, <1>4, <3>2 DEF Exiting
  <2> QED
    BY Zenon, <2>1, <2>3, <2>4, <2>5, <2>6, <2>7, <2>9, <2>10, <2>11 DEF IInv
<1> QED
  BY <1>10, <1>11 DEF Reap

LEMMA ForkScanKeeps == ASSUME IInv, NEW p \in Proc, ForkScan(p) PROVE IInv'
BY ForkScanOnKeeps, ForkScanFoundKeeps

LEMMA WaitScanKeeps == ASSUME IInv, NEW p \in Proc, WaitScan(p) PROVE IInv'
<1>1. CASE idx[p] \in Children(p) /\ state[idx[p]] = "ZOMBIE"
  <2>1. At(p, "wait_scan") /\ plock[idx[p]] = None /\ Reap(p, idx[p])
    BY <1>1 DEF WaitScan
  <2> QED
    BY <1>1, <2>1, ReapKeeps
<1>2. CASE ~(idx[p] \in Children(p) /\ state[idx[p]] = "ZOMBIE")
  BY <1>2, WaitScanOnKeeps
<1> QED
  BY <1>1, <1>2

-----------------------------------------------------------------------------
(* The invariant, and what follows from it.                                *)

\* userinit() establishes the invariant.
LEMMA InitIInv == ASSUME Init PROVE IInv
<1> USE DEF Init
<1>1. initproc \in Proc /\ None \notin Proc /\ 1 \in Proc
  BY Slots DEF initproc
<1>2. TypeOK
  BY <1>1, MasksAssumption DEF TypeOK, Live, Labels, Unlocked, Away
<1>3. /\ \A p \in Proc : /\ state[p] \in {"RUNNABLE", "UNUSED"} /\ plock[p] = None
                         /\ pc[p] = "switched" /\ ret[p] = "user" /\ Where(p) = "user"
                         /\ parent[p] = None /\ idx[p] = 1
      /\ \A c \in Cpu : cproc[c] = None
      /\ state[initproc] = "RUNNABLE" /\ \A p \in Proc \ {initproc} : state[p] = "UNUSED"
  BY <1>1 DEF Where, Away
<1>4. \A p \in Proc : ~OnCpu(p)
  BY <1>1, <1>3 DEF OnCpu
<1> HIDE DEF Init
<1>5. wlock = None
  BY DEF Init
<1>6. OneCpu /\ Place
  BY <1>3, <1>4 DEF OneCpu, Place, Away
<1>7. Locks
  BY <1>1, <1>3, <1>4 DEF Locks
<1>8. WaitLocked /\ Waking /\ Scanned
  BY <1>1, <1>3, <1>5 DEF WaitLocked, Waking, Scanned, Exiting, Waiting
<1>9. Forking /\ Index
  BY <1>3 DEF Forking, Index, Making
<1>10. Parents /\ Sleepers
  BY <1>1, <1>3 DEF Parents, Sleepers, Live, Exiting
<1> QED
  BY <1>2, <1>6, <1>7, <1>8, <1>9, <1>10 DEF IInv

\* Every step of the kernel for p keeps the invariant.
LEMMA KernelKeeps == ASSUME IInv, NEW p \in Proc, Kernel(p) PROVE IInv'
<1>1. CASE ForkScan(p)
  BY <1>1, ForkScanKeeps
<1>2. CASE ForkCopy(p)
  BY <1>2, ForkCopyKeeps
<1>3. CASE ForkParent(p)
  BY <1>3, ForkParentKeeps
<1>4. CASE ForkRun(p)
  BY <1>4, ForkRunKeeps
<1>5. CASE ForkTrace(p)
  BY <1>5, ForkTraceKeeps
<1>6. CASE ExitKilled(p)
  BY <1>6, SyscallKeeps
<1>7. CASE ExitLock(p)
  BY <1>7, ExitLockKeeps
<1>8. CASE Reparent(p)
  BY <1>8, ReparentKeeps
<1>9. CASE ExitWakeup(p)
  BY <1>9, ExitWakeupKeeps
<1>10. CASE Zombie(p)
  BY <1>10, ZombieKeeps
<1>11. CASE WaitLock(p)
  BY <1>11, WaitLockKeeps
<1>12. CASE WaitScan(p)
  BY <1>12, WaitScanKeeps
<1>13. CASE WaitCheck(p)
  BY <1>13, WaitCheckKeeps
<1>14. CASE WaitSleepLock(p)
  BY <1>14, WaitSleepLockKeeps
<1>15. CASE WaitSleepUnlock(p)
  BY <1>15, WaitSleepUnlockKeeps
<1>16. CASE Switch(p)
  BY <1>16, SwitchKeeps
<1> QED
  BY <1>1, <1>2, <1>3, <1>4, <1>5, <1>6, <1>7, <1>8, <1>9, <1>10, <1>11, <1>12, <1>13, <1>14,
     <1>15, <1>16 DEF Kernel

\* And so does every step of the scheduler, the timer and user code.
LEMMA NextKeeps == ASSUME IInv, [Next]_vars PROVE IInv'
<1>1. CASE UNCHANGED vars
  <2>1. mask' \in [Proc -> Masks] /\ UNCHANGED <<schedVars, wlock, parent, idx, sh>>
    BY <1>1 DEF vars, lifeVars, IInv, TypeOK
  <2> QED
    BY <2>1, TraceKeeps
<1>2. ASSUME NEW c \in Cpu, Schedule(c) PROVE IInv'
  BY <1>2, ScheduleKeeps
<1>3. ASSUME NEW p \in Proc, Kernel(p) PROVE IInv'
  BY <1>3, KernelKeeps
<1>4. ASSUME NEW p \in Proc, Preempt(p) PROVE IInv'
  BY <1>4, PreemptKeeps
<1>5. ASSUME NEW p \in Proc, Syscall(p) PROVE IInv'
  BY <1>5, SyscallKeeps
<1>6. ASSUME NEW p \in Proc, NEW m \in Masks, Trace(p, m) PROVE IInv'
  <2>1. mask' \in [Proc -> Masks] /\ UNCHANGED <<schedVars, wlock, parent, idx, sh>>
    BY <1>6 DEF Trace, IInv, TypeOK
  <2> QED
    BY <2>1, TraceKeeps
<1>7. ASSUME NEW p \in Proc, NEW q \in Proc, Kill(p, q) PROVE IInv'
  BY <1>7, KillKeeps
<1> QED
  BY <1>1, <1>2, <1>3, <1>4, <1>5, <1>6, <1>7 DEF Next

\* IInv holds in every state that fork(), exit(), wait(), kill(), trace(), the
\* scheduler and the timer can reach, for every NPROC and every set of CPUs.
THEOREM Invariance == Spec => []IInv
<1>1. Init => IInv
  BY InitIInv
<1>2. IInv /\ [Next]_vars => IInv'
  BY NextKeeps
<1> QED
  BY <1>1, <1>2, PTL DEF Spec

\* swtch() never runs one kernel stack on two CPUs, and whoever is on a CPU is
\* RUNNING or still holds its own p->lock.
THEOREM StackOnOneCpu == Spec => []OneStackOneCpu
<1>1. ASSUME IInv PROVE OneStackOneCpu
  <2>1. \A p \in Proc : OnCpu(p) => state[p] = "RUNNING" \/ plock[p] = p
    BY <1>1 DEF IInv, Place, Locks
  <2> QED
    BY <1>1, <2>1 DEF OneStackOneCpu, IInv, OneCpu, Place
<1> QED
  BY <1>1, Invariance, PTL

\* While wait_lock is free no parent sleeps in wait() with a ZOMBIE child: the
\* wakeup of exit(), or the one that reparent() owes init, has come.
THEOREM ExitNotMissed == Spec => []NoMissedExit
<1>1. ASSUME IInv PROVE NoMissedExit
  <2> SUFFICES ASSUME wlock = None, NEW p \in Proc, state[p] = "SLEEPING",
                      NEW q \in Children(p), state[q] = "ZOMBIE"
               PROVE  FALSE
    BY DEF NoMissedExit
  <2>1. q \in Proc /\ parent[q] = p
    BY DEF Children
  <2>2. PICK r \in Proc : pc[r] = "wake_init"
    BY <1>1, <2>1 DEF IInv, Sleepers
  <2>3. wlock = r
    BY <1>1, <2>2 DEF IInv, WaitLocked, Exiting
  <2> QED
    BY <2>3, Slots
<1> QED
  BY <1>1, Invariance, PTL

\* fork(), exit() and reparent() leave no process to nobody: its parent is alive.
THEOREM NobodyOrphaned == Spec => []ParentAlive
<1>1. ASSUME IInv PROVE ParentAlive
  <2>1. state \in [Proc -> Live \cup {"UNUSED", "USED", "ZOMBIE"}]
    BY <1>1 DEF IInv, TypeOK
  <2>2. \A q \in Proc : state[q] \notin {"UNUSED", "USED"} => state[q] \in Live \cup {"ZOMBIE"}
    BY <2>1
  <2> QED
    BY <1>1, <2>2 DEF ParentAlive, IInv, Parents, Live
<1> QED
  BY <1>1, Invariance, PTL

\* What fork() writes to the child after it has released the child's lock goes to
\* the child it has made: nobody has reaped it, nor taken its slot.
THEOREM ForkWritesToChild == Spec => []ForkOwnsChild
<1>1. ASSUME IInv PROVE ForkOwnsChild
  <2>1. ASSUME NEW p \in Proc, pc[p] \in {"fork_parent", "fork_run", "fork_trace"}
        PROVE  Where(p) = pc[p]
    BY <2>1 DEF Where, Away
  <2> QED
    BY <1>1, <2>1 DEF ForkOwnsChild, IInv, Forking, Making, Live
<1> QED
  BY <1>1, Invariance, PTL
==============================================================================
