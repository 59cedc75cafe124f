------------------------------- MODULE Monitor -------------------------------
(***************************************************************************)
(* What sleep() and wakeup() promise to the kernel code that calls them    *)
(* with its own lock lk held: a monitor.  Releasing lk and going to sleep  *)
(* is one atomic step, wakeup() ends the sleep of everyone on the channel  *)
(* in one atomic step, and a sleeper has lk again when sleep() returns.    *)
(***************************************************************************)
CONSTANTS Proc, Chan, None

VARIABLES
  owner,    \* who holds lk
  asleep    \* the channel each process sleeps on, or None

vars == <<owner, asleep>>

Init == owner = None /\ asleep = [p \in Proc |-> None]

Enter(p) == /\ owner = None /\ asleep[p] = None
            /\ owner' = p
            /\ UNCHANGED asleep

Exit(p) == owner = p /\ owner' = None /\ UNCHANGED asleep

Sleep(p, ch) == /\ owner = p
                /\ owner' = None
                /\ asleep' = [asleep EXCEPT ![p] = ch]

Wakeup(p, ch) ==
  /\ owner = p
  /\ asleep' = [q \in Proc |-> IF asleep[q] = ch THEN None ELSE asleep[q]]
  /\ UNCHANGED owner

\* kill() ends a sleep without the condition having become true.
Interrupted(q) == /\ asleep[q] # None
                  /\ asleep' = [asleep EXCEPT ![q] = None]
                  /\ UNCHANGED owner

Next == \E p \in Proc :
          \/ Enter(p) \/ Exit(p) \/ Interrupted(p)
          \/ \E ch \in Chan : Sleep(p, ch) \/ Wakeup(p, ch)

Spec == Init /\ [][Next]_vars
=============================================================================
