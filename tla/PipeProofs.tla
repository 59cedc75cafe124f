------------------------------ MODULE PipeProofs ------------------------------
(***************************************************************************)
(* A pipe is a bounded FIFO for any number of readers and writers, any     *)
(* size of the ring that divides the range of its indices, and any lengths *)
(* of reads and writes; and nobody sleeps in it without having to.         *)
(*                                                                         *)
(* The invariant says who is inside pi->lock, which ends are open while    *)
(* somebody is in a call, and for whom the sleepers wait while somebody    *)
(* is inside: a reader's bytes may be there already if a writer that has   *)
(* put some in is still to wake it.                                        *)
(***************************************************************************)
EXTENDS Pipe, Integers, SequenceTheorems, TLAPS

Inside == {"wtest", "wput", "rtest", "rsleep", "rcopy"}
Labels == Inside \cup {"user", "lock", "wasleep", "rasleep"}

Writing(p) == pc[p] \in {"wtest", "wput"}

TypeOK ==
  /\ data \in [0 .. PIPESIZE - 1 -> Byte]
  /\ nread \in 0 .. UINT - 1 /\ nwrite \in 0 .. UINT - 1
  /\ readopen \in BOOLEAN /\ writeopen \in BOOLEAN /\ freed \in BOOLEAN /\ cut \in BOOLEAN
  /\ lk \in Proc \cup {None} /\ open \subseteq Proc
  /\ killed \in [Proc -> BOOLEAN] /\ pc \in [Proc -> Labels]
  /\ i \in [Proc -> Nat] /\ n \in [Proc -> Nat]

\* pi->lock is held by the process that is in a loop.
Holder == \A p \in Proc : lk = p <=> pc[p] \in Inside

\* Writers write and readers read, with their end open.
Roles == \A p \in Proc :
  /\ pc[p] \in {"wtest", "wput", "wasleep"} => p \in Writer
  /\ pc[p] \in {"rtest", "rsleep", "rcopy", "rasleep"} => p \in Reader
  /\ pc[p] # "user" => p \in open

\* An end is open as long as a process has it, and a pipe with an open end is not
\* freed.
Ends ==
  /\ \A p \in open : IF p \in Writer THEN writeopen ELSE readopen
  /\ freed => open = {}

\* What the loops have found out is still so.
Tested == \A p \in Proc :
  /\ pc[p] = "wput" => readopen
  /\ pc[p] = "rsleep" => Empty /\ writeopen

\* Why those who sleep do, or who is going to wake them.
Sleepers == \A p \in Proc :
  /\ pc[p] = "rasleep" => /\ writeopen
                          /\ Empty \/ cut \/ \E q \in Proc : Writing(q) /\ i[q] > 0
  /\ pc[p] = "wasleep" => readopen /\ (Full \/ \E q \in Proc : pc[q] = "rcopy")

IInv == TypeOK /\ Holder /\ Roles /\ Ends /\ Tested /\ Sleepers /\ EndOfFile

-----------------------------------------------------------------------------
(* Remainders.                                                             *)

\* Division with remainder.
LEMMA Division ==
  ASSUME NEW a \in Nat, NEW b \in Nat \ {0}
  PROVE  a % b \in 0 .. b - 1 /\ \E q \in Nat : a = q * b + (a % b)
<1>1. a \div b \in Nat /\ a % b \in 0 .. b - 1 /\ a = (a \div b) * b + (a % b)
  OBVIOUS
<1> QED
  BY ONLY <1>1, Zenon

\* A positive multiple is not smaller.
LEMMA Multiple == ASSUME NEW b \in Nat \ {0}, NEW q \in Int, q >= 1 PROVE q * b >= b
OBVIOUS

\* The remainder is unique.
LEMMA Remainder ==
  ASSUME NEW a \in Nat, NEW b \in Nat \ {0}, NEW q \in Int, NEW r \in 0 .. b - 1, a = q * b + r
  PROVE  a % b = r
<1>0. PICK p \in Nat : a = p * b + (a % b)
  BY Division, Zenon
<1>1. PICK s \in 0 .. b - 1 : s = a % b
  BY Division
<1>2. p * b + s = q * b + r
  BY <1>0, <1>1
<1>3. CASE p < q
  <2>1. (q - p) * b = s - r /\ (q - p) * b >= b
    BY <1>2, <1>3, Multiple
  <2> QED
    BY <2>1
<1>4. CASE q < p
  <2>1. (p - q) * b = r - s /\ (p - q) * b >= b
    BY <1>2, <1>4, Multiple
  <2> QED
    BY <2>1
<1>5. CASE p = q
  BY <1>1, <1>2, <1>5
<1> QED
  BY <1>3, <1>4, <1>5

\* A remainder modulo a multiple of P has the same remainder modulo P.
LEMMA ModMod ==
  ASSUME NEW P \in Nat \ {0}, NEW U \in Nat \ {0}, U % P = 0, NEW x \in Nat
  PROVE  (x % U) % P = x % P
<1>1. PICK m \in Nat : U = m * P
  BY Division
<1>2. PICK y \in Nat : y = x % U
  BY Division
<1>3. PICK k \in Nat : x = k * U + y
  BY <1>2, Division, Zenon
<1>4. PICK r \in 0 .. P - 1 : r = y % P
  BY Division
<1>5. PICK d \in Nat : y = d * P + r
  BY <1>4, Division, Zenon
<1>6. PICK z \in Nat : z = k * m + d
  OBVIOUS
<1>7. x = z * P + r
  <2>1. x = k * (m * P) + (d * P + r)
    BY <1>1, <1>3, <1>5
  <2> QED
    BY ONLY <1>6, <2>1, P \in Nat, m \in Nat, k \in Nat, d \in Nat, r \in Nat
<1>8. x % P = r
  BY <1>7, Remainder
<1> QED
  BY <1>2, <1>4, <1>8

\* Numbers that are less than P apart have different remainders.
LEMMA ModApart ==
  ASSUME NEW P \in Nat \ {0}, NEW x \in Nat, NEW y \in Nat, x < y, y < x + P
  PROVE  x % P # y % P
<1> SUFFICES ASSUME x % P = y % P PROVE FALSE
  OBVIOUS
<1>0. PICK r \in 0 .. P - 1 : r = x % P
  BY Division
<1>1. PICK d \in Nat : x = d * P + r
  BY <1>0, Division, Zenon
<1>2. PICK e \in Nat : y = e * P + r
  BY <1>0, Division, Zenon
<1>3. (e - d) * P = y - x
  BY <1>1, <1>2
<1>4. CASE e > d
  <2>1. (e - d) * P >= P
    BY <1>4, Multiple
  <2> QED
    BY <1>3, <2>1
<1>5. CASE d >= e
  <2>1. (d - e) * P >= 0
    BY <1>5
  <2> QED
    BY <1>1, <1>2, <2>1
<1> QED
  BY <1>4, <1>5

\* A remainder can be taken before an addition.
LEMMA ModAdd ==
  ASSUME NEW U \in Nat \ {0}, NEW x \in Nat, NEW y \in Nat
  PROVE  ((x % U) + y) % U = (x + y) % U
<1>1. PICK z \in Nat : z = x % U
  BY Division
<1>2. PICK k \in Nat : x = k * U + z
  BY <1>1, Division, Zenon
<1>3. PICK w \in Nat : w = z + y
  OBVIOUS
<1>4. PICK r \in 0 .. U - 1 : r = w % U
  BY Division
<1>5. PICK d \in Nat : w = d * U + r
  BY <1>4, Division, Zenon
<1>6. PICK v \in Nat : v = x + y
  OBVIOUS
<1>7. v = (k + d) * U + r
  BY <1>2, <1>3, <1>5, <1>6
<1>8. v % U = r
  BY <1>7, Remainder
<1> QED
  BY <1>1, <1>3, <1>4, <1>6, <1>8

-----------------------------------------------------------------------------
(* The invariant gives the properties.                                     *)

\* Only the holder of pi->lock is inside.
LEMMA OneInside ==
  ASSUME IInv, NEW p \in Proc, NEW q \in Proc, pc[p] \in Inside, pc[q] \in Inside
  PROVE  p = q
BY DEF IInv, Holder

\* With pi->lock free, nobody is inside who would still wake the sleepers.
LEMMA FreeLock == ASSUME PipeConstants, IInv PROVE NoLostWakeup
<1> SUFFICES ASSUME lk = None PROVE \A q \in Proc : pc[q] \notin Inside
  BY DEF IInv, Sleepers, NoLostWakeup, Writing, Inside
<1> QED
  BY DEF IInv, Holder, PipeConstants

\* A freed pipe has no process in a call.
LEMMA FreedUnused == ASSUME IInv PROVE NoUseAfterFree
BY DEF IInv, Ends, Roles, NoUseAfterFree

-----------------------------------------------------------------------------
(* The steps of the process that holds pi->lock.                           *)

\* Process p goes on at l, and wakes those who sleep at asleep.
Moves(p, l, asleep) ==
  /\ pc' \in [Proc -> Labels] /\ pc'[p] = l
  /\ \A q \in Proc \ {p} : pc'[q] = IF pc[q] = asleep THEN "lock" ELSE pc[q]

InsideStep(p, l, asleep) ==
  /\ pc[p] \in Inside /\ l \in Labels /\ asleep \in {"rasleep", "wasleep", "nobody"}
  /\ Moves(p, l, asleep)
  /\ lk' = IF l \in Inside THEN lk ELSE None
  /\ l \in {"wtest", "wput", "wasleep"} => p \in Writer
  /\ l \in {"rtest", "rsleep", "rcopy", "rasleep"} => p \in Reader
  /\ UNCHANGED <<readopen, writeopen, freed, open, killed>>

\* How the actions change pc.
LEMMA MovesAlone ==
  ASSUME IInv, NEW p \in Proc, NEW l \in Labels, pc' = [pc EXCEPT ![p] = l]
  PROVE  Moves(p, l, "nobody")
BY Zenon DEF Moves, IInv, TypeOK, Labels, Inside

\* How the actions that call wakeup() change pc.
LEMMA MovesWaking ==
  ASSUME IInv, NEW p \in Proc, NEW l \in Labels, NEW asleep,
         pc' = [Wake(asleep) EXCEPT ![p] = l]
  PROVE  Moves(p, l, asleep)
BY DEF Moves, Wake, IInv, TypeOK, Labels, Inside

\* What such a step leaves in order.
LEMMA InsideKeeps ==
  ASSUME PipeConstants, IInv, NEW p \in Proc, NEW l, NEW asleep, InsideStep(p, l, asleep)
  PROVE  /\ Holder' /\ Roles' /\ Ends'
         /\ lk' \in Proc \cup {None}
         /\ p \in open /\ (p \in Writer => writeopen) /\ (p \in Reader => readopen)
         /\ \A q \in Proc \ {p} : pc[q] \notin Inside /\ pc'[q] \notin Inside
<1> USE DEF IInv, InsideStep, Moves
<1>1. \A q \in Proc \ {p} : pc[q] \notin Inside
  BY OneInside
<1>2. \A q \in Proc \ {p} : pc'[q] \notin Inside
  BY <1>1 DEF Inside
<1>3. lk = p /\ lk' \in Proc \cup {None}
  BY DEF Holder
<1>4. Holder'
  BY <1>2, <1>3 DEF Holder, PipeConstants
<1>5. p \in open /\ (p \in Writer => writeopen) /\ (p \in Reader => readopen)
  BY DEF Roles, Ends, Inside, PipeConstants
<1>6. Roles'
  BY <1>5 DEF Roles
<1>7. Ends'
  BY DEF Ends
<1> QED
  BY <1>1, <1>2, <1>3, <1>4, <1>5, <1>6, <1>7

\* A process that holds no more the lock of a pipe that it has left as it was:
\* a writer has woken the readers or has put nothing in, or cut says so.
LEMMA WriterLeaves ==
  ASSUME PipeConstants, IInv, NEW p \in Proc, NEW l \in {"user", "wasleep"}, NEW asleep,
         Writing(p), InsideStep(p, l, asleep),
         UNCHANGED <<data, nread, nwrite>>,
         i' \in [Proc -> Nat], n' \in [Proc -> Nat], cut' \in BOOLEAN,
         \A q \in Proc \ {p} : i'[q] = i[q] /\ n'[q] = n[q],
         asleep = "rasleep" \/ (asleep = "nobody" /\ cut' = (cut \/ i[p] > 0)),
         l = "wasleep" => Full /\ readopen
  PROVE  IInv'
<1>1. /\ Holder' /\ Roles' /\ Ends' /\ lk' \in Proc \cup {None}
      /\ \A q \in Proc \ {p} : pc[q] \notin Inside /\ pc'[q] \notin Inside
  BY InsideKeeps
<1> USE <1>1 DEF IInv, InsideStep, Moves, Writing
<1>2. TypeOK'
  BY DEF TypeOK
<1>3. Tested' /\ EndOfFile'
  BY DEF Tested, EndOfFile, Inside, Proc
<1>4. Sleepers'
  <2>1. ASSUME NEW q \in Proc, pc'[q] = "rasleep" PROVE writeopen' /\ (Empty' \/ cut')
    <3>1. q # p /\ pc[q] = "rasleep" /\ asleep = "nobody"
      BY <2>1
    <3>2. writeopen /\ (Empty \/ cut \/ \E r \in Proc : Writing(r) /\ i[r] > 0)
      BY <3>1 DEF Sleepers
    <3>3. \A r \in Proc : Writing(r) => r = p
      BY DEF Inside
    <3> QED
      BY <3>1, <3>2, <3>3, Zenon DEF Empty
  <2>2. ASSUME NEW q \in Proc, pc'[q] = "wasleep" PROVE readopen' /\ Full'
    <3>1. CASE q = p
      BY <2>2, <3>1 DEF Full
    <3>2. CASE q # p
      <4>1. pc[q] = "wasleep" /\ \A r \in Proc : pc[r] # "rcopy"
        BY <2>2, <3>2 DEF Inside
      <4> QED
        BY <4>1 DEF Sleepers, Full
    <3> QED
      BY <3>1, <3>2
  <2> QED
    BY <2>1, <2>2 DEF Sleepers
<1> QED
  BY <1>1, <1>2, <1>3, <1>4

\* pipewrite() returns, or goes on to the next byte.
LEMMA WriteTestKeeps == ASSUME PipeConstants, IInv, NEW p \in Proc, WriteTest(p) PROVE IInv'
<1>1. pc[p] = "wtest" /\ p \in Writer /\ UNCHANGED <<pipe, freed, open, killed>>
  BY DEF WriteTest, IInv, Roles
<1>2. CASE ~More(p)
  <2>1. /\ pc' = [Wake("rasleep") EXCEPT ![p] = "user"] /\ cut' = FALSE /\ lk' = None
        /\ i' = [i EXCEPT ![p] = 0] /\ n' = [n EXCEPT ![p] = 0]
    BY <1>2 DEF WriteTest, Return
  <2>2. InsideStep(p, "user", "rasleep")
    BY <1>1, <2>1, MovesWaking DEF InsideStep, Inside, Labels, pipe
  <2>3. /\ i' \in [Proc -> Nat] /\ n' \in [Proc -> Nat]
        /\ \A q \in Proc \ {p} : i'[q] = i[q] /\ n'[q] = n[q]
    BY <2>1 DEF IInv, TypeOK
  <2>4. cut' \in BOOLEAN
    BY <2>1, Zenon
  <2> QED
    BY <1>1, <2>1, <2>2, <2>3, <2>4, WriterLeaves DEF Writing, pipe
<1>3. CASE More(p) /\ (~readopen \/ killed[p])
  <2>1. /\ pc' = [pc EXCEPT ![p] = "user"] /\ cut' = (cut \/ i[p] > 0) /\ lk' = None
        /\ i' = [i EXCEPT ![p] = 0] /\ n' = [n EXCEPT ![p] = 0]
    BY <1>3 DEF WriteTest, Return
  <2>2. InsideStep(p, "user", "nobody")
    BY <1>1, <2>1, MovesAlone, Zenon DEF InsideStep, Inside, Labels, pipe
  <2>3. /\ i' \in [Proc -> Nat] /\ n' \in [Proc -> Nat]
        /\ \A q \in Proc \ {p} : i'[q] = i[q] /\ n'[q] = n[q]
    BY <2>1 DEF IInv, TypeOK
  <2>4. cut' \in BOOLEAN
    BY <2>1, Zenon
  <2> QED
    BY <1>1, <2>1, <2>2, <2>3, <2>4, WriterLeaves DEF Writing, pipe
<1>4. CASE More(p) /\ readopen /\ ~killed[p]
  <2>1. pc' = [pc EXCEPT ![p] = "wput"] /\ UNCHANGED <<lk, i, n, cut>>
    BY <1>4 DEF WriteTest, calls
  <2>2. InsideStep(p, "wput", "nobody")
    BY <1>1, <2>1, MovesAlone, Zenon DEF InsideStep, Inside, Labels, pipe
  <2>3. /\ Holder' /\ Roles' /\ Ends' /\ lk' \in Proc \cup {None}
        /\ \A q \in Proc \ {p} : pc[q] \notin Inside /\ pc'[q] \notin Inside
    BY <2>2, InsideKeeps
  <2> USE <1>1, <2>1, <2>2, <2>3 DEF IInv, InsideStep, Moves, pipe
  <2>4. TypeOK'
    BY DEF TypeOK
  <2>5. Tested' /\ EndOfFile'
    BY <1>4 DEF Tested, EndOfFile, Inside, Proc
  <2>6. Sleepers'
    <3>1. \A q \in Proc : pc'[q] = "rasleep" <=> pc[q] = "rasleep"
      OBVIOUS
    <3>2. \A q \in Proc : pc'[q] = "wasleep" <=> pc[q] = "wasleep"
      OBVIOUS
    <3>3. \A q \in Proc : pc[q] # "rcopy" /\ (Writing(q) => Writing(q)')
      BY DEF Writing, Inside
    <3> QED
      BY <3>1, <3>2, <3>3 DEF Sleepers, Empty, Full
  <2> QED
    BY <2>3, <2>4, <2>5, <2>6
<1> QED
  BY <1>2, <1>3, <1>4

\* pipewrite() sleeps when the pipe is full, and ends when copyin() fails.
LEMMA WriteStopKeeps ==
  ASSUME PipeConstants, IInv, NEW p \in Proc, WriteSleep(p) \/ WriteFault(p)
  PROVE  IInv'
<1>1. /\ pc[p] = "wput" /\ p \in Writer /\ readopen /\ UNCHANGED <<pipe, freed, open, killed>>
      /\ cut' = FALSE /\ lk' = None
  BY DEF WriteSleep, WriteFault, Return, IInv, Roles, Tested
<1>2. /\ i' \in [Proc -> Nat] /\ n' \in [Proc -> Nat]
      /\ \A q \in Proc \ {p} : i'[q] = i[q] /\ n'[q] = n[q]
  <2>1. CASE UNCHANGED calls
    BY <2>1 DEF calls, IInv, TypeOK
  <2>2. CASE Return(p)
    BY <2>2 DEF Return, IInv, TypeOK
  <2> QED
    BY <2>1, <2>2 DEF WriteSleep, WriteFault
<1>0. cut' \in BOOLEAN
  BY <1>1, Zenon
<1>3. CASE WriteSleep(p)
  <2>1. pc' = [Wake("rasleep") EXCEPT ![p] = "wasleep"] /\ Full
    BY <1>3 DEF WriteSleep
  <2>2. Moves(p, "wasleep", "rasleep")
    BY <2>1, MovesWaking DEF Labels
  <2>3. InsideStep(p, "wasleep", "rasleep")
    BY <1>1, <2>2 DEF InsideStep, Inside, Labels, pipe
  <2> QED
    BY <1>0, <1>1, <1>2, <2>1, <2>3, WriterLeaves DEF Writing, pipe
<1>4. CASE WriteFault(p)
  <2>1. Moves(p, "user", "rasleep")
    BY <1>4, MovesWaking DEF WriteFault, Labels
  <2>2. InsideStep(p, "user", "rasleep")
    BY <1>1, <2>1 DEF InsideStep, Inside, Labels, pipe
  <2> QED
    BY <1>0, <1>1, <1>2, <2>2, WriterLeaves DEF Writing, pipe
<1> QED
  BY <1>3, <1>4

\* pipewrite() puts a byte in when the pipe is not full: no writer is asleep then.
LEMMA WriteByteKeeps ==
  ASSUME PipeConstants, IInv, NEW p \in Proc, NEW x \in Byte, WriteByte(p, x)
  PROVE  IInv'
<1>1. /\ pc[p] = "wput" /\ p \in Writer /\ ~Full
      /\ UNCHANGED <<nread, readopen, writeopen, lk, freed, open, killed, n, cut>>
      /\ data' = [data EXCEPT ![nwrite % PIPESIZE] = x] /\ nwrite' = (nwrite + 1) % UINT
      /\ i' = [i EXCEPT ![p] = i[p] + 1] /\ pc' = [pc EXCEPT ![p] = "wtest"]
  BY DEF WriteByte, IInv, Roles
<1>2. InsideStep(p, "wtest", "nobody")
  BY <1>1, MovesAlone, Zenon DEF InsideStep, Inside, Labels
<1>3. /\ Holder' /\ Roles' /\ Ends' /\ lk' \in Proc \cup {None}
      /\ \A q \in Proc \ {p} : pc[q] \notin Inside /\ pc'[q] \notin Inside
  BY <1>2, InsideKeeps
<1>4. nwrite' \in 0 .. UINT - 1
  <2>1. nwrite + 1 \in Nat
    BY DEF IInv, TypeOK, PipeConstants
  <2> QED
    BY <1>1, <2>1, Division, Zenon DEF PipeConstants
<1> USE <1>1, <1>2, <1>3 DEF IInv, InsideStep, Moves
<1>5. TypeOK'
  <2>1. data' \in [0 .. PIPESIZE - 1 -> Byte]
    BY Zenon DEF TypeOK
  <2>2. i' \in [Proc -> Nat]
    BY DEF TypeOK
  <2> QED
    BY <1>4, <2>1, <2>2 DEF TypeOK
<1>6. Tested' /\ EndOfFile'
  BY DEF Tested, EndOfFile, Inside, Proc
<1>7. Sleepers'
  <2>1. \A q \in Proc : pc[q] # "wasleep"
    BY DEF Sleepers, Inside
  <2>2. Writing(p)' /\ i'[p] > 0
    BY DEF Writing, TypeOK
  <2>3. \A q \in Proc : pc'[q] = "rasleep" => pc[q] = "rasleep"
    OBVIOUS
  <2>4. \A q \in Proc : pc'[q] # "wasleep"
    BY <2>1
  <2> QED
    BY <2>2, <2>3, <2>4 DEF Sleepers
<1> QED
  BY <1>3, <1>5, <1>6, <1>7

\* A reader goes on inside, sleeps, or returns without having changed the pipe.
LEMMA ReaderMoves ==
  ASSUME PipeConstants, IInv, NEW p \in Proc, NEW l \in {"rcopy", "rsleep", "rasleep", "user"},
         InsideStep(p, l, "nobody"), pc[p] \in {"rtest", "rsleep"}, p \in Reader,
         UNCHANGED <<data, nread, nwrite, cut>>,
         i' \in [Proc -> Nat], n' \in [Proc -> Nat],
         \A q \in Proc \ {p} : i'[q] = i[q] /\ n'[q] = n[q],
         l = "rcopy" => ~Empty \/ ~writeopen,
         l \in {"rsleep", "rasleep"} => Empty /\ writeopen
  PROVE  IInv'
<1>1. /\ Holder' /\ Roles' /\ Ends' /\ lk' \in Proc \cup {None}
      /\ \A q \in Proc \ {p} : pc[q] \notin Inside /\ pc'[q] \notin Inside
  BY InsideKeeps
<1> USE <1>1 DEF IInv, InsideStep, Moves, Empty, Full
<1>2. TypeOK'
  BY DEF TypeOK
<1>3. Tested' /\ EndOfFile'
  BY DEF Tested, EndOfFile, Inside, Proc
<1>4. Sleepers'
  <2>1. \A q \in Proc : pc[q] # "rcopy" /\ ~Writing(q)
    BY DEF Inside, Writing
  <2>2. \A q \in Proc \ {p} : pc'[q] = pc[q]
    BY Zenon DEF Labels, Inside, TypeOK
  <2> QED
    BY <2>1, <2>2 DEF Sleepers
<1> QED
  BY <1>1, <1>2, <1>3, <1>4

\* The test of piperead()'s first loop, and its sleep().
LEMMA ReadTestKeeps ==
  ASSUME PipeConstants, IInv, NEW p \in Proc, ReadTest(p) \/ ReadSleep(p)
  PROVE  IInv'
<1>1. /\ pc[p] \in {"rtest", "rsleep"} /\ p \in Reader /\ UNCHANGED <<pipe, freed, open, killed, cut>>
  BY DEF ReadTest, ReadSleep, IInv, Roles
<1>2. /\ i' \in [Proc -> Nat] /\ n' \in [Proc -> Nat]
      /\ \A q \in Proc \ {p} : i'[q] = i[q] /\ n'[q] = n[q]
  <2>1. CASE UNCHANGED calls
    BY <2>1 DEF calls, IInv, TypeOK
  <2>2. CASE Return(p)
    BY <2>2 DEF Return, IInv, TypeOK
  <2> QED
    BY <2>1, <2>2 DEF ReadTest, ReadSleep
<1>3. ASSUME NEW l \in {"rcopy", "rsleep", "rasleep", "user"}, pc' = [pc EXCEPT ![p] = l],
             lk' = IF l \in Inside THEN lk ELSE None,
             l = "rcopy" => ~Empty \/ ~writeopen,
             l \in {"rsleep", "rasleep"} => Empty /\ writeopen
      PROVE  IInv'
  <2>1. InsideStep(p, l, "nobody")
    BY <1>1, <1>3, MovesAlone, Zenon DEF InsideStep, Inside, Labels, pipe
  <2> QED
    BY <1>1, <1>2, <1>3, <2>1, ReaderMoves, Zenon DEF pipe
<1>4. CASE ReadSleep(p)
  BY <1>3, <1>4 DEF ReadSleep, IInv, Tested, Inside
<1>5. CASE ReadTest(p)
  BY <1>3, <1>5 DEF ReadTest, MustWait, Return, Inside
<1> QED
  BY <1>4, <1>5

\* piperead() takes a byte, or ends and wakes the writers.
LEMMA ReadByteKeeps == ASSUME PipeConstants, IInv, NEW p \in Proc, ReadByte(p) PROVE IInv'
<1>1. /\ pc[p] = "rcopy" /\ p \in Reader
      /\ UNCHANGED <<data, nwrite, readopen, writeopen, freed, open, killed, cut>>
      /\ Empty => nread' = nread
  BY DEF ReadByte, IInv, Roles
<1>2. /\ i' \in [Proc -> Nat] /\ n' \in [Proc -> Nat]
      /\ \A q \in Proc \ {p} : i'[q] = i[q] /\ n'[q] = n[q]
  <2>1. CASE i' = [i EXCEPT ![p] = i[p] + 1] /\ n' = n
    BY <2>1 DEF IInv, TypeOK
  <2>2. CASE Return(p)
    BY <2>2 DEF Return, IInv, TypeOK
  <2> QED
    BY <2>1, <2>2 DEF ReadByte, ReadDone
<1>3. \/ InsideStep(p, "user", "wasleep")
      \/ InsideStep(p, "rcopy", "nobody") /\ i'[p] > 0
  <2>1. CASE ReadDone(p)
    BY <1>1, <2>1, MovesWaking DEF ReadDone, Return, InsideStep, Inside, Labels
  <2>2. CASE i' = [i EXCEPT ![p] = i[p] + 1] /\ UNCHANGED <<lk, pc, n>>
    <3>1. i'[p] > 0
      BY <2>2 DEF IInv, TypeOK
    <3>2. Moves(p, "rcopy", "nobody")
      BY <1>1, <2>2, Zenon DEF Moves, IInv, TypeOK, Labels, Inside
    <3> QED
      BY <1>1, <2>2, <3>1, <3>2 DEF InsideStep, Inside, Labels
  <2> QED
    BY <2>1, <2>2 DEF ReadByte
<1>4. /\ Holder' /\ Roles' /\ Ends' /\ lk' \in Proc \cup {None}
      /\ \A q \in Proc \ {p} : pc[q] \notin Inside /\ pc'[q] \notin Inside
  BY <1>3, InsideKeeps
<1>5. nread' \in 0 .. UINT - 1
  <2>1. nread + 1 \in Nat /\ nread \in 0 .. UINT - 1
    BY DEF IInv, TypeOK, PipeConstants
  <2>2. nread' = nread \/ nread' = (nread + 1) % UINT
    BY DEF ReadByte
  <2> QED
    <3>1. (nread + 1) % UINT \in 0 .. UINT - 1
      BY <2>1, Division DEF PipeConstants
    <3> QED
      BY <2>1, <2>2, <3>1
<1>6. /\ pc' \in [Proc -> Labels]
      /\ \/ pc'[p] = "rcopy" /\ i'[p] > 0 /\ \A q \in Proc \ {p} : pc'[q] = pc[q]
         \/ /\ pc'[p] = "user"
            /\ \A q \in Proc \ {p} : pc'[q] = IF pc[q] = "wasleep" THEN "lock" ELSE pc[q]
  BY <1>3, Zenon DEF InsideStep, Moves, IInv, TypeOK, Labels, Inside
<1> USE <1>1, <1>2, <1>4, <1>6 DEF IInv
<1>7. TypeOK'
  BY <1>5 DEF TypeOK
<1>8. Tested' /\ EndOfFile'
  BY DEF Tested, EndOfFile, Inside, Proc
<1>9. Sleepers'
  <2>1. ASSUME NEW q \in Proc, pc'[q] = "rasleep" PROVE writeopen' /\ (Empty' \/ cut')
    <3>1. pc[q] = "rasleep" /\ \A r \in Proc : ~Writing(r)
      BY <2>1 DEF Writing, Inside
    <3> QED
      BY <3>1 DEF Sleepers, Empty
  <2>2. ASSUME NEW q \in Proc, pc'[q] = "wasleep" PROVE readopen' /\ pc'[p] = "rcopy"
    BY <2>2 DEF Sleepers
  <2> QED
    BY <2>1, <2>2 DEF Sleepers
<1> QED
  BY <1>4, <1>7, <1>8, <1>9

-----------------------------------------------------------------------------
(* The steps of processes that do not hold pi->lock.                       *)

\* pipealloc() establishes the invariant.
LEMMA InitIInv == ASSUME PipeConstants, PipeInit PROVE IInv
<1> USE DEF PipeInit, PipeConstants
<1>1. (CHOOSE x \in Byte : TRUE) \in Byte
  OBVIOUS
<1>2. data \in [0 .. PIPESIZE - 1 -> Byte]
  BY <1>1
<1>3. killed \in [Proc -> BOOLEAN] /\ readopen \in BOOLEAN /\ writeopen \in BOOLEAN
      /\ freed \in BOOLEAN /\ cut \in BOOLEAN
  BY Zenon
<1>4. TypeOK
  BY <1>2, <1>3 DEF TypeOK, Labels
<1> QED
  BY <1>4 DEF IInv, Holder, Roles, Ends, Tested, Sleepers, EndOfFile, Inside

\* A call of read() or write().
LEMMA CallKeeps ==
  ASSUME PipeConstants, IInv, NEW p \in Proc, NEW k \in 0 .. MaxN, Call(p, k)
  PROVE  IInv'
<1> USE DEF IInv, Call, PipeConstants
<1>1. TypeOK'
  BY DEF TypeOK, Labels, pipe
<1>2. Holder' /\ Roles' /\ Ends' /\ Tested'
  BY DEF Holder, Roles, Ends, Tested, TypeOK, Inside, pipe, Empty
<1>3. Sleepers'
  <2>1. \A q \in Proc \ {p} : pc'[q] = pc[q]
    BY DEF TypeOK
  <2>2. pc[p] = "user" /\ pc'[p] = "lock" /\ UNCHANGED <<pipe, i, cut>>
    BY DEF TypeOK
  <2> HIDE DEF Call
  <2> QED
    BY <2>1, <2>2 DEF Sleepers, Writing, Empty, Full, pipe
<1>4. EndOfFile'
  BY DEF EndOfFile, TypeOK, Empty, pipe, Proc
<1> QED
  BY <1>1, <1>2, <1>3, <1>4

\* acquire(&pi->lock).
LEMMA AcquireKeeps == ASSUME PipeConstants, IInv, NEW p \in Proc, Acquire(p) PROVE IInv'
<1> DEFINE l == IF p \in Writer THEN "wtest" ELSE "rtest"
<1>1. /\ pc[p] = "lock" /\ lk = None /\ lk' = p /\ pc' = [pc EXCEPT ![p] = l]
      /\ UNCHANGED <<data, nread, nwrite, readopen, writeopen, freed, open, killed, i, n, cut>>
  BY DEF Acquire, pipe, calls
<1>2. \A q \in Proc : pc[q] \notin Inside
  BY <1>1 DEF IInv, Holder, PipeConstants
<1>3. pc'[p] = l /\ \A q \in Proc \ {p} : pc'[q] = pc[q]
  BY <1>1 DEF IInv, TypeOK
<1> USE <1>1, <1>2, <1>3 DEF IInv
<1>4. TypeOK'
  BY DEF TypeOK, Labels, Inside
<1>5. Holder' /\ Roles' /\ Ends' /\ Tested'
  BY DEF Holder, Roles, Ends, Tested, Inside, Empty, Proc
<1>6. Sleepers'
  BY DEF Sleepers, Writing, Empty, Full, Inside
<1>7. EndOfFile'
  BY DEF EndOfFile, Inside, Proc
<1> QED
  BY <1>4, <1>5, <1>6, <1>7

\* kill() makes a sleeper try again.
LEMMA KillKeeps == ASSUME PipeConstants, IInv, NEW p \in Proc, Kill(p) PROVE IInv'
<1>1. /\ \A q \in Proc \ {p} : pc'[q] = pc[q]
      /\ pc'[p] = IF pc[p] \in {"rasleep", "wasleep"} THEN "lock" ELSE pc[p]
      /\ pc' \in [Proc -> Labels]
      /\ UNCHANGED <<data, nread, nwrite, readopen, writeopen, lk, freed, open, i, n, cut>>
  BY DEF Kill, pipe, calls, IInv, TypeOK, Labels
<1>2. killed' \in [Proc -> BOOLEAN]
  BY DEF Kill, IInv, TypeOK
<1> USE <1>1 DEF IInv
<1>3. TypeOK'
  BY <1>2 DEF TypeOK
<1>4. Holder' /\ Roles' /\ Ends' /\ Tested'
  BY DEF Holder, Roles, Ends, Tested, Inside, Empty
<1>5. Sleepers'
  <2>1. \A q \in Proc : pc'[q] = pc[q] \/ (pc[q] \in {"rasleep", "wasleep"} /\ pc'[q] = "lock")
    OBVIOUS
  <2> QED
    BY <2>1 DEF Sleepers, Writing, Empty, Full
<1>6. EndOfFile'
  BY DEF EndOfFile, Empty, Proc
<1> QED
  BY <1>3, <1>4, <1>5, <1>6

\* The last pipeclose() of an end wakes those who wait for it, and the last of
\* both frees the pipe.
LEMMA CloseKeeps == ASSUME PipeConstants, IInv, NEW p \in Proc, Close(p) PROVE IInv'
<1>1. /\ pc[p] = "user" /\ p \in open /\ lk = None /\ open' = open \ {p}
      /\ UNCHANGED <<data, nread, nwrite, lk, killed, i, n, cut>>
  BY DEF Close, calls
<1>2. \A q \in Proc : pc[q] \notin Inside
  BY <1>1 DEF IInv, Holder, PipeConstants
<1>3. \/ pc' = pc /\ ~Last(p)
      \/ Last(p) /\ pc' = Wake(IF p \in Writer THEN "rasleep" ELSE "wasleep")
  BY DEF Close
<1>4. /\ pc' \in [Proc -> Labels] /\ pc'[p] = "user"
      /\ \A q \in Proc : pc'[q] = pc[q] \/ (pc'[q] = "lock" /\ pc[q] \in {"rasleep", "wasleep"})
  BY <1>1, <1>3 DEF Wake, IInv, TypeOK, Labels
<1>5. writeopen' \in BOOLEAN /\ readopen' \in BOOLEAN /\ freed' \in BOOLEAN
  BY Zenon DEF Close
<1>6. /\ \A q \in open' : IF q \in Writer THEN writeopen' ELSE readopen'
      /\ freed' => open' = {}
  <2>1. \A q \in open' : IF q \in Writer THEN writeopen' ELSE readopen'
    BY <1>1 DEF Close, Last, IInv, TypeOK, Ends, Proc, PipeConstants
  <2>2. freed' => freed \/ (~readopen' /\ ~writeopen')
    BY Zenon DEF Close, Freed
  <2>3. ~freed
    BY <1>1 DEF IInv, Ends
  <2> QED
    BY <2>1, <2>2, <2>3
<1> USE <1>1, <1>2, <1>4 DEF IInv
<1>7. TypeOK'
  BY <1>5 DEF TypeOK
<1>8. Holder' /\ Roles' /\ Ends' /\ Tested'
  BY <1>6 DEF Holder, Roles, Ends, Tested, Inside, PipeConstants
<1>9. Sleepers'
  <2>1. ASSUME NEW q \in Proc, pc'[q] = "rasleep" PROVE writeopen' /\ (Empty' \/ cut')
    <3>1. pc[q] = "rasleep" /\ writeopen /\ (Empty \/ cut)
      BY <2>1 DEF Sleepers, Writing, Inside
    <3>2. ~(Last(p) /\ p \in Writer)
      BY <1>3, <2>1, <3>1 DEF Wake
    <3>3. writeopen'
      BY <3>1, <3>2, Zenon DEF Close
    <3> QED
      BY <3>1, <3>3 DEF Empty
  <2>2. ASSUME NEW q \in Proc, pc'[q] = "wasleep" PROVE readopen' /\ Full'
    <3>1. pc[q] = "wasleep" /\ readopen /\ Full
      BY <2>2 DEF Sleepers, Inside
    <3>2. ~(Last(p) /\ p \in Reader)
      BY <1>3, <2>2, <3>1 DEF Wake, PipeConstants
    <3>3. readopen'
      BY <3>1, <3>2, Zenon DEF Close
    <3> QED
      BY <3>1, <3>3 DEF Full
  <2> QED
    BY <2>1, <2>2 DEF Sleepers
<1>10. EndOfFile'
  BY DEF EndOfFile, Inside, Proc
<1> QED
  BY <1>7, <1>8, <1>9, <1>10

\* Every step of pipe.c keeps the invariant.
LEMMA NextKeeps == ASSUME PipeConstants PROVE IInv /\ [PipeNext]_pipeVars => IInv'
<1> SUFFICES ASSUME IInv, [PipeNext]_pipeVars PROVE IInv'
  OBVIOUS
<1>1. CASE UNCHANGED pipeVars
  BY <1>1 DEF pipeVars, pipe, calls, IInv, TypeOK, Holder, Roles, Ends, Tested, Sleepers, EndOfFile,
              Writing, Empty, Full
<1>2. ASSUME NEW p \in Proc, NEW k \in 0 .. MaxN, Call(p, k) PROVE IInv'
  BY <1>2, CallKeeps
<1>3. ASSUME NEW p \in Proc, NEW x \in Byte, WriteByte(p, x) PROVE IInv'
  BY <1>3, WriteByteKeeps
<1>4. ASSUME NEW p \in Proc,
             \/ Acquire(p) \/ WriteTest(p) \/ WriteSleep(p) \/ WriteFault(p)
             \/ ReadTest(p) \/ ReadSleep(p) \/ ReadByte(p) \/ Close(p) \/ Kill(p)
      PROVE  IInv'
  BY <1>4, AcquireKeeps, WriteTestKeeps, WriteStopKeeps, ReadTestKeeps, ReadByteKeeps,
     CloseKeeps, KillKeeps
<1> QED
  BY <1>1, <1>2, <1>3, <1>4 DEF PipeNext

\* The invariant above holds always.
THEOREM Invariance == PipeSpec => []IInv
<1>1. PipeInit => IInv
  BY InitIInv, PipeAssumption
<1>2. IInv /\ [PipeNext]_pipeVars => IInv'
  BY NextKeeps, PipeAssumption
<1> QED
  BY <1>1, <1>2, PTL DEF PipeSpec

\* Nobody sleeps in piperead() or pipewrite() once what it waits for has happened,
\* but for the bytes that a killed pipewrite() has left behind.
THEOREM NobodyForgotten == PipeSpec => []NoLostWakeup
<1>1. IInv => NoLostWakeup
  BY FreeLock, PipeAssumption
<1> QED
  BY <1>1, Invariance, PTL

\* pipeclose() gives the pipe to kfree() only when no process can use it.
THEOREM FreedLast == PipeSpec => []NoUseAfterFree
<1>1. IInv => NoUseAfterFree
  BY FreedUnused, PipeAssumption
<1> QED
  BY <1>1, Invariance, PTL

\* piperead() of some bytes returns none only when no writer is left.
THEOREM NoEarlyEnd == PipeSpec => []EndOfFile
<1>1. IInv => EndOfFile
  BY DEF IInv
<1> QED
  BY <1>1, Invariance, PTL

-----------------------------------------------------------------------------
(* The ring is a FIFO.                                                     *)

\* Where the k-th byte is.
Place(k) == ((nread + k - 1) % UINT) % PIPESIZE

Ring == Count \in 0 .. PIPESIZE

\* The remainder of a number that has wrapped around once at most.
LEMMA Wrap ==
  ASSUME NEW U \in Nat \ {0}, NEW x \in Nat, x < U + U
  PROVE  x % U = IF x < U THEN x ELSE x - U
<1>1. CASE x < U
  <2>1. x = 0 * U + x
    OBVIOUS
  <2> QED
    BY <1>1, <2>1, Remainder
<1>2. CASE x >= U
  <2>1. x = 1 * U + (x - U) /\ x - U \in 0 .. U - 1
    BY <1>2
  <2> QED
    BY <1>2, <2>1, Remainder
<1> QED
  BY <1>1, <1>2

\* nread and nwrite tell the number of bytes although they wrap around.
LEMMA Counting ==
  ASSUME PipeConstants, TypeOK
  PROVE  /\ Count \in 0 .. UINT - 1
         /\ nwrite = (nread + Count) % UINT
         /\ Empty <=> Count = 0
         /\ Full <=> Count = PIPESIZE
<1>1. UINT \in Nat \ {0} /\ PIPESIZE \in Nat \ {0} /\ UINT > PIPESIZE
  BY DEF PipeConstants
<1>2. nread \in 0 .. UINT - 1 /\ nwrite \in 0 .. UINT - 1
  BY DEF TypeOK
<1>3. Count = IF nwrite < nread THEN nwrite + UINT - nread ELSE nwrite - nread
  <2>1. PICK x \in Nat : x = nwrite + UINT - nread /\ x < UINT + UINT
    BY <1>1, <1>2
  <2>2. x % UINT = IF x < UINT THEN x ELSE x - UINT
    BY <1>1, <2>1, Wrap
  <2> QED
    BY <1>1, <1>2, <2>1, <2>2 DEF Count
<1>4. Count \in 0 .. UINT - 1
  BY <1>1, <1>2, <1>3
<1>5. nwrite = (nread + Count) % UINT
  <2>1. PICK x \in Nat : x = nread + Count /\ x < UINT + UINT
    BY <1>1, <1>2, <1>4
  <2>2. x % UINT = IF x < UINT THEN x ELSE x - UINT
    BY <1>1, <2>1, Wrap
  <2> QED
    BY <1>1, <1>2, <1>3, <2>1, <2>2
<1>6. Empty <=> Count = 0
  BY <1>1, <1>2, <1>3 DEF Empty
<1>7. Full <=> Count = PIPESIZE
  <2>1. PICK x \in Nat : x = nread + PIPESIZE /\ x < UINT + UINT
    BY <1>1, <1>2
  <2>2. x % UINT = IF x < UINT THEN x ELSE x - UINT
    BY <1>1, <2>1, Wrap
  <2>3. Full <=> nwrite = x % UINT
    BY <2>1 DEF Full
  <2> QED
    BY <1>1, <1>2, <1>3, <2>1, <2>2, <2>3
<1> QED
  BY <1>4, <1>5, <1>6, <1>7

\* Putting a byte in counts one more, and taking one out one less.
LEMMA CountingSteps ==
  ASSUME PipeConstants, TypeOK
  PROVE  /\ Count < UINT - 1 => (((nwrite + 1) % UINT) + UINT - nread) % UINT = Count + 1
         /\ Count > 0 => (nwrite + UINT - ((nread + 1) % UINT)) % UINT = Count - 1
<1>1. UINT \in Nat \ {0}
  BY DEF PipeConstants
<1>2. nread \in 0 .. UINT - 1 /\ nwrite \in 0 .. UINT - 1
  BY DEF TypeOK
<1>3. Count = IF nwrite < nread THEN nwrite + UINT - nread ELSE nwrite - nread
  <2>1. PICK x \in Nat : x = nwrite + UINT - nread /\ x < UINT + UINT
    BY <1>1, <1>2
  <2>2. x % UINT = IF x < UINT THEN x ELSE x - UINT
    BY <1>1, <2>1, Wrap
  <2> QED
    BY <1>1, <1>2, <2>1, <2>2 DEF Count
<1>4. ASSUME NEW a \in 0 .. UINT - 1
      PROVE  (a + 1) % UINT = IF a + 1 < UINT THEN a + 1 ELSE 0
  <2>1. PICK x \in Nat : x = a + 1 /\ x < UINT + UINT
    BY <1>1
  <2>2. x % UINT = IF x < UINT THEN x ELSE x - UINT
    BY <1>1, <2>1, Wrap, Zenon
  <2> QED
    BY <1>1, <2>1, <2>2
<1>5. ASSUME NEW a \in 0 .. UINT - 1, NEW b \in 0 .. UINT - 1
      PROVE  (a + UINT - b) % UINT = IF a < b THEN a + UINT - b ELSE a - b
  <2>1. PICK x \in Nat : x = a + UINT - b /\ x < UINT + UINT
    BY <1>1
  <2>2. x % UINT = IF x < UINT THEN x ELSE x - UINT
    BY <1>1, <2>1, Wrap, Zenon
  <2> QED
    BY <1>1, <2>1, <2>2
<1>6. Count < UINT - 1 => (((nwrite + 1) % UINT) + UINT - nread) % UINT = Count + 1
  <2>1. PICK w \in 0 .. UINT - 1 : w = (nwrite + 1) % UINT /\ w = IF nwrite + 1 < UINT THEN nwrite + 1 ELSE 0
    BY <1>1, <1>2, <1>4
  <2>2. (w + UINT - nread) % UINT = IF w < nread THEN w + UINT - nread ELSE w - nread
    BY <1>2, <1>5
  <2> QED
    BY <1>1, <1>2, <1>3, <2>1, <2>2
<1>7. Count > 0 => (nwrite + UINT - ((nread + 1) % UINT)) % UINT = Count - 1
  <2>1. PICK w \in 0 .. UINT - 1 : w = (nread + 1) % UINT /\ w = IF nread + 1 < UINT THEN nread + 1 ELSE 0
    BY <1>1, <1>2, <1>4
  <2>2. (nwrite + UINT - w) % UINT = IF nwrite < w THEN nwrite + UINT - w ELSE nwrite - w
    BY <1>2, <1>5
  <2> QED
    BY <1>1, <1>2, <1>3, <2>1, <2>2
<1> QED
  BY <1>6, <1>7

\* The bytes are in the ring, and the next one goes beside them.
LEMMA Places ==
  ASSUME PipeConstants, TypeOK, Count \in 0 .. PIPESIZE
  PROVE  /\ \A k \in 1 .. PIPESIZE : Place(k) \in 0 .. PIPESIZE - 1
         /\ nwrite % PIPESIZE = Place(Count + 1)
         /\ Count < PIPESIZE => \A k \in 1 .. Count : Place(k) # nwrite % PIPESIZE
<1>1. /\ UINT \in Nat \ {0} /\ PIPESIZE \in Nat \ {0} /\ UINT % PIPESIZE = 0
      /\ nread \in Nat /\ Count \in Nat
  BY DEF PipeConstants, TypeOK
<1>2. ASSUME NEW k \in Nat \ {0} PROVE Place(k) = (nread + k - 1) % PIPESIZE
  <2>1. nread + k - 1 \in Nat
    BY <1>1
  <2> QED
    BY <1>1, <2>1, ModMod, Zenon DEF Place
<1>3. \A k \in 1 .. PIPESIZE : Place(k) \in 0 .. PIPESIZE - 1
  <2> SUFFICES ASSUME NEW k \in 1 .. PIPESIZE PROVE Place(k) \in 0 .. PIPESIZE - 1
    OBVIOUS
  <2>1. PICK x \in Nat : x = nread + k - 1 /\ k \in Nat \ {0}
    BY <1>1
  <2>2. x % PIPESIZE \in 0 .. PIPESIZE - 1
    BY <1>1, Division
  <2> QED
    BY <1>2, <2>1, <2>2
<1>4. nwrite % PIPESIZE = Place(Count + 1)
  <2>1. nread + (Count + 1) - 1 = nread + Count
    BY <1>1
  <2> QED
    BY <2>1, Counting DEF Place
<1>5. ASSUME Count < PIPESIZE, NEW k \in 1 .. Count PROVE Place(k) # Place(Count + 1)
  <2>1. PICK x \in Nat : x = nread + k - 1
    BY <1>1
  <2>2. PICK y \in Nat : y = nread + (Count + 1) - 1
    BY <1>1
  <2>3. x < y /\ y < x + PIPESIZE
    BY <1>1, <1>5, <2>1, <2>2
  <2>4. x % PIPESIZE # y % PIPESIZE
    BY <1>1, <2>3, ModApart, Zenon
  <2> QED
    BY <1>1, <1>2, <2>1, <2>2, <2>4
<1> QED
  BY <1>3, <1>4, <1>5

\* The queue is a sequence of the bytes at their places.
LEMMA QueueIs ==
  ASSUME PipeConstants, TypeOK, Ring
  PROVE  /\ Queue \in Seq(Byte) /\ Len(Queue) = Count
         /\ \A k \in 1 .. Count : Queue[k] = data[Place(k)]
<1>1. Count \in Nat /\ \A k \in 1 .. Count : data[Place(k)] \in Byte
  BY Places DEF TypeOK, Ring, PipeConstants
<1>2. Queue = [k \in 1 .. Count |-> data[Place(k)]]
  BY DEF Queue, Place
<1>3. Queue \in [1 .. Count -> Byte]
  BY <1>1, <1>2
<1>4. Queue \in Seq(Byte)
  BY <1>1, <1>3, SeqDef
<1>5. Len(Queue) = Count
  BY <1>1, <1>3, <1>4, LenProperties
<1> QED
  BY <1>2, <1>4, <1>5, Zenon

\* pipewrite() appends its byte.
LEMMA WriteBytePuts ==
  ASSUME PipeConstants, IInv, IInv', Ring, NEW p \in Proc, NEW x \in Byte, WriteByte(p, x)
  PROVE  F!Put(x) /\ Ring'
<1>1. TypeOK /\ TypeOK' /\ PIPESIZE \in Nat /\ UINT \in Nat /\ UINT > PIPESIZE
  BY DEF IInv, PipeConstants
<1>2. /\ data' = [data EXCEPT ![nwrite % PIPESIZE] = x] /\ nwrite' = (nwrite + 1) % UINT
      /\ nread' = nread /\ readopen' = readopen /\ writeopen' = writeopen
  BY DEF WriteByte
<1>3. writeopen
  BY DEF WriteByte, IInv, Roles, Ends, Inside
<1>4. Count \in 0 .. PIPESIZE - 1
  BY <1>1, Counting DEF WriteByte, Ring
<1>5. Count' = Count + 1
  BY <1>1, <1>2, <1>4, CountingSteps DEF Count
<1>6. Ring'
  BY <1>1, <1>4, <1>5 DEF Ring
<1>7. /\ Queue \in Seq(Byte) /\ Len(Queue) = Count
      /\ \A k \in 1 .. Count : Queue[k] = data[Place(k)]
  BY <1>1, QueueIs
<1>8. /\ Queue' \in Seq(Byte) /\ Len(Queue') = Count + 1
      /\ \A k \in 1 .. Count + 1 : Queue'[k] = data'[Place(k)]
  <2>1. (PipeConstants /\ TypeOK /\ Ring =>
          /\ Queue \in Seq(Byte) /\ Len(Queue) = Count
          /\ \A k \in 1 .. Count : Queue[k] = data[Place(k)])'
    BY QueueIs, PTL
  <2>2. \A k : Place(k)' = Place(k)
    BY <1>2 DEF Place
  <2> QED
    BY <1>1, <1>5, <1>6, <2>1, <2>2
<1>9. /\ nwrite % PIPESIZE = Place(Count + 1)
      /\ nwrite % PIPESIZE \in 0 .. PIPESIZE - 1
      /\ \A k \in 1 .. Count : Place(k) # nwrite % PIPESIZE /\ Place(k) \in 0 .. PIPESIZE - 1
  BY <1>1, <1>4, Places DEF Ring
<1>10. /\ \A k \in 1 .. Count : Queue'[k] = Queue[k]
       /\ Queue'[Count + 1] = x
  <2>1. data \in [0 .. PIPESIZE - 1 -> Byte]
    BY <1>1 DEF TypeOK
  <2>2. PICK at \in 0 .. PIPESIZE - 1 : at = nwrite % PIPESIZE
    BY <1>9
  <2>3. data'[at] = x /\ \A k \in 1 .. Count : data'[Place(k)] = data[Place(k)]
    BY <1>2, <1>9, <2>1, <2>2
  <2>4. Count + 1 \in 1 .. Count + 1 /\ \A k \in 1 .. Count : k \in 1 .. Count + 1
    BY <1>4
  <2> QED
    BY <1>7, <1>8, <1>9, <2>2, <2>3, <2>4
<1>11. Queue' = Append(Queue, x)
  <2>1. /\ Append(Queue, x) \in Seq(Byte) /\ Len(Append(Queue, x)) = Count + 1
        /\ Append(Queue, x)[Count + 1] = x
        /\ \A k \in 1 .. Count : Append(Queue, x)[k] = Queue[k]
    BY <1>7, AppendProperties
  <2>2. \A k \in 1 .. Len(Queue') : Queue'[k] = Append(Queue, x)[k]
    BY <1>4, <1>8, <1>10, <2>1
  <2> QED
    BY <1>8, <2>1, <2>2, SeqEqual, Zenon
<1> QED
  <2>1. Len(Queue) < PIPESIZE
    BY <1>1, <1>4, <1>7
  <2> QED
    BY <1>2, <1>3, <1>6, <1>11, <2>1, Zenon DEF F!Put

\* piperead() takes the first byte.
LEMMA ReadByteGets ==
  ASSUME PipeConstants, IInv, IInv', Ring, NEW p \in Proc, ReadByte(p), nread' # nread
  PROVE  F!Get /\ Ring'
<1>1. /\ TypeOK /\ TypeOK' /\ PIPESIZE \in Nat \ {0} /\ UINT \in Nat \ {0} /\ UINT > PIPESIZE
      /\ UINT % PIPESIZE = 0
  BY DEF IInv, PipeConstants
<1>2. /\ nread' = (nread + 1) % UINT /\ ~Empty
      /\ UNCHANGED <<data, nwrite, readopen, writeopen>>
  BY DEF ReadByte
<1>3. readopen
  <2>1. pc[p] = "rcopy"
    BY DEF ReadByte
  <2>2. p \in Reader /\ p \in open
    BY <2>1 DEF IInv, Roles
  <2> QED
    BY <2>2 DEF IInv, Ends, PipeConstants
<1>4. Count \in 1 .. PIPESIZE
  BY <1>1, <1>2, Counting DEF Ring
<1>5. Count' = Count - 1
  <2>1. (nwrite + UINT - ((nread + 1) % UINT)) % UINT = Count - 1
    BY <1>1, <1>4, CountingSteps
  <2> QED
    BY <1>2, <2>1 DEF Count
<1>6. Ring'
  BY <1>1, <1>4, <1>5 DEF Ring
<1>7. /\ Queue \in Seq(Byte) /\ Len(Queue) = Count
      /\ \A k \in 1 .. Count : Queue[k] = data[Place(k)]
  BY <1>1, QueueIs
<1>8. /\ Queue' \in Seq(Byte) /\ Len(Queue') = Count - 1
      /\ \A k \in 1 .. Count - 1 : Queue'[k] = data[Place(k)']
  <2>1. (PipeConstants /\ TypeOK /\ Ring =>
          /\ Queue \in Seq(Byte) /\ Len(Queue) = Count
          /\ \A k \in 1 .. Count : Queue[k] = data[Place(k)])'
    BY QueueIs, PTL
  <2> QED
    BY <1>1, <1>2, <1>5, <1>6, <2>1
<1>9. ASSUME NEW k \in 1 .. Count - 1 PROVE Place(k)' = Place(k + 1)
  <2>1. PICK x \in Nat : x = nread + 1
    BY <1>1 DEF TypeOK
  <2>2. PICK y \in Nat : y = k - 1
    BY <1>4
  <2>3. ((x % UINT) + y) % UINT = (x + y) % UINT
    BY <1>1, ModAdd, Zenon
  <2>4. nread' = x % UINT /\ nread' \in Nat
    BY <1>1, <1>2, <2>1 DEF TypeOK
  <2>5. nread' + k - 1 = (x % UINT) + y
    BY <1>4, <2>2, <2>4
  <2>6. nread + (k + 1) - 1 = x + y
    BY <1>1, <1>4, <2>1, <2>2 DEF TypeOK
  <2> QED
    BY <2>3, <2>5, <2>6 DEF Place
<1>10. Queue # <<>>
  BY <1>4, <1>7, EmptySeq
<1>11. Queue' = Tail(Queue)
  <2>1. /\ Tail(Queue) \in Seq(Byte) /\ Len(Tail(Queue)) = Count - 1
        /\ \A k \in 1 .. Count - 1 : Tail(Queue)[k] = Queue[k + 1]
    BY <1>7, <1>10, HeadTailProperties
  <2>2. ASSUME NEW k \in 1 .. Count - 1 PROVE Queue'[k] = Tail(Queue)[k]
    <3>1. k + 1 \in 1 .. Count
      BY <1>4
    <3> QED
      BY <1>7, <1>8, <1>9, <2>1, <3>1
  <2> QED
    BY <1>8, <2>1, <2>2, SeqEqual
<1> QED
  BY <1>2, <1>3, <1>6, <1>10, <1>11 DEF F!Get

\* The other steps move no byte.
LEMMA QuietSteps ==
  ASSUME UNCHANGED <<data, nread, nwrite>>, Ring
  PROVE  Queue' = Queue /\ Ring'
BY DEF Queue, Count, Ring

\* Every step is one of the FIFO's or leaves it alone.
LEMMA NextRefines ==
  ASSUME PipeConstants, IInv, IInv', Ring, [PipeNext]_pipeVars
  PROVE  [F!Next]_(F!vars) /\ Ring'
<1>1. CASE UNCHANGED pipe
  BY <1>1, QuietSteps DEF pipe, F!vars
<1>2. ASSUME NEW p \in Proc, NEW x \in Byte, WriteByte(p, x)
      PROVE  [F!Next]_(F!vars) /\ Ring'
  BY <1>2, WriteBytePuts DEF F!Next
<1>3. ASSUME NEW p \in Proc, ReadByte(p)
      PROVE  [F!Next]_(F!vars) /\ Ring'
  <2>1. CASE nread' # nread
    BY <1>3, <2>1, ReadByteGets DEF F!Next
  <2>2. CASE nread' = nread
    BY <1>1, <1>3, <2>2 DEF ReadByte, pipe
  <2> QED
    BY <2>1, <2>2
<1>4. ASSUME NEW p \in Proc, Close(p)
      PROVE  [F!Next]_(F!vars) /\ Ring'
  <2>1. Queue' = Queue /\ Ring'
    BY <1>4, QuietSteps DEF Close
  <2>2. CASE Last(p)
    <3>1. CASE p \in Writer
      <4>1. writeopen' = FALSE
        BY <1>4, <2>2, <3>1, Zenon DEF Close
      <4>2. readopen' = readopen
        <5>1. p \notin Reader
          BY <3>1 DEF PipeConstants
        <5>2. readopen \in BOOLEAN
          BY DEF IInv, TypeOK
        <5> QED
          BY <1>4, <5>1, <5>2 DEF Close
      <4> QED
        BY <2>1, <4>1, <4>2 DEF F!Next, F!CloseWrite
    <3>2. CASE p \in Reader
      <4>1. readopen' = FALSE
        BY <1>4, <2>2, <3>2, Zenon DEF Close
      <4>2. writeopen' = writeopen
        <5>1. p \notin Writer
          BY <3>2 DEF PipeConstants
        <5>2. writeopen \in BOOLEAN
          BY DEF IInv, TypeOK
        <5> QED
          BY <1>4, <5>1, <5>2 DEF Close
      <4> QED
        BY <2>1, <4>1, <4>2 DEF F!Next, F!CloseRead
    <3> QED
      BY <3>1, <3>2 DEF Proc
  <2>3. CASE ~Last(p)
    <3>1. writeopen' = writeopen /\ readopen' = readopen
      BY <1>4, <2>3 DEF Close, IInv, TypeOK
    <3> QED
      BY <2>1, <3>1 DEF F!vars
  <2> QED
    BY <2>2, <2>3
<1>5. ASSUME PipeNext PROVE [F!Next]_(F!vars) /\ Ring'
  <2>1. PICK p \in Proc :
          \/ \E k \in 0 .. MaxN : Call(p, k)
          \/ Acquire(p)
          \/ WriteTest(p) \/ WriteSleep(p) \/ WriteFault(p)
          \/ \E x \in Byte : WriteByte(p, x)
          \/ ReadTest(p) \/ ReadSleep(p) \/ ReadByte(p)
          \/ Close(p) \/ Kill(p)
    BY <1>5 DEF PipeNext
  <2>2. CASE UNCHANGED pipe
    BY <1>1, <2>2
  <2>3. CASE ~UNCHANGED pipe
    <3>1. (\E x \in Byte : WriteByte(p, x)) \/ ReadByte(p) \/ Close(p)
      BY <2>1, <2>3, Zenon DEF Call, Acquire, WriteTest, WriteSleep, WriteFault, ReadTest, ReadSleep, Kill
    <3> QED
      BY <1>2, <1>3, <1>4, <3>1
  <2> QED
    BY <2>2, <2>3
<1> QED
  BY <1>1, <1>5 DEF pipeVars, pipe

\* The pipe starts as an empty FIFO.
LEMMA InitRefines == ASSUME PipeConstants, PipeInit PROVE F!Init /\ Ring
<1>1. TypeOK
  BY InitIInv DEF IInv
<1>2. Count = 0
  BY <1>1, Counting DEF PipeInit, Empty
<1>3. Ring
  BY <1>2 DEF Ring, PipeConstants
<1>4. Queue \in Seq(Byte) /\ Len(Queue) = 0
  BY <1>1, <1>2, <1>3, QueueIs
<1>5. Queue = <<>>
  BY <1>4, EmptySeq
<1> QED
  BY <1>3, <1>5 DEF PipeInit, F!Init

\* Bytes come out of a pipe as they went in, each once, and at most PIPESIZE are
\* inside, whatever the sizes of the ring and of its counters are: pipewrite()
\* and piperead() implement a bounded FIFO.
THEOREM PipeIsFifo == PipeSpec => ImplementsFifo
<1>1. PipeInit => F!Init /\ Ring
  BY InitRefines, PipeAssumption
<1>2. IInv /\ IInv' /\ Ring /\ [PipeNext]_pipeVars => [F!Next]_(F!vars) /\ Ring'
  BY NextRefines, PipeAssumption
<1> QED
  BY <1>1, <1>2, Invariance, PTL DEF PipeSpec, ImplementsFifo, F!Spec
=============================================================================
