------------------------------- MODULE Console --------------------------------
(***************************************************************************)
(* kernel/console.c and kernel/uart.c: processes that read and write the   *)
(* console, the interrupt handler, and the UART.                           *)
(*                                                                         *)
(* The PLIC gives the UART's interrupt to one CPU at a time, so there is   *)
(* one handler; it runs beside processes on other CPUs.  What is done      *)
(* under one lock is one step, except where the code looks at something    *)
(* that others change without that lock: p->killed and the UART.  sleep()  *)
(* and wakeup() are the atomic ones of Monitor.                            *)
(***************************************************************************)
EXTENDS Naturals, Sequences, FiniteSetsExt, TLC

CONSTANTS
  Reader, Writer,   \* processes that call consoleread() and consolewrite()
  None, Intr,       \* Intr is the interrupt handler as the holder of a lock
  INPUT_BUF_SIZE,
  UINT,             \* values of a uint: 2^32 in the kernel
  UART_TX_BUF_SIZE,
  ReadN             \* the values of n in read()

Proc == Reader \cup Writer

\* Characters, with what ends a line, and keys that are not stored as they are.
Char == {"x", "nl", "eof"}
Ends == {"nl", "eof"}
Key  == Char \cup {"cr", "erase", "kill", "nul"}

VARIABLES
  buf, r, w, e,  \* struct cons
  lk,            \* the holder of cons.lock
  tx,            \* uart_tx_w - uart_tx_r, the characters in uart_tx_buf
  txlk,          \* the holder of uart_tx_lock
  rhr,           \* the UART: it has received a key,
  thr,           \*   characters on their way out,
  txirq,         \*   and its interrupt for an empty transmitter
  h,             \* the handler: where it is, its key, what it still has to echo
  st             \* each process: where it is, n, characters done, p->killed

cons == <<buf, r, w, e>>
uart == <<rhr, thr, txirq>>
vars == <<cons, lk, tx, txlk, uart, h, st>>
Init ==
  /\ buf = [k \in 0 .. INPUT_BUF_SIZE - 1 |-> "x"] /\ r = 0 /\ w = 0 /\ e = 0
  /\ lk = None /\ tx = 0 /\ txlk = None
  /\ rhr = FALSE /\ thr = 0 /\ txirq = FALSE
  /\ h = [at |-> "off", c |-> None, echo |-> 0]
  /\ st = [p \in Proc |-> [at |-> "user", n |-> 0, i |-> 0, killed |-> FALSE]]

\* Process p, or the handler, goes on with the fields of f changed.
Go(p, f)   == st' = [st EXCEPT ![p] = f @@ @]
Handler(f) == h' = f @@ h

\* A call returns.  A killed process exits then, and another takes its place.
Return(p) == Go(p, [at |-> "user", n |-> 0, i |-> 0, killed |-> FALSE])

\* wakeup() of the processes of ps that sleep: they go on to acquire the lock.
Woken(s, ps) == [p \in Proc |-> IF p \in ps /\ s[p].at = "asleep" THEN [s[p] EXCEPT !.at = "lock"] ELSE s[p]]

\* The distance of two indices, as uint.
From(a, b) == (b + UINT - a) % UINT

-----------------------------------------------------------------------------
(* The UART.                                                               *)

\* A key is pressed, and the receiver is empty.  Which key it is does not matter
\* before uartgetc().
Type ==
  /\ ~rhr
  /\ rhr' = TRUE
  /\ UNCHANGED <<cons, lk, tx, txlk, thr, txirq, h, st>>

\* A character has been sent.  The UART interrupts when that was the last.
Sent ==
  /\ thr > 0
  /\ thr' = thr - 1
  /\ txirq' = (thr = 1)
  /\ UNCHANGED <<cons, lk, tx, txlk, rhr, h, st>>

\* WriteReg(THR): the FIFO takes it, and the transmitter's interrupt goes.
WriteTHR == thr' = thr + 1 /\ txirq' = FALSE

\* ReadReg(ISR): it clears the transmitter's interrupt unless it reports a key.
ReadISR == txirq' = (txirq /\ rhr) /\ UNCHANGED thr

-----------------------------------------------------------------------------
(* Output.                                                                 *)

\* Mutant: an idle transmitter is left to its interrupt.
StartsWhenBusy == thr = 0 /\ txirq

\* uartstart() finds LSR_TX_IDLE.
Idle == thr = 0

\* wakeup(&uart_tx_r).
Room == Woken(st, Writer)

\* The loop of uartstart() takes a character.
StartSend ==
  /\ tx > 0 /\ Idle
  /\ tx' = tx - 1
  /\ st' = Room
  /\ WriteTHR
  /\ UNCHANGED <<cons, lk, txlk, rhr, h>>

\* It ends because there is nothing to send, or nothing can be sent now.
StartEnd ==
  /\ IF tx = 0 THEN ReadISR ELSE ~Idle /\ UNCHANGED <<thr, txirq>>
  /\ txlk' = None
  /\ UNCHANGED <<cons, lk, tx, rhr>>

\* consolewrite() calls uartputc() for each character that copyin() gives it; the
\* next character is the next call here.
CallWrite(p) ==
  /\ p \in Writer /\ st[p].at = "user"
  /\ Go(p, [at |-> "lock"])
  /\ UNCHANGED <<cons, lk, tx, txlk, uart, h>>

\* uartputc() has uart_tx_lock, and sleeps or stores the character.
Putc(p) ==
  /\ p \in Writer /\ st[p].at = "lock" /\ txlk = None
  /\ IF tx = UART_TX_BUF_SIZE
     THEN Go(p, [at |-> "asleep"]) /\ UNCHANGED <<tx, txlk>>
     ELSE Go(p, [at |-> "start"]) /\ tx' = tx + 1 /\ txlk' = p
  /\ UNCHANGED <<cons, lk, uart, h>>

PutcSend(p) == p \in Writer /\ st[p].at = "start" /\ StartSend

PutcEnd(p) == p \in Writer /\ st[p].at = "start" /\ StartEnd /\ Return(p) /\ UNCHANGED h

-----------------------------------------------------------------------------
(* uartintr() and consoleintr().                                           *)

Irq ==
  /\ h.at = "off" /\ (rhr \/ txirq)
  /\ Handler([at |-> "in"])
  /\ UNCHANGED <<cons, lk, tx, txlk, uart, st>>

\* uartgetc() has no more keys.
NoKey ==
  /\ h.at = "in" /\ ~rhr
  /\ Handler([at |-> "out"])
  /\ UNCHANGED <<cons, lk, tx, txlk, uart, st>>

\* Mutant: the erase keys go on into what readers may already have.
LineAll == From(r, e)

\* How much of the line can be erased.
Line == From(w, e)

\* How much Control-U erases: back to a newline.
KillCount ==
  Max({k \in 0 .. Line : \A j \in 1 .. k : buf[((e + UINT - j) % UINT) % INPUT_BUF_SIZE] # "nl"})

Erased(k) == CASE k = "kill" -> KillCount [] k = "erase" -> Min({1, Line}) [] OTHER -> 0

\* A key that is stored; '\r' is stored as '\n'.
Stored(k) == IF k = "cr" THEN "nl" ELSE k

\* uartgetc() of key k, and consoleintr() up to its echo, which stands for the three
\* characters that erase one.  A key is dropped if the ring is full.
Getc(k) ==
  /\ h.at = "in" /\ rhr /\ lk = None
  /\ lk' = Intr
  /\ rhr' = FALSE
  /\ IF k \in Char \cup {"cr"} /\ From(r, e) < INPUT_BUF_SIZE
     THEN Handler([at |-> "echo", c |-> Stored(k), echo |-> 1]) /\ UNCHANGED e
     ELSE Handler([at |-> "echo", c |-> None, echo |-> Erased(k)]) /\ e' = (e + UINT - Erased(k)) % UINT
  /\ UNCHANGED <<buf, r, w, tx, txlk, thr, txirq, st>>

\* uartputc_sync() has found LSR_TX_IDLE.
EchoWait ==
  /\ h.at = "echo" /\ h.echo > 0 /\ thr = 0
  /\ Handler([at |-> "put"])
  /\ UNCHANGED <<cons, lk, tx, txlk, uart, st>>

\* It writes THR, whatever uartstart() has done on another CPU since.
EchoPut ==
  /\ h.at = "put"
  /\ WriteTHR
  /\ Handler([at |-> "echo", echo |-> h.echo - 1])
  /\ UNCHANGED <<cons, lk, tx, txlk, rhr, st>>

\* The key ends a line, or the ring is full with it.
LineOver == h.c \in Ends \/ From(r, e) + 1 = INPUT_BUF_SIZE

\* Mutant: readers are not woken.
ReadyNone == st

\* wakeup(&cons.r).
Ready == Woken(st, Reader)

\* The rest of consoleintr().
Store ==
  /\ h.at = "echo" /\ h.echo = 0
  /\ lk' = None
  /\ Handler([at |-> "in", c |-> None])
  /\ IF h.c = None THEN UNCHANGED <<buf, w, e, st>>
     ELSE /\ buf' = [buf EXCEPT ![e % INPUT_BUF_SIZE] = h.c]
          /\ e' = (e + 1) % UINT
          /\ IF LineOver THEN w' = e' /\ st' = Ready ELSE UNCHANGED <<w, st>>
  /\ UNCHANGED <<r, tx, txlk, uart>>

Out ==
  /\ h.at = "out" /\ txlk = None
  /\ txlk' = Intr
  /\ Handler([at |-> "start"])
  /\ UNCHANGED <<cons, lk, tx, uart, st>>

OutSend == h.at = "start" /\ StartSend

OutEnd == h.at = "start" /\ StartEnd /\ Handler([at |-> "off"]) /\ UNCHANGED st
-----------------------------------------------------------------------------
(* Input.                                                                  *)

\* read() of n characters.
CallRead(p, n) ==
  /\ p \in Reader /\ st[p].at = "user"
  /\ Go(p, [at |-> "lock", n |-> n])
  /\ UNCHANGED <<cons, lk, tx, txlk, uart, h>>

\* acquire(&cons.lock), on entry and at the end of sleep().
ReadLock(p) ==
  /\ p \in Reader /\ st[p].at = "lock" /\ lk = None
  /\ lk' = p
  /\ Go(p, [at |-> "test"])
  /\ UNCHANGED <<cons, tx, txlk, uart, h>>

\* Nothing to read: consoleread() looks at p->killed.
ReadWait(p) ==
  /\ p \in Reader /\ st[p].at = "test" /\ r = w
  /\ IF st[p].killed THEN Return(p) /\ lk' = None
     ELSE Go(p, [at |-> "sleep"]) /\ UNCHANGED lk
  /\ UNCHANGED <<cons, tx, txlk, uart, h>>

ReadSleep(p) ==
  /\ p \in Reader /\ st[p].at = "sleep"
  /\ lk' = None
  /\ Go(p, [at |-> "asleep"])
  /\ UNCHANGED <<cons, tx, txlk, uart, h>>

\* A character is taken; an end-of-file that comes after others is left for the
\* next call.  The last one, a newline, and copyout() when it fails end the call.
ReadChar(p) ==
  LET c == buf[r % INPUT_BUF_SIZE]
      i == st[p].i + 1
  IN
  /\ p \in Reader /\ st[p].at = "test" /\ r # w
  /\ r' = IF c = "eof" /\ st[p].i > 0 THEN r ELSE (r + 1) % UINT
  /\ \/ c # "eof" /\ c # "nl" /\ i < st[p].n /\ Go(p, [i |-> i]) /\ UNCHANGED lk
     \/ Return(p) /\ lk' = None
  /\ UNCHANGED <<buf, w, e, tx, txlk, uart, h>>

\* kill() of p.  uartputc() does not look at p->killed: it goes back to sleep.
Kill(p) ==
  /\ ~st[p].killed /\ st[p].at # "user"
  /\ st' = Woken([st EXCEPT ![p].killed = p \in Reader], {p})
  /\ UNCHANGED <<cons, lk, tx, txlk, uart, h>>

-----------------------------------------------------------------------------
Interrupt == Irq \/ NoKey \/ (\E k \in Key : Getc(k)) \/ EchoWait \/ EchoPut \/ Store \/ Out \/ OutSend \/ OutEnd

Run(p) == Putc(p) \/ PutcSend(p) \/ PutcEnd(p)
          \/ ReadLock(p) \/ ReadWait(p) \/ ReadSleep(p) \/ ReadChar(p)

Next ==
  \/ Type \/ Sent \/ Interrupt
  \/ \E p \in Proc : Run(p) \/ Kill(p)
                    \/ CallWrite(p) \/ \E n \in ReadN : CallRead(p, n)

Spec == Init /\ [][Next]_vars

-----------------------------------------------------------------------------
Ring(a, b) == [k \in 1 .. From(a, b) |-> buf[((a + k - 1) % UINT) % INPUT_BUF_SIZE]]

L == INSTANCE LineDiscipline WITH
       Size <- INPUT_BUF_SIZE, ready <- Ring(r, w), line <- Ring(w, e)

\* The ring with its three wrapping indices is a line discipline: readers get what
\* was typed, in order and once, erasing never reaches what a reader may take, a
\* full ring is handed over, and an end-of-file put back is the next to be read.
ImplementsLineDiscipline == L!Spec

\* Nobody sleeps on a condition that has come true: with cons.lock free a reader
\* asleep has nothing to read, with uart_tx_lock free a writer asleep has no room.
NoSleeperForgotten ==
  /\ lk = None => \A p \in Reader : st[p].at = "asleep" => r = w
  /\ txlk = None => \A p \in Writer : st[p].at = "asleep" => tx = UART_TX_BUF_SIZE

\* No transmit interrupt is lost between uartstart(), which gives up when the UART
\* is busy, uartputc_sync(), which takes the UART without the lock, and the read of
\* ISR: with uart_tx_lock free, characters left in the buffer will be sent, because
\* the UART is still busy or has an interrupt pending, or the handler is on its way.
OutputNeverStuck ==
  tx > 0 /\ txlk = None => thr > 0 \/ txirq \/ h.at # "off"
=============================================================================
