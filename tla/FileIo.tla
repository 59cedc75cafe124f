-------------------------------- MODULE FileIo --------------------------------
(***************************************************************************)
(* fileread(), filewrite() and fileclose() of kernel/file.c: what a call   *)
(* on a descriptor does depends on f->type, which is set when the file is  *)
(* opened and never changes.  Processes that share a file are in Pipe, in  *)
(* Console or in FileData; those modules have nothing else in common.      *)
(***************************************************************************)
EXTENDS Pipe

CONSTANTS
  ConsReader, ConsWriter, Intr, ReadN,         \* see Console
  INPUT_BUF_SIZE, UART_TX_BUF_SIZE,
  InodeProc, SIZE, BSIZE, NDIRECT, BPB, MAXOPBLOCKS, \* see FileData
  ReadCounts, Counts, Faults, Image, MaxWrites

VARIABLES
  type,  \* f->type; the pipe's variables are those of Pipe
  buf, r, w, e, conslk, tx, txlk, rhr, thr, txirq, h, st,
  fs, file, call, writes, shadow, overfull

C == INSTANCE Console WITH Reader <- ConsReader, Writer <- ConsWriter, lk <- conslk
D == INSTANCE FileData WITH Proc <- InodeProc

device == <<buf, r, w, e, conslk, tx, txlk, rhr, thr, txirq, h, st>>
inode  == <<fs, file, call, writes, shadow, overfull>>
vars   == <<type, pipeVars, device, inode>>

\* The ring's size divides the range of its indices.  mkfs leaves a hole at the
\* end of a root directory whose entries fill its blocks: they must not.
ASSUME FileIoAssumption ==
  /\ ConsReader \cap ConsWriter = {} /\ {None, Intr} \cap (ConsReader \cup ConsWriter) = {}
  /\ None # Intr
  /\ {INPUT_BUF_SIZE, UART_TX_BUF_SIZE, SIZE, BSIZE, BPB} \subseteq Nat \ {0}
  /\ UINT % INPUT_BUF_SIZE = 0 /\ UINT > INPUT_BUF_SIZE
  /\ {NDIRECT, MAXOPBLOCKS, MaxWrites} \cup Faults \subseteq Nat
  /\ ReadN \cup ReadCounts \cup Counts \subseteq Nat \ {0}
  /\ Len(D!RootEntries) % BSIZE # 0

Init ==
  /\ type \in {"FD_PIPE", "FD_DEVICE", "FD_INODE"}
  /\ PipeInit /\ C!Init /\ D!Init

PipeStep   == type = "FD_PIPE"   /\ PipeNext /\ UNCHANGED <<type, device, inode>>
DeviceStep == type = "FD_DEVICE" /\ C!Next /\ UNCHANGED <<type, pipeVars, inode>>
InodeStep  == type = "FD_INODE"  /\ D!Next /\ UNCHANGED <<type, pipeVars, device>>

Next == PipeStep \/ DeviceStep \/ InodeStep

Spec == Init /\ [][Next]_vars

-----------------------------------------------------------------------------
\* consoleread() and consoleintr(): the ring is a line discipline, see Console.
ImplementsLineDiscipline == C!ImplementsLineDiscipline

\* Whoever sleeps in consoleread() or uartputc() has to: see Console.
NoSleeperForgotten == type = "FD_DEVICE" => C!NoSleeperForgotten

\* uartstart(), uartputc_sync() and uartintr() lose no transmit interrupt: see
\* Console.
OutputNeverStuck == type = "FD_DEVICE" => C!OutputNeverStuck

\* readi() gives what writei() was given: see FileData.
ReadsWhatWasWritten == type = "FD_INODE" => D!ReadsWhatWasWritten

\* balloc(), bmap(), itrunc() and mkfs leave every block one owner, and no file a
\* hole: see FileData.
BlocksOwned == type = "FD_INODE" => D!BlocksOwned

\* filewrite() stays within what begin_op() reserves: see FileData.
WriteFitsTransaction == type = "FD_INODE" => D!WriteFitsTransaction
=============================================================================
