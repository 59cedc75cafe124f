------------------------------- MODULE FileData -------------------------------
(***************************************************************************)
(* The contents of files: block allocation, the block map of an inode,     *)
(* readi(), writei() and itrunc() of kernel/fs.c, fileread() and           *)
(* filewrite() of kernel/file.c, on the image that mkfs/mkfs.c makes.      *)
(*                                                                         *)
(* A block is BSIZE cells.  A cell holds a byte of a file, an entry of a   *)
(* directory, or a block number of an indirect block: what a block was     *)
(* used for earlier can be taken for any of them.  What happens under      *)
(* ip->lock is one step; filewrite() releases it between its transactions. *)
(***************************************************************************)
EXTENDS Naturals, Sequences, FiniteSets, FiniteSetsExt, TLC

CONSTANTS
  Proc, None,
  SIZE,        \* blocks of the disk; block 0 stands for all that mkfs counts in nmeta
  BSIZE,       \* cells of a block, NINDIRECT as well
  NDIRECT,
  BPB,         \* blocks that a block of the bitmap describes
  MAXOPBLOCKS,
  ReadCounts,  \* the values of n in read()
  Counts,      \* and in write()
  Faults,      \* how many cells copyin() has copied when it fails
  Image,       \* the cells of the file that mkfs is given
  MaxWrites    \* bound: calls of write()

ROOTINO == 1
File    == {2, 3}   \* the file of the image, and one made later
Inode   == {ROOTINO} \cup File
MAXFILE == NDIRECT + BSIZE
Blocks  == 0 .. SIZE - 1
Zero    == [k \in 0 .. BSIZE - 1 |-> 0]

\* The entries that mkfs makes in the root directory: ".", ".." and the file.
RootEntries == <<1, 1, 2>>

VARIABLES
  fs,      \* the disk and what memory holds of it, see Disk
  file,    \* struct file of each process: ip and off, or None
  call,    \* the filewrite() of each process: how much is left, and what it writes
  writes,  \* calls of write() so far
  shadow,  \* what a reader may find in each cell of a file (auxiliary)
  overfull \* some transaction wrote more than MAXOPBLOCKS blocks (auxiliary)

vars == <<fs, file, call, writes, shadow, overfull>>

\* bits are the blocks marked in the bitmap, disk what is written through the log
\* and data the same blocks in the buffer cache, dino the inodes on disk and ino
\* in memory.  log are the blocks of the current transaction, ret and end results.
Disk(d, i) == [bits |-> {0}, disk |-> d, data |-> d, dino |-> i, ino |-> i,
               log |-> {}, ret |-> 0, end |-> 0, torn |-> 0]

NoInode == [size |-> 0, addrs |-> [k \in 0 .. NDIRECT |-> 0]]

-----------------------------------------------------------------------------
(* Blocks.                                                                 *)

\* log_write() of block b with new contents.
LogWrite(s, b, c) ==
  [s EXCEPT !.data[b] = c, !.disk[b] = c, !.log = @ \cup {<<"block", b>>}]

Bzero(s, b) == LogWrite(s, b, Zero)

\* The lowest free block, zeroed, or 0.
Balloc(s) ==
  IF Blocks \subseteq s.bits THEN [s EXCEPT !.ret = 0]
  ELSE LET b == Min(Blocks \ s.bits)
       IN [Bzero([s EXCEPT !.bits = @ \cup {b}, !.log = @ \cup {<<"bitmap", b \div BPB>>}], b)
             EXCEPT !.ret = b]

Bfree(s, bs) ==
  [s EXCEPT !.bits = @ \ bs, !.log = @ \cup {<<"bitmap", b \div BPB>> : b \in bs}]

Iupdate(s, i) == [s EXCEPT !.dino[i] = s.ino[i], !.log = @ \cup {<<"inode", i>>}]

\* The block of ip->addrs[k], allocated if there is none.
Slot(s, i, k) ==
  IF s.ino[i].addrs[k] # 0 THEN [s EXCEPT !.ret = s.ino[i].addrs[k]]
  ELSE LET t == Balloc(s) IN [t EXCEPT !.ino[i].addrs[k] = t.ret]

\* Block bn of inode i; ret is 0 when the disk is full.
Bmap(s, i, bn) ==
  IF bn < NDIRECT THEN Slot(s, i, bn)
  ELSE LET t == Slot(s, i, NDIRECT)
           b == t.ret
           k == bn - NDIRECT
       IN IF b = 0 THEN t
          ELSE IF t.data[b][k] # 0 THEN [t EXCEPT !.ret = t.data[b][k]]
          ELSE LET u == Balloc(t)
               IN IF u.ret = 0 THEN u ELSE LogWrite(u, b, [u.data[b] EXCEPT ![k] = u.ret])

\* The indirect block of i and the blocks it lists.
Indirect(s, i) == LET b == s.ino[i].addrs[NDIRECT] IN
  IF b = 0 THEN {} ELSE {b} \cup ({s.data[b][k] : k \in 0 .. BSIZE - 1} \ {0})

Itrunc(s, i) ==
  LET direct == {s.ino[i].addrs[k] : k \in 0 .. NDIRECT - 1} \ {0}
  IN Iupdate([Bfree(s, direct \cup Indirect(s, i)) EXCEPT !.ino[i] = NoInode], i)

-----------------------------------------------------------------------------
(* readi() and writei().                                                   *)

\* The loop of readi(): the cells found so far in got.
RECURSIVE ReadFrom(_, _, _, _, _)
ReadFrom(s, i, off, n, got) ==
  IF n = 0 THEN [s |-> s, got |-> got]
  ELSE LET t == Bmap(s, i, off \div BSIZE)
           m == Min({n, BSIZE - (off % BSIZE)})
       IN IF t.ret = 0 THEN [s |-> t, got |-> got]
          ELSE ReadFrom(t, i, off + m, n - m,
                 got \o [k \in 1 .. m |-> t.data[t.ret][(off % BSIZE) + k - 1]])

Readi(s, i, off, n) ==
  IF off > s.ino[i].size THEN [s |-> s, got |-> <<>>]
  ELSE ReadFrom(s, i, off, Min({n, s.ino[i].size - off}), <<>>)

\* What fstat() says is the size of the file.
Stati(s, i) == s.ino[i].size

\* A block with v in its m cells from k on.
Patch(c, k, m, v) == [j \in k .. k + m - 1 |-> v] @@ c

\* The loop of writei(): it ends at n = 0, when the disk is full, or at a fault of
\* copyin() after lim cells.  Those that copyin() has put into the buffer by then
\* stay there, and are not logged.
RECURSIVE WriteFrom(_, _, _, _, _, _)
WriteFrom(s, i, off, n, v, lim) ==
  IF n = 0 THEN [s EXCEPT !.end = off, !.torn = 0]
  ELSE LET t == Bmap(s, i, off \div BSIZE)
           b == t.ret
           k == off % BSIZE
           m == Min({n, BSIZE - k})
       IN IF b = 0 THEN [t EXCEPT !.end = off, !.torn = 0]
          ELSE IF lim < m
            THEN [t EXCEPT !.end = off, !.torn = lim, !.data[b] = Patch(@, k, lim, v)]
          ELSE WriteFrom(LogWrite(t, b, Patch(t.data[b], k, m, v)),
                         i, off + m, n - m, v, lim - m)

\* Mutant: only a new size is written back.
IupdateIfGrown(s, i) == IF s.ino[i].size = s.dino[i].size THEN s ELSE Iupdate(s, i)

\* The end of writei(): "write the i-node back to disk even if the size didn't
\* change".
WriteBack(s, i) == Iupdate(s, i)

\* writei() fails at once if it starts past the end or would end past MAXFILE.
Rejected(s, i, off, n) == off > s.ino[i].size \/ off + n > MAXFILE * BSIZE

\* Mutant: the file ends where the last write did.
NewSizeEnd(size, end) == end

\* A write may extend the file.
NewSize(size, end) == Max({size, end})

Writei(s, i, off, n, v, lim) ==
  LET t == WriteFrom(s, i, off, n, v, lim)
  IN WriteBack([t EXCEPT !.ino[i].size = NewSize(@, t.end)], i)

-----------------------------------------------------------------------------
(* mkfs.                                                                   *)

\* iappend() of one cell; freeblock++ is the lowest block not yet in bits.
Iappend(s, i, v) ==
  LET off == s.ino[i].size
      t   == Bmap(s, i, off \div BSIZE)
  IN Iupdate([LogWrite(t, t.ret, Patch(t.data[t.ret], off % BSIZE, 1, v))
                EXCEPT !.ino[i].size = off + 1], i)

RECURSIVE IappendAll(_, _, _)
IappendAll(s, i, vs) == IF vs = <<>> THEN s ELSE IappendAll(Iappend(s, i, Head(vs)), i, Tail(vs))

\* "fix size of root inode dir".
RootSize(off) == (off \div BSIZE + 1) * BSIZE

Mkfs ==
  LET empty == Disk([b \in Blocks |-> Zero], [i \in Inode |-> NoInode])
      full  == IappendAll(IappendAll(empty, ROOTINO, RootEntries), 2, Image)
  IN [Iupdate([full EXCEPT !.ino[ROOTINO].size = RootSize(@)], ROOTINO)
        EXCEPT !.log = {}, !.ret = 0]

Init ==
  /\ fs = Mkfs
  /\ file = [p \in Proc |-> None]
  /\ call = [p \in Proc |-> None]
  /\ writes = 0
  /\ shadow = [i \in File |-> IF i = 2 THEN [k \in 1 .. Len(Image) |-> {Image[k]}] ELSE <<>>]
  /\ overfull = FALSE

-----------------------------------------------------------------------------
(* The system calls.  p is in no call of filewrite().                      *)

Idle(p) == call[p] = None

\* ilock() reads the inode if no one has it: ip->valid is 0.
Ilock(s, i) == IF \E p \in Proc : file[p] # None /\ file[p].ip = i THEN s
               ELSE [s EXCEPT !.ino[i] = s.dino[i]]

\* Results of operators that the state does not keep.
Clean(s) == [s EXCEPT !.log = {}, !.ret = 0, !.end = 0, !.torn = 0]

\* end_op() of a transaction that left s.
EndOp(s) == fs' = Clean(s) /\ overfull' = (overfull \/ Cardinality(s.log) > MAXOPBLOCKS)

\* sys_open(), with or without O_TRUNC.
Open(p, i, trunc) ==
  /\ Idle(p) /\ file[p] = None
  /\ LET s == Ilock(fs, i) IN EndOp(IF trunc THEN Itrunc(s, i) ELSE s)
  /\ file' = [file EXCEPT ![p] = [ip |-> i, off |-> 0]]
  /\ shadow' = IF trunc THEN [shadow EXCEPT ![i] = <<>>] ELSE shadow
  /\ UNCHANGED <<call, writes>>

Close(p) ==
  /\ Idle(p) /\ file[p] # None
  /\ file' = [file EXCEPT ![p] = None]
  /\ UNCHANGED <<fs, call, writes, shadow, overfull>>

\* fileread() of n cells; copyout() may fail, and then the offset stays.
Read(p, n) ==
  /\ Idle(p) /\ file[p] # None
  /\ LET r == Readi(fs, file[p].ip, file[p].off, n)
     IN /\ fs' = Clean(r.s)
        /\ file' = [file EXCEPT ![p].off = @ + Len(r.got)]
  /\ UNCHANGED <<call, writes, shadow, overfull>>

\* filewrite() begins.  Each call writes cells of its own.
Write(p, n) ==
  /\ Idle(p) /\ file[p] # None /\ file[p].ip \in File /\ writes < MaxWrites
  /\ writes' = writes + 1
  /\ call' = [call EXCEPT ![p] = [left |-> n, v |-> writes + 1]]
  /\ UNCHANGED <<fs, file, shadow, overfull>>

\* Mutant: five blocks at a time.
FiveBlocks == (MAXOPBLOCKS \div 2) * BSIZE

\* How much filewrite() writes in one transaction.
MaxWrite == ((MAXOPBLOCKS - 1 - 1 - 2) \div 2) * BSIZE

\* What readers may find when r cells of v have been written at off and torn more
\* are in a buffer only: the old contents come back when the buffer is recycled,
\* or the new ones stay when someone else logs the block.
Shadow(sh, off, r, torn, v) ==
  [k \in 1 .. Max({Len(sh), off + r}) |->
     IF k > off /\ k <= off + r THEN {v}
     ELSE IF k > off + r /\ k <= off + r + torn THEN sh[k] \cup {v}
     ELSE sh[k]]

\* One transaction of filewrite().  It goes on unless writei() fell short.
Chunk(p, lim) ==
  LET i  == file[p].ip
      c  == call[p]
      n  == Min({c.left, MaxWrite})
      s  == Writei(fs, i, file[p].off, n, c.v, lim)
      r  == s.end - file[p].off
  IN /\ c # None /\ UNCHANGED writes
     /\ IF Rejected(fs, i, file[p].off, n)
        THEN /\ lim = MaxWrite
             /\ call' = [call EXCEPT ![p] = None]
             /\ UNCHANGED <<fs, file, shadow, overfull>>
        ELSE /\ EndOp(s)
             /\ file' = [file EXCEPT ![p].off = s.end]
             /\ call' = [call EXCEPT ![p] = IF r # n \/ n = c.left THEN None
                                            ELSE [c EXCEPT !.left = @ - n]]
             /\ shadow' = [shadow EXCEPT ![i] = Shadow(@, file[p].off, r, s.torn, c.v)]

\* The buffer cache recycles the buffer of a block that is not in the log.
Recycle(b) ==
  /\ fs.data[b] # fs.disk[b]
  /\ fs' = [fs EXCEPT !.data[b] = fs.disk[b]]
  /\ UNCHANGED <<file, call, writes, shadow, overfull>>

Next ==
  \/ \E p \in Proc :
       \/ \E i \in File, trunc \in BOOLEAN : Open(p, i, trunc)
       \/ Close(p)
       \/ \E n \in ReadCounts : Read(p, n)
       \/ \E n \in Counts : Write(p, n)
       \/ \E lim \in Faults \cup {MaxWrite} : Chunk(p, lim)
  \/ \E b \in Blocks : Recycle(b)

Spec == Init /\ [][Next]_vars

-----------------------------------------------------------------------------
\* A file is the sequence of cells that writes have put into it since it was last
\* truncated, whatever blocks it has, whatever they held before, wherever the disk
\* was full or copyin() failed, and whoever else writes.  Only the cells of a failed
\* copyin(), less than a block of them, may be either the old or the new ones.
ReadsWhatWasWritten ==
  \A i \in File :
    LET got == Readi(fs, i, 0, Stati(fs, i)).got
    IN Len(got) = Len(shadow[i]) /\ \A k \in DOMAIN got : got[k] \in shadow[i][k]

\* The blocks of an inode on disk: those of its map, and the indirect block.
Places(i) ==
  LET a   == fs.dino[i].addrs
      ind == a[NDIRECT]
  IN {<<i, k>> : k \in {j \in 0 .. NDIRECT : a[j] # 0}}
     \cup (IF ind = 0 THEN {}
           ELSE {<<i, NDIRECT + 1 + k>> : k \in {j \in 0 .. BSIZE - 1 : fs.disk[ind][j] # 0}})

At(w) == LET a == fs.dino[w[1]].addrs IN
  IF w[2] <= NDIRECT THEN a[w[2]] ELSE fs.disk[a[NDIRECT]][w[2] - NDIRECT - 1]

\* After every transaction the disk is consistent: a block is marked in the bitmap
\* exactly if it is metadata or some inode's, no block has two owners, and no file
\* has a hole below its size.  So bfree() never panics, nothing leaks when a write
\* stops half way, and fileread(), which runs outside transactions, never allocates.
BlocksOwned ==
  LET places == UNION {Places(i) : i \in Inode} IN
  /\ fs.bits = {0} \cup {At(w) : w \in places}
  /\ Cardinality(fs.bits) = 1 + Cardinality(places)
  /\ \A i \in Inode : \A bn \in 0 .. MAXFILE - 1 :
       bn * BSIZE < fs.dino[i].size => <<i, IF bn < NDIRECT THEN bn ELSE bn + 1>> \in places

\* No transaction of filewrite() or open() writes more blocks than begin_op()
\* reserves: data, bitmap, indirect block and inode together.
WriteFitsTransaction == ~overfull
=============================================================================
