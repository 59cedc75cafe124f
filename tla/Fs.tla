---------------------------------- MODULE Fs ----------------------------------
(***************************************************************************)
(* kernel/fs.c above the block level, and the system calls of              *)
(* kernel/sysfile.c that change the tree: the inode table, directories,    *)
(* path names, and open, mkdir, mknod, link, unlink, chdir, close.         *)
(*                                                                         *)
(* A system call is a transaction of Log.  What a process does while it    *)
(* holds an inode's sleep-lock is one step, cut where it asks for another  *)
(* lock.  iget() searches and fills the table in one step under            *)
(* itable.lock, so that an inode has at most one entry, and the table is   *)
(* indexed by the inode's number; it is taken to be large enough.          *)
(***************************************************************************)
EXTENDS Naturals, Sequences, FiniteSets, TLC

CONSTANTS
  Proc, None,
  Inum,   \* the inodes of the disk
  Name,   \* names other than "." and ".."
  Request \* the calls: [op, w, w2], where a path is [abs : BOOLEAN, names : a sequence]

ROOTINO == 1
Nil     == 0
Dots    == {".", ".."}

ASSUME FsAssumption ==
  Inum \subseteq Nat \ {Nil} /\ ROOTINO \in Inum /\ Dots \cap Name = {} /\ None \notin Proc

VARIABLES
  disk,    \* struct dinode: type, nlink and, of a directory, its entries
  ref,     \* ip->ref of the table's entry, 0 if there is none
  mem,     \* ip->type and ip->nlink, or None if ip->valid is 0
  lock,    \* the holder of ip->lock
  st,      \* the state of each process
  misused  \* a removed directory has been used to find or to name an inode

fs   == <<disk, ref, mem, lock>>
vars == <<fs, st, misused>>

Free == [type |-> "free", nlink |-> 0, ents |-> <<>>]

\* The entries of a new directory.
Dir(self, parent) == [n \in Dots |-> IF n = "." THEN self ELSE parent]

\* A process: its directory and its open file, and where it is in a system call
\* on path w (and w2 for link) with the pointers ip, dp and lp, sys_link()'s ip.
\* The inodes of puts are those whose iput() comes next; freed says that the
\* first of them is free on disk and its reference is still to be dropped.
User(c, f) == [cwd |-> c, file |-> f, pc |-> "user", op |-> "none",
               path |-> <<>>, to |-> None, name |-> None,
               ip |-> Nil, dp |-> Nil, lp |-> Nil, puts |-> <<>>, freed |-> FALSE]

\* The file system of mkfs, and processes that userinit() and fork() have left
\* in the root directory.
Init ==
  /\ disk = [i \in Inum |-> IF i = ROOTINO
               THEN [type |-> "dir", nlink |-> 1, ents |-> Dir(i, i)] ELSE Free]
  /\ ref = [i \in Inum |-> IF i = ROOTINO THEN Cardinality(Proc) ELSE 0]
  /\ mem = [i \in Inum |-> None]
  /\ lock = [i \in Inum |-> None]
  /\ st = [p \in Proc |-> User(ROOTINO, Nil)]
  /\ misused = FALSE

\* Process p goes on with the fields of r changed.
Go(p, r) == st' = [st EXCEPT ![p] = r @@ @]

\* Its call ends with the iput() of the inodes of s, and end_op().
End(p, s) == st' = [st EXCEPT ![p] = [User(@.cwd, @.file) EXCEPT !.puts = s]]

-----------------------------------------------------------------------------
(* The inode table.                                                        *)

\* What ilock() finds: the copy in memory, or else the one on disk.
Loaded(i) == IF mem[i] # None THEN mem[i]
             ELSE [type |-> disk[i].type, nlink |-> disk[i].nlink]

\* iget() or idup().
Iget(i) == ref' = [ref EXCEPT ![i] = @ + 1]

\* The inode whose lock p asks for next, or Nil.
Wants(p) ==
  LET s == st[p] IN
  CASE s.puts # <<>> -> Nil
    [] s.pc \in {"walk", "open", "chdir", "link", "found", "init", "unlink"} -> s.ip
    [] s.pc = "parent" -> s.dp
    [] s.pc = "bad"    -> s.lp
    [] OTHER           -> Nil

\* ilock() by p at the label.  It panics on a free inode ("ilock: no type"), and
\* the machine stops there.
Ilock(p, label) ==
  /\ st[p].pc = label /\ Wants(p) # Nil
  /\ lock[Wants(p)] = None /\ Loaded(Wants(p)).type # "free"

\* ilock(), and the iunlock() that follows it with nothing written.
Read(i) == mem' = [mem EXCEPT ![i] = Loaded(i)] /\ UNCHANGED <<disk, lock>>

\* iupdate() of i with the given number of links.
Iupdate(i, nlink) ==
  /\ mem'  = [mem EXCEPT ![i] = [Loaded(i) EXCEPT !.nlink = nlink]]
  /\ disk' = [disk EXCEPT ![i].nlink = nlink]

\* Mutant: iput() frees an inode that others still use.
LastOfSeveral(i) == mem[i] # None /\ mem[i].nlink = 0

\* iput() finds that the inode has no links and no other references.
LastRef(i) == ref[i] = 1 /\ mem[i] # None /\ mem[i].nlink = 0

\* iput() frees the inode under its lock, with itrunc() and iupdate().
IputFree(p) ==
  /\ st[p].puts # <<>> /\ ~st[p].freed
  /\ LET i == Head(st[p].puts) IN
       /\ LastRef(i) /\ lock[i] = None
       /\ disk' = [disk EXCEPT ![i] = Free]
       /\ mem' = [mem EXCEPT ![i] = None]
  /\ Go(p, [freed |-> TRUE])
  /\ UNCHANGED <<ref, lock, misused>>

\* iput() drops the reference.  What a table entry without references holds is
\* never read: iget() clears ip->valid.
IputDrop(p) ==
  /\ st[p].puts # <<>>
  /\ LET i == Head(st[p].puts) IN
       /\ st[p].freed \/ ~LastRef(i)
       /\ ref' = [ref EXCEPT ![i] = @ - 1]
       /\ mem' = [mem EXCEPT ![i] = IF ref[i] = 1 THEN None ELSE @]
  /\ Go(p, [puts |-> Tail(st[p].puts), freed |-> FALSE])
  /\ UNCHANGED <<disk, lock, misused>>

-----------------------------------------------------------------------------
(* Path names.                                                             *)

\* Where namex() starts.
From(p, w) == IF w.abs THEN ROOTINO ELSE st[p].cwd

\* dirlookup() of n in directory d: an inode, or Nil.
Dirlookup(d, n) == IF n \in DOMAIN disk[d].ents THEN disk[d].ents[n] ELSE Nil

\* The entries of directory d after dirlink().
Dirlink(d, n, i) == disk[d].ents @@ (n :> i)

\* The calls that look for the directory of the path's last element.
Nameiparent(o) == o \in {"creat", "mkdir", "mknod", "unlink"}
Parent(p) == Nameiparent(st[p].op) \/ st[p].lp # Nil

\* A call up to the iget() or idup() at the start of namex().
Call(p, r) ==
  LET o == r.op  w == r.w IN
  /\ st[p].pc = "user" /\ st[p].puts = <<>>
  /\ o \in {"open", "creat"} => st[p].file = Nil
  /\ Iget(From(p, w))
  /\ IF w.names = <<>> /\ Nameiparent(o)
     THEN End(p, <<From(p, w)>>)
     ELSE Go(p, [op |-> o, path |-> w.names, to |-> r.w2, ip |-> From(p, w),
                 pc |-> IF w.names = <<>> THEN o ELSE "walk"])
  /\ UNCHANGED <<disk, mem, lock, misused>>

\* A lookup fails: the call ends or, in link(), takes the link back.
Failed(p, s) == IF st[p].lp = Nil THEN End(p, s)
                ELSE Go(p, [pc |-> "bad", ip |-> Nil, dp |-> Nil, path |-> <<>>, puts |-> s])

\* Mutant: namex() returns without iput().
GiveUpLeak(p) == <<>>

\* The iput() of a namex() that finds no directory or no entry.
GiveUp(p) == <<st[p].ip>>

\* One iteration of namex()'s loop, with dirlookup().
Walk(p) ==
  /\ Ilock(p, "walk")
  /\ Read(st[p].ip)
  /\ LET i == st[p].ip  n == Head(st[p].path)  rest == Tail(st[p].path) IN
     IF Loaded(i).type = "dir" /\ Parent(p) /\ rest = <<>>
     THEN /\ Go(p, [pc |-> "parent", dp |-> i, ip |-> Nil, name |-> n, path |-> <<>>])
          /\ UNCHANGED <<ref, misused>>
     ELSE IF Loaded(i).type # "dir" \/ Dirlookup(i, n) = Nil
     THEN /\ Failed(p, GiveUp(p))
          /\ UNCHANGED <<ref, misused>>
     ELSE LET next == Dirlookup(i, n) IN
          /\ Iget(next)
          /\ Go(p, [ip |-> next, puts |-> <<i>>, path |-> rest,
                    pc |-> IF rest = <<>> THEN st[p].op ELSE "walk"])
          /\ misused' = (misused \/ disk[next].nlink = 0)

-----------------------------------------------------------------------------
(* open(), chdir(), close().                                               *)

\* The end of sys_open(), when the puts so far are s: filealloc() or fdalloc()
\* may fail.
Opened(p, s) ==
  \/ st' = [st EXCEPT ![p] = [User(@.cwd, @.ip) EXCEPT !.puts = s]]
  \/ End(p, Append(s, st[p].ip))

\* sys_open() without O_CREATE.  It also fails for a directory that is not
\* opened O_RDONLY.
Open(p) ==
  /\ Ilock(p, "open")
  /\ Read(st[p].ip)
  /\ Opened(p, <<>>)
  /\ UNCHANGED <<ref, misused>>

\* sys_chdir(), up to the iput() of the old directory.
Chdir(p) ==
  /\ Ilock(p, "chdir")
  /\ Read(st[p].ip)
  /\ IF Loaded(st[p].ip).type # "dir"
     THEN End(p, <<st[p].ip>>)
     ELSE Go(p, [pc |-> "setcwd", cwd |-> Nil, puts |-> <<st[p].cwd>>])
  /\ UNCHANGED <<ref, misused>>

SetCwd(p) ==
  /\ st[p].pc = "setcwd" /\ st[p].puts = <<>>
  /\ st' = [st EXCEPT ![p] = User(@.ip, @.file)]
  /\ UNCHANGED <<fs, misused>>

\* fileclose() of the last descriptor.
Close(p) ==
  /\ st[p].pc = "user" /\ st[p].puts = <<>> /\ st[p].file # Nil
  /\ Go(p, [file |-> Nil, puts |-> <<st[p].file>>])
  /\ UNCHANGED <<fs, misused>>

-----------------------------------------------------------------------------
(* link() and unlink().                                                    *)

\* sys_link() up to the start of nameiparent(new).
Link(p) ==
  LET i == st[p].ip  new == st[p].to IN
  /\ Ilock(p, "link")
  /\ IF Loaded(i).type = "dir"
     THEN /\ Read(i)
          /\ End(p, <<i>>)
          /\ UNCHANGED ref
     ELSE /\ Iupdate(i, Loaded(i).nlink + 1)
          /\ Iget(From(p, new))
          /\ Go(p, [lp |-> i, path |-> new.names] @@
                   IF new.names # <<>> THEN [pc |-> "walk", ip |-> From(p, new)]
                   ELSE [pc |-> "bad", ip |-> Nil, puts |-> <<From(p, new)>>])
          /\ UNCHANGED lock
  /\ UNCHANGED misused

\* The rest of sys_link(): dirlink() fails when the name exists or, with a full
\* disk, when the directory cannot grow.
LinkName(p) ==
  LET s == st[p] IN
  /\ Ilock(p, "parent") /\ s.op = "link"
  /\ mem' = [mem EXCEPT ![s.dp] = Loaded(s.dp)]
  /\ \/ /\ Dirlookup(s.dp, s.name) = Nil
        /\ disk' = [disk EXCEPT ![s.dp].ents = Dirlink(s.dp, s.name, s.lp)]
        /\ End(p, <<s.dp, s.lp>>)
        /\ misused' = (misused \/ Loaded(s.dp).nlink = 0)
     \/ /\ Failed(p, <<s.dp>>)
        /\ UNCHANGED <<disk, misused>>
  /\ UNCHANGED <<ref, lock>>

\* sys_link() takes the link back.
LinkBad(p) ==
  LET i == st[p].lp IN
  /\ Ilock(p, "bad")
  /\ Iupdate(i, Loaded(i).nlink - 1)
  /\ End(p, <<i>>)
  /\ UNCHANGED <<ref, lock, misused>>

\* Mutant: any name can be unlinked.
AnyName(n) == FALSE

\* sys_unlink() refuses "." and "..".
CannotUnlink(n) == n \in Dots

\* sys_unlink() up to the ilock() of the inode that goes.
Unlink(p) ==
  LET s == st[p]  i == Dirlookup(s.dp, s.name) IN
  /\ Ilock(p, "parent") /\ s.op = "unlink"
  /\ mem' = [mem EXCEPT ![s.dp] = Loaded(s.dp)]
  /\ IF CannotUnlink(s.name) \/ i = Nil
     THEN /\ End(p, <<s.dp>>)
          /\ UNCHANGED <<ref, lock>>
     ELSE /\ lock' = [lock EXCEPT ![s.dp] = p]
          /\ Iget(i)
          /\ Go(p, [pc |-> "unlink", ip |-> i])
  /\ UNCHANGED <<disk, misused>>

\* Mutant: directories are not looked into.
NotAsked(i) == TRUE

\* isdirempty().
IsDirEmpty(i) == DOMAIN disk[i].ents = Dots

\* sys_unlink() with both locks, until it has given back the directory's.
UnlinkEntry(p) ==
  LET s == st[p]  i == s.ip  d == s.dp
      dir == Loaded(i).type = "dir"
      k == IF dir THEN mem[d].nlink - 1 ELSE mem[d].nlink IN
  /\ Ilock(p, "unlink") /\ Loaded(i).nlink > 0
  /\ IF dir /\ ~IsDirEmpty(i)
     THEN /\ mem' = [mem EXCEPT ![i] = Loaded(i)]
          /\ lock' = [lock EXCEPT ![d] = None]
          /\ End(p, <<i, d>>)
          /\ UNCHANGED disk
     ELSE /\ mem' = [mem EXCEPT ![i] = Loaded(i), ![d].nlink = k]
          /\ disk' = [disk EXCEPT
               ![d].nlink = k,
               ![d].ents = [n \in DOMAIN @ \ {s.name} |-> @[n]]]
          /\ lock' = [lock EXCEPT ![d] = None, ![i] = p]
          /\ Go(p, [pc |-> "unlinked", dp |-> Nil, puts |-> <<d>>])
  /\ UNCHANGED <<ref, misused>>

\* Mutant: sys_unlink() ends with iput() in place of iunlockput().
KeepLock(i) == lock

\* The locks after the iunlock() of i.
Unlock(i) == [lock EXCEPT ![i] = None]

\* The end of sys_unlink().
Unlinked(p) ==
  LET i == st[p].ip IN
  /\ st[p].pc = "unlinked" /\ st[p].puts = <<>>
  /\ Iupdate(i, mem[i].nlink - 1)
  /\ lock' = Unlock(i)
  /\ End(p, <<i>>)
  /\ UNCHANGED <<ref, misused>>

-----------------------------------------------------------------------------
(* create(), for open(O_CREATE), mkdir() and mknod().                      *)

\* create() up to ialloc(), or to the ilock() of the inode that exists.
Create(p) ==
  LET s == st[p]  i == Dirlookup(s.dp, s.name) IN
  /\ Ilock(p, "parent") /\ s.op \in {"creat", "mkdir", "mknod"}
  /\ mem' = [mem EXCEPT ![s.dp] = Loaded(s.dp)]
  /\ IF i # Nil
     THEN /\ Iget(i)
          /\ Go(p, [pc |-> "found", ip |-> i, dp |-> Nil, puts |-> <<s.dp>>])
          /\ misused' = (misused \/ disk[i].nlink = 0)
          /\ UNCHANGED lock
     ELSE /\ lock' = [lock EXCEPT ![s.dp] = p]
          /\ Go(p, [pc |-> "ialloc"])
          /\ UNCHANGED <<ref, misused>>
  /\ UNCHANGED disk

\* The name exists: only open() can go on, with a file.
Found(p) ==
  /\ Ilock(p, "found")
  /\ Read(st[p].ip)
  /\ IF st[p].op = "creat" /\ Loaded(st[p].ip).type = "file"
     THEN Opened(p, <<>>)
     ELSE End(p, <<st[p].ip>>)
  /\ UNCHANGED <<ref, misused>>

\* The type that sys_mkdir() has create() give the inode, or sys_mknod() and open().
\* A device differs from a file only in what read and write do.
Type(op) == IF op = "mkdir" THEN "dir" ELSE "file"

\* ialloc() marks the first free inode, or finds none.
Ialloc(p) ==
  LET s == st[p]  free == {i \in Inum : disk[i].type = "free"} IN
  /\ s.pc = "ialloc"
  /\ IF free = {}
     THEN /\ lock' = [lock EXCEPT ![s.dp] = None]
          /\ End(p, <<s.dp>>)
          /\ UNCHANGED disk
     ELSE LET i == CHOOSE j \in free : \A k \in free : j <= k IN
          /\ disk' = [disk EXCEPT ![i].type = Type(s.op)]
          /\ Go(p, [pc |-> "iget", ip |-> i])
          /\ UNCHANGED lock
  /\ UNCHANGED <<ref, mem, misused>>

\* The iget() that ends ialloc().
IallocGet(p) ==
  /\ st[p].pc = "iget"
  /\ Iget(st[p].ip)
  /\ Go(p, [pc |-> "init"])
  /\ UNCHANGED <<disk, mem, lock, misused>>

\* The link that a new directory's ".." makes to its parent.
DotDotLinks(p) == IF st[p].op = "mkdir" THEN 1 ELSE 0

\* create() with both inodes locked, and the end of the calls.
CreateInit(p) ==
  LET s == st[p]  i == s.ip  d == s.dp  k == mem[d].nlink + DotDotLinks(p) IN
  /\ Ilock(p, "init")
  /\ mem' = [mem EXCEPT ![i] = [Loaded(i) EXCEPT !.nlink = 1], ![d].nlink = k]
  /\ disk' = [disk EXCEPT
       ![i].nlink = 1,
       ![i].ents = IF s.op = "mkdir" THEN Dir(i, d) ELSE <<>>,
       ![d].nlink = k,
       ![d].ents = Dirlink(d, s.name, i)]
  /\ lock' = [lock EXCEPT ![d] = None]
  /\ misused' = (misused \/ mem[d].nlink = 0)
  /\ IF s.op = "creat" THEN Opened(p, <<d>>)
     ELSE End(p, <<d, i>>)
  /\ UNCHANGED ref

\* A dirlink() of create() fails for want of disk blocks: the inode loses its
\* link and is freed by iput().
CreateFail(p) ==
  LET s == st[p] IN
  /\ Ilock(p, "init")
  /\ Iupdate(s.ip, 0)
  /\ lock' = [lock EXCEPT ![s.dp] = None]
  /\ End(p, <<s.ip, s.dp>>)
  /\ UNCHANGED <<ref, misused>>

-----------------------------------------------------------------------------
Step(p) ==
  \/ IputFree(p) \/ IputDrop(p) \/ Walk(p)
  \/ Open(p) \/ Chdir(p) \/ SetCwd(p)
  \/ Link(p) \/ LinkName(p) \/ LinkBad(p)
  \/ Unlink(p) \/ UnlinkEntry(p) \/ Unlinked(p)
  \/ Create(p) \/ Found(p) \/ Ialloc(p) \/ IallocGet(p) \/ CreateInit(p) \/ CreateFail(p)

Next ==
  \E p \in Proc :
    Step(p) \/ Close(p) \/ \E r \in Request : Call(p, r)

Spec == Init /\ [][Next]_vars

-----------------------------------------------------------------------------
(* Using a removed directory is misuse in two cases, which the code does   *)
(* not exclude: its ".." leads to a parent that has been removed too, or   *)
(* a name is made in it.  The properties speak of the time before.         *)

\* The names of inode i: the entries of directories for it, the ".." of the
\* directories in it, and the root.
Names(i) ==
  LET dirs == {d \in Inum : disk[d].type = "dir"}
      entries(j) == {<<d, n>> \in dirs \X Name : n \in DOMAIN disk[d].ents /\ disk[d].ents[n] = j}
      subdirs == {d \in dirs \ {ROOTINO} : entries(d) # {} /\ disk[d].ents[".."] = i}
  IN  Cardinality(entries(i)) + Cardinality(subdirs) + (IF i = ROOTINO THEN 1 ELSE 0)

Busy == {p \in Proc : st[p].pc # "user" \/ st[p].puts # <<>>}

\* The link counts on disk are right.  At any time, in the middle of system
\* calls too, an inode has at least as many links as it has names, so that no
\* name leads to a free inode.  When no call is under way, which is when the log commits, the
\* count is exact.
LinkCounts ==
  ~misused => \A i \in Inum : /\ disk[i].nlink >= Names(i)
                             /\ Busy = {} => disk[i].nlink = Names(i)

\* "iput() frees if the reference and link counts have fallen to zero": when no
\* call is under way, an inode without links and references is free.
FreedWhenUnused ==
  ~misused /\ Busy = {} =>
    \A i \in Inum : disk[i].nlink = 0 /\ ref[i] = 0 => disk[i].type = "free"

\* How many pointers processes have to inode i, the ones they are about to give
\* back included.
Pointers(i) ==
  Cardinality({<<p, f>> \in Proc \X {"cwd", "file", "ip", "dp", "lp"} :
                 st[p][f] = i /\ ~(f = "ip" /\ st[p].pc = "iget")})
  + Cardinality({<<p, k>> \in Proc \X {1, 2} : k \in DOMAIN st[p].puts /\ st[p].puts[k] = i})

\* ip->ref "tracks the number of in-memory pointers to the entry": every way
\* out of every call gives back what it took, and no more.
RefsCounted == \A i \in Inum : ref[i] = Pointers(i)

\* ilock() never finds a free inode and unlink() never an inode without links.
NoPanic ==
  ~misused => \A p \in Proc : Wants(p) # Nil /\ lock[Wants(p)] = None =>
                /\ Loaded(Wants(p)).type # "free"
                /\ st[p].pc = "unlink" => Loaded(Wants(p)).nlink > 0

\* iput() never waits for the lock of the inode that it frees, as it holds
\* itable.lock: "ip->ref == 1 means no other process can have ip locked".
IputNeverBlocks ==
  \A p \in Proc :
    st[p].puts # <<>> /\ ~st[p].freed /\ LastRef(Head(st[p].puts))
      => lock[Head(st[p].puts)] = None

\* Processes never wait for inode locks in a circle, which begins with a
\* process that waits for itself: walking, unlink() and create() lock
\* directories in the order of the tree, ".." and "." notwithstanding.
NoLockCycle ==
  \A S \in SUBSET Proc \ {{}} :
    \E p \in S : Wants(p) = Nil \/ lock[Wants(p)] \notin S
=============================================================================
