------------------------------- MODULE Resources ------------------------------
(***************************************************************************)
(* What processes hold of the pages of kernel/kalloc.c and of the file     *)
(* table of kernel/file.c, through fork, exec, sbrk, exit and wait, and    *)
(* through open, dup, close and pipe.                                      *)
(*                                                                         *)
(* A call is one step in which kalloc() may fail at any of its calls (Vm), *)
(* except that fileclose() is cut where it has given back ftable.lock and  *)
(* has still to close the pipe or to drop the inode.                       *)
(***************************************************************************)
EXTENDS Vm, Sequences

CONSTANTS
  Proc, initproc, None,
  NPAGES,   \* pages from end to PHYSTOP
  NFILE, NOFILE,
  Pipe,     \* names for the pages that pipes are in
  Image,    \* programs: [args, segs, fits, text], see exec
  Addr,     \* user addresses passed to the kernel
  PTR, INT, \* sizeof(uint64), sizeof(int)
  Grow      \* arguments of sbrk()

ASSUME ResourcesAssumption == initproc \in Proc /\ None \notin Proc \cup Pipe /\ NPAGES \in Nat

File == 1 .. NFILE
Fd   == 0 .. NOFILE - 1
USERSTACK == 1

VARIABLES
  free,     \* length of kmem.freelist
  pr,       \* struct proc: state, trapframe (1 or 0), page table, size, files; and
            \* the pages that its program protects: text, and the stack's guard
  ftable,   \* struct file: ref, and obj: a pipe's end, an inode, or None
  pipe,     \* the open ends of each pipe, or None if its page is not allocated
  closing,  \* what the fileclose() of each process has still to close
  irefs,    \* inodes that are referenced by files
  panicked

vars == <<free, pr, ftable, pipe, closing, irefs, panicked>>

\* An end of pipe i; w tells the write end.
End(i, w) == [pipe |-> i, w |-> w]
Inode     == [pipe |-> None, w |-> FALSE]

NoFiles == [fd \in Fd |-> None]
Unused  == [state |-> "unused", tf |-> 0, pt |-> EmptyTable, sz |-> 0, ofile |-> NoFiles,
            text |-> {}, guard |-> {}]

\* The first process of userinit(), with one page by uvmfirst().
Boot == AddPage(proc_pagetable(kalloc(Mem(NPAGES, NPAGES, EmptyTable))), 0, {"U", "W"})

Init ==
  /\ free = Boot.free
  /\ pr = [p \in Proc |-> IF p # initproc THEN Unused
             ELSE [Unused EXCEPT !.state = "run", !.tf = 1, !.pt = Boot.pt, !.sz = PGSIZE]]
  /\ ftable = [f \in File |-> [ref |-> 0, obj |-> None]]
  /\ pipe = [i \in Pipe |-> None]
  /\ closing = [p \in Proc |-> <<>>]
  /\ irefs = 0
  /\ panicked = FALSE

Running(p) == pr[p].state = "run" /\ closing[p] = <<>>

files == <<ftable, pipe, closing, irefs>>

\* The memory of an operation of p on page table pt.
M(lim, pt) == Mem(free, lim, pt)
Becomes(m) == free' = m.free /\ panicked' = (panicked \/ m.panic)

-----------------------------------------------------------------------------
(* Memory.                                                                 *)

\* growproc(): the sum of a uint64 and a negative int wraps around.
Sbrk(p, n, lim) ==
  LET sz == pr[p].sz  new == (sz + n + WORD) % WORD
      m == IF n > 0 THEN uvmalloc(M(lim, pr[p].pt), sz, new, {"W"}) ELSE uvmdealloc(M(lim, pr[p].pt), sz, new) IN
  /\ Running(p)
  /\ Becomes(m)
  /\ pr' = [pr EXCEPT ![p].pt = m.pt, ![p].sz = IF m.ok /\ (n > 0 \/ new < sz) THEN new ELSE @,
                     ![p].text = @ \cap m.pt.leaves, ![p].guard = @ \cap m.pt.leaves]
  /\ UNCHANGED files

\* freeproc() of a process with trapframe, table and size.
freeproc(m, sz) == proc_freepagetable(kfree(m, 1), sz)

\* Mutant: the child has the parent's size before it has the memory.
ChildSizeEarly(p) == pr[p].sz

\* np->sz when uvmcopy() fails and fork() calls freeproc(np).
ChildSize(p) == 0

\* Mutant: fork() counts a file once that the parent has twice.
NewRefsOnce(p, f) == IF \E fd \in Fd : pr[p].ofile[fd] = f THEN 1 ELSE 0

\* What fork() adds to the references of f, by filedup() for every descriptor.
NewRefs(p, f) == Cardinality({fd \in Fd : pr[p].ofile[fd] = f})

\* fork(), with allocproc().
Fork(p, q, lim) ==
  LET tf == kalloc(M(lim, EmptyTable))
      pt == proc_pagetable(tf)
      cp == uvmcopy(pr[p].pt, pt, pr[p].sz) IN
  /\ Running(p) /\ pr[q].state = "unused"
  /\ IF ~tf.ok THEN UNCHANGED <<free, panicked, pr, ftable>>
     ELSE IF ~pt.ok THEN Becomes(kfree(pt, 1)) /\ UNCHANGED <<pr, ftable>>
     ELSE IF ~cp.ok THEN Becomes(freeproc(cp, ChildSize(p))) /\ UNCHANGED <<pr, ftable>>
     ELSE /\ Becomes(cp)
          /\ pr' = [pr EXCEPT ![q] = [pr[p] EXCEPT !.pt = cp.pt]]
          /\ ftable' = [f \in File |-> [ftable[f] EXCEPT !.ref = @ + NewRefs(p, f)]]
  /\ UNCHANGED <<pipe, closing, irefs>>

\* fetchaddr() of the pointer at addr, with both tests.
fetchaddr(p, addr) ==
  ~(addr >= pr[p].sz \/ (addr + PTR) % WORD > pr[p].sz) /\ copyin(pr[p].pt, addr, PTR).ok

\* fetchstr() of a string [va, len] into a page.
fetchstr(p, str) == copyinstr(pr[p].pt, str.va, PGSIZE, str.va + str.len)

\* sys_exec()'s loop: argument after argument, until the null pointer.
RECURSIVE Argv(_, _, _, _)
Argv(p, m, uargv, strs) ==
  LET k == kalloc(m) IN
  CASE ~fetchaddr(p, uargv)     -> Failed(m)
    [] strs = <<>>              -> [m EXCEPT !.ok = TRUE]
    [] ~k.ok                    -> k
    [] ~fetchstr(p, Head(strs)) -> Failed(k)
    [] OTHER                    -> Argv(p, k, (uargv + PTR) % WORD, Tail(strs))

\* loadseg() needs the pages of the segment; s.read tells whether readi() succeeds.
loadseg(m, s) ==
  IF \E a \in s.vaddr .. s.vaddr + s.filesz - 1 : ~walkaddr(m.pt, a \div PGSIZE) THEN Panic(m)
  ELSE [m EXCEPT !.ok = s.read]

\* flags2perm().
flags2perm(s) == IF s.w THEN {"W"} ELSE {}

\* exec()'s loop over the segments.  Together with the memory, the size that is
\* mapped.
RECURSIVE Load(_, _, _)
Load(m, sz, segs) ==
  IF segs = <<>> THEN [mem |-> m, sz |-> sz]
  ELSE LET s == Head(segs)  end == (s.vaddr + s.memsz) % WORD
           bad == s.memsz < s.filesz \/ end < s.vaddr \/ s.vaddr % PGSIZE # 0
           u == uvmalloc(m, sz, end, flags2perm(s))
           sz1 == IF end < sz THEN sz ELSE end
           l == loadseg(u, s) IN
       IF bad \/ ~u.ok \/ sz1 = 0 THEN [mem |-> Failed(IF bad THEN m ELSE u), sz |-> sz]
       ELSE IF ~l.ok THEN [mem |-> l, sz |-> sz1]
       ELSE Load(l, sz1, Tail(segs))

\* The end of exec() with the program and the stack in memory m, and sz mapped;
\* img.fits if the arguments fit the stack.
Commit(p, img, m, base, sz) ==
  IF ~m.ok \/ ~img.fits
  THEN Becomes(proc_freepagetable(m, IF m.ok THEN sz ELSE base)) /\ UNCHANGED pr
  ELSE /\ Becomes(proc_freepagetable([m EXCEPT !.pt = pr[p].pt], pr[p].sz))
       /\ pr' = [pr EXCEPT ![p].pt = uvmclear(m, base \div PGSIZE).pt, ![p].sz = sz,
                           ![p].text = img.text, ![p].guard = {base \div PGSIZE}]

\* exec() from the stack on, when Load() has given prog.
Stack(p, img, prog, base) ==
  IF ~prog.mem.ok THEN Becomes(proc_freepagetable(prog.mem, prog.sz)) /\ UNCHANGED pr
  ELSE LET sz == base + (USERSTACK + 1) * PGSIZE
       IN Commit(p, img, uvmalloc(prog.mem, base, sz, {"W"}), base, sz)

\* sys_exec() and exec() of an image.  The pages of the arguments, freed at the end,
\* are given back here already: it is lim that makes kalloc() fail.
Exec(p, img, uargv, lim) ==
  /\ Running(p)
  /\ \E argv \in {Argv(p, M(lim, EmptyTable), uargv, img.args)} :
     \E pt \in {proc_pagetable(kfree(argv, free - argv.free))} :
       IF ~argv.ok THEN UNCHANGED <<free, panicked, pr>>
       ELSE IF ~pt.ok THEN Becomes(pt) /\ UNCHANGED pr
       ELSE \E prog \in {Load(pt, 0, img.segs)} :
              Stack(p, img, prog, PGROUNDUP(prog.sz) * PGSIZE)
  /\ UNCHANGED files

\* wait() frees the process of an exited child.
Wait(q) ==
  /\ pr[q].state = "zombie"
  /\ Becomes(freeproc(M(0, pr[q].pt), pr[q].sz))
  /\ pr' = [pr EXCEPT ![q] = Unused]
  /\ UNCHANGED files

-----------------------------------------------------------------------------
(* Files.                                                                  *)

\* filealloc() and fdalloc(): the first that is free, or None.
Least(S) == IF S = {} THEN None ELSE CHOOSE x \in S : \A y \in S : x <= y
filealloc(except) == Least({f \in File : ftable[f].ref = 0} \ except)
fdalloc(p, except) == Least({fd \in Fd : pr[p].ofile[fd] = None} \ except)

\* fileclose() of f up to the release of ftable.lock, and what is left to close.
Unref(f) == ftable' = [ftable EXCEPT ![f] = IF @.ref = 1 THEN [ref |-> 0, obj |-> None]
                                            ELSE [@ EXCEPT !.ref = @ - 1]]
Last(f) == IF ftable[f].ref = 1 THEN <<ftable[f].obj>> ELSE <<>>

\* The end of sys_open(), which has a reference to an inode; it drops it if
\* there is no file or no descriptor.
Open(p) ==
  LET f == filealloc({})  fd == fdalloc(p, {}) IN
  /\ Running(p)
  /\ IF f = None \/ fd = None THEN UNCHANGED <<pr, ftable, irefs>>
     ELSE /\ ftable' = [ftable EXCEPT ![f] = [ref |-> 1, obj |-> Inode]]
          /\ pr' = [pr EXCEPT ![p].ofile[fd] = f]
          /\ irefs' = irefs + 1
  /\ UNCHANGED <<free, pipe, closing, panicked>>

\* argfd(): the file of descriptor fd, or None.
argfd(p, fd) == IF fd < 0 \/ fd >= NOFILE THEN None ELSE pr[p].ofile[fd]

Dup(p, fd) ==
  LET f == argfd(p, fd)  new == fdalloc(p, {}) IN
  /\ Running(p) /\ f # None /\ new # None
  /\ pr' = [pr EXCEPT ![p].ofile[new] = f]
  /\ ftable' = [ftable EXCEPT ![f].ref = @ + 1]
  /\ UNCHANGED <<free, pipe, closing, irefs, panicked>>

\* sys_close(), and exit() for every file in turn.
Close(p, fd) ==
  LET f == argfd(p, fd) IN
  /\ pr[p].state \in {"run", "exit"} /\ closing[p] = <<>> /\ f # None
  /\ pr[p].state = "exit" => fd = Least({x \in Fd : pr[p].ofile[x] # None})
  /\ pr' = [pr EXCEPT ![p].ofile[fd] = None]
  /\ Unref(f)
  /\ closing' = [closing EXCEPT ![p] = Last(f)]
  /\ UNCHANGED <<free, pipe, irefs, panicked>>

\* Mutant: both ends of a pipe look alike to fileclose().
StillOpenRead(i, w) == [pipe[i] EXCEPT !.r = FALSE]

\* The ends of pipe i that are open after pipeclose().
StillOpen(i, w) == IF w THEN [pipe[i] EXCEPT !.w = FALSE] ELSE [pipe[i] EXCEPT !.r = FALSE]

\* The rest of fileclose(), for the copy that it has made of the file.
FinishClose(p) ==
  LET x == Head(closing[p])  i == x.pipe IN
  /\ closing[p] # <<>>
  /\ closing' = [closing EXCEPT ![p] = Tail(@)]
  /\ IF i = None
     THEN irefs' = irefs - 1 /\ UNCHANGED <<pipe, free>>
     ELSE LET o == StillOpen(i, x.w)  gone == ~o.r /\ ~o.w IN
          /\ pipe' = [pipe EXCEPT ![i] = IF gone THEN None ELSE o]
          /\ free' = IF gone THEN free + 1 ELSE free
          /\ UNCHANGED irefs
  /\ UNCHANGED <<pr, ftable, panicked>>

\* exit(), which goes on when all files are closed.
Exit(p) ==
  /\ Running(p) /\ p # initproc
  /\ pr' = [pr EXCEPT ![p].state = "exit"]
  /\ UNCHANGED <<free, files, panicked>>

Zombie(p) ==
  /\ pr[p].state = "exit" /\ closing[p] = <<>> /\ pr[p].ofile = NoFiles
  /\ pr' = [pr EXCEPT ![p].state = "zombie"]
  /\ UNCHANGED <<free, files, panicked>>

\* The files that sys_pipe() closes again when it cannot return descriptors.
PipeUndo(i) == <<End(i, FALSE), End(i, TRUE)>>

\* sys_pipe() and pipealloc(): two files, a page, two descriptors, and copyout().
SysPipe(p, lim, addr) ==
  LET f0 == filealloc({})  f1 == filealloc({f0})
      fd0 == fdalloc(p, {})  fd1 == fdalloc(p, {fd0})
      k == kalloc(M(lim, EmptyTable))
      copied == \A x \in {addr, (addr + INT) % WORD} : copyout(pr[p].pt, x, INT).ok
      i == CHOOSE j \in Pipe : pipe[j] = None IN
  /\ Running(p)
  /\ IF f0 = None \/ f1 = None \/ ~k.ok
     THEN UNCHANGED <<free, pr, ftable, pipe, closing>>
     ELSE /\ free' = k.free
          /\ pipe' = [pipe EXCEPT ![i] = [r |-> TRUE, w |-> TRUE]]
          /\ IF fd0 = None \/ fd1 = None \/ ~copied
             THEN closing' = [closing EXCEPT ![p] = PipeUndo(i)] /\ UNCHANGED <<pr, ftable>>
             ELSE /\ ftable' = [ftable EXCEPT ![f0] = [ref |-> 1, obj |-> End(i, FALSE)],
                                              ![f1] = [ref |-> 1, obj |-> End(i, TRUE)]]
                  /\ pr' = [pr EXCEPT ![p].ofile[fd0] = f0, ![p].ofile[fd1] = f1]
                  /\ UNCHANGED closing
  /\ UNCHANGED <<irefs, panicked>>

Next ==
  \E p \in Proc :
    \/ \E lim \in 0 .. free :
         \/ \E n \in Grow : Sbrk(p, n, lim)
         \/ \E q \in Proc : Fork(p, q, lim)
         \/ \E img \in Image, addr \in Addr : Exec(p, img, addr, lim)
    \/ \E lim \in {0, 1}, addr \in Addr : SysPipe(p, lim, addr)
    \/ \E fd \in Fd : Dup(p, fd) \/ Close(p, fd)
    \/ Open(p) \/ FinishClose(p) \/ Exit(p) \/ Zombie(p) \/ Wait(p)

Spec == Init /\ [][Next]_vars

-----------------------------------------------------------------------------
\* What sysinfo() reports: each count is taken under the locks it needs, one after
\* the other.
freemem       == free * PGSIZE
fileopencount == Cardinality({f \in File : ftable[f].ref > 0})

\* The user pages that are mapped in table pt.
UserPages(pt) == pt.leaves \ {TRAMPOLINE, TRAPFRAME}

RECURSIVE Held(_)
Held(S) ==
  IF S = {} THEN 0
  ELSE LET p == CHOOSE q \in S : TRUE IN
       Held(S \ {p}) + (IF pr[p].state = "unused" THEN 0
                        ELSE pr[p].tf + 1 + Cardinality(pr[p].pt.nodes) + Cardinality(UserPages(pr[p].pt)))

\* Every page is in the free list or in use in one place: as a trapframe, in a
\* page table, as memory of a process, or for a pipe.  No failure of kalloc(),
\* at whichever of the calls of fork, exec, sbrk or pipe, loses a page or
\* frees one twice, and sysinfo() reports what is left.
PagesConserved ==
  freemem = (NPAGES - Held(Proc) - Cardinality({i \in Pipe : pipe[i] # None})) * PGSIZE

\* A process has exactly the pages below its size, the trampoline and the
\* trapframe, whatever sizes it has grown, shrunk or been copied to: the panics of
\* uvmunmap(), uvmcopy(), mappages() and freewalk() do not happen.
MappedToSize ==
  /\ ~panicked
  /\ \A p \in Proc : pr[p].state # "unused" =>
       pr[p].pt.leaves = (0 .. PGROUNDUP(pr[p].sz) - 1) \cup {TRAMPOLINE, TRAPFRAME}

\* The reference count of a file is the number of descriptors for it, its inode is
\* referenced until the last one is closed, and sysinfo() counts a file once however many
\* processes share it.
FilesCounted ==
  /\ fileopencount = Cardinality({f \in File : \E p \in Proc, fd \in Fd : pr[p].ofile[fd] = f})
  /\ \A f \in File :
       ftable[f].ref = Cardinality({<<p, fd>> \in Proc \X Fd : pr[p].ofile[fd] = f})
  /\ irefs = Cardinality({f \in File : ftable[f].obj = Inode})
           + Cardinality({p \in Proc : \E k \in DOMAIN closing[p] : closing[p][k] = Inode})

\* The end of a pipe is open as long as there is a file for it, or a process
\* that is closing the last one, and the pipe's page is in use as long as an
\* end is open.
PipeEnds ==
  LET user(x) == \/ \E f \in File : ftable[f].obj = x
                 \/ \E p \in Proc : \E k \in DOMAIN closing[p] : closing[p][k] = x
  IN  \A i \in Pipe :
        IF pipe[i] = None THEN ~user(End(i, TRUE)) /\ ~user(End(i, FALSE))
        ELSE /\ pipe[i].w = user(End(i, TRUE)) /\ pipe[i].r = user(End(i, FALSE))
             /\ pipe[i].w \/ pipe[i].r

\* Addresses where copies are probed: the first page, the last bytes of the next two,
\* the page below the trampoline, and the ends of both address spaces.
Probes == {0, 2 * PGSIZE - 1, 3 * PGSIZE - 1, TRAPFRAME * PGSIZE, MaxPage * PGSIZE - 1, WORD - 1}

\* What system calls may read and write of a process, at any addresses: exactly
\* its memory, without the guard page and, for writing, without the text of its
\* program.  A copy succeeds if that is all it touches, and otherwise has stopped
\* where the first of the other pages begins.
UserMemory ==
  \A p \in Proc : pr[p].state # "unused" =>
    LET own   == (0 .. PGROUNDUP(pr[p].sz) - 1) \ pr[p].guard
        exact(c, va, len, pages) ==
          LET at(k) == (va + k) % WORD
              good(n) == \A k \in 0 .. n : at(k) \div PGSIZE \in pages
          IN  /\ c.ok = good(len - 1)
              /\ c.done = {at(k) : k \in {n \in 0 .. len - 1 : good(n)}}
    IN  \A va \in Probes : \A len \in {1, PGSIZE + 1} :
          /\ exact(copyin(pr[p].pt, va, len), va, len, own)
          /\ exact(copyout(pr[p].pt, va, len), va, len, own \ pr[p].text)
          /\ copyinstr(pr[p].pt, va, len + 1, va + len) = copyin(pr[p].pt, va, len + 1).ok
=============================================================================
