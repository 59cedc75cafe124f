---------------------------------- MODULE Vm ----------------------------------
(***************************************************************************)
(* kernel/vm.c and kernel/kalloc.c as functions: what an operation on a    *)
(* page table does to it and to the number of free pages.                  *)
(*                                                                         *)
(* A page table belongs to one process, and processes meet only at the     *)
(* free list.  kalloc() can find it empty at any call, because the others  *)
(* have the pages at that moment: lim is how many calls will succeed.      *)
(* Addresses are counted in bytes of pages of PGSIZE, and a page-table     *)
(* page has FANOUT entries.                                                *)
(***************************************************************************)
EXTENDS Integers, FiniteSets

CONSTANTS
  PGSIZE,   \* bytes of a page
  FANOUT,   \* entries of a page-table page: 512
  WORD      \* values of a uint64

MaxPage    == (FANOUT * FANOUT * FANOUT) \div 2   \* MAXVA, in pages: "one bit less than the max"
TRAMPOLINE == MaxPage - 1
TRAPFRAME  == MaxPage - 2

ASSUME VmAssumption ==
  PGSIZE \in Nat \ {0} /\ FANOUT \in Nat \ {0, 1} /\ WORD \in Nat /\ WORD > MaxPage * PGSIZE

\* A page table: its pages below the root, by level and place, the virtual pages it
\* maps, and those that have PTE_U and PTE_W.  The memory of an operation: the free pages, how many calls
\* of kalloc() will succeed, the page table that is worked on, whether the
\* last step succeeded, and whether there was a panic.
EmptyTable == [nodes |-> {}, leaves |-> {}, user |-> {}, write |-> {}]
Mem(free, lim, pt) == [free |-> free, lim |-> lim, pt |-> pt, ok |-> TRUE, panic |-> FALSE]

Failed(m) == [m EXCEPT !.ok = FALSE]
Panic(m)  == [m EXCEPT !.ok = FALSE, !.panic = TRUE]

PGROUNDUP(sz) == (sz + PGSIZE - 1) \div PGSIZE   \* in pages

kalloc(m) == IF m.free > 0 /\ m.lim > 0
             THEN [m EXCEPT !.free = @ - 1, !.lim = @ - 1, !.ok = TRUE]
             ELSE Failed(m)
kfree(m, n) == [m EXCEPT !.free = @ + n]

\* The page-table pages on the way to virtual page a, and walk() at one level.
Node(level, a) == <<level, IF level = 1 THEN a \div (FANOUT * FANOUT) ELSE a \div FANOUT>>
WalkLevel(m, x) ==
  LET k == kalloc(m) IN
  IF x \in m.pt.nodes THEN m
  ELSE IF k.ok THEN [k EXCEPT !.pt.nodes = @ \cup {x}] ELSE k

\* walk() of virtual page a with alloc = 1.
walk(m, a) == LET m1 == WalkLevel(m, Node(1, a)) IN
              IF m1.ok THEN WalkLevel(m1, Node(0, a)) ELSE m1

\* mappages() of one page, with those of PTE_U and PTE_W that are in perm.
mappages(m, a, perm) ==
  LET w == walk(m, a) IN
  CASE ~w.ok             -> w
    [] a \in w.pt.leaves -> Panic(w)   \* "mappages: remap"
    [] OTHER             -> [w EXCEPT !.pt.leaves = @ \cup {a},
                                      !.pt.user  = IF "U" \in perm THEN @ \cup {a} ELSE @,
                                      !.pt.write = IF "W" \in perm THEN @ \cup {a} ELSE @]

\* uvmunmap() of the pages of r, which must all be mapped.
uvmunmap(m, r, do_free) ==
  IF ~(r \subseteq m.pt.leaves) THEN Panic(m)
  ELSE [m EXCEPT !.pt.leaves = @ \ r, !.pt.user = @ \ r, !.pt.write = @ \ r,
                 !.free = @ + IF do_free THEN Cardinality(r) ELSE 0]

\* uvmcreate().
uvmcreate(m) == LET k == kalloc(m) IN [k EXCEPT !.pt = EmptyTable]

\* uvmdealloc() from size old to size new.
uvmdealloc(m, old, new) ==
  IF new >= old THEN m
  ELSE uvmunmap(m, PGROUNDUP(new) .. PGROUNDUP(old) - 1, TRUE)

\* kalloc() and mappages() of one page; if the second fails, kfree().
AddPage(m, a, perm) ==
  LET k == kalloc(m)  mp == mappages(k, a, perm) IN
  CASE ~k.ok    -> k
    [] mp.ok    -> mp
    [] mp.panic -> mp
    [] OTHER    -> kfree(mp, 1)

\* Mutant: uvmalloc() frees one page too few when it fails.
UndoShort(m, a, first) == uvmunmap(m, first .. a - 2, TRUE)

\* What uvmalloc() gives back when page a fails: uvmdealloc(pagetable, a, oldsz).
Undo(m, a, first) == uvmunmap(m, first .. a - 1, TRUE)

\* uvmalloc() from page a on, of the pages up to size new; ok says that it did
\* not return 0.
RECURSIVE UvmallocFrom(_, _, _, _, _)
UvmallocFrom(m, a, first, new, xperm) ==
  LET s == AddPage(m, a, {"U"} \cup xperm) IN
  CASE a * PGSIZE >= new -> [m EXCEPT !.ok = TRUE]
    [] s.ok              -> UvmallocFrom(s, a + 1, first, new, xperm)
    [] s.panic           -> s
    [] OTHER             -> Failed(Undo(s, a, first))

uvmalloc(m, old, new, xperm) ==
  IF new < old THEN m ELSE UvmallocFrom(m, PGROUNDUP(old), PGROUNDUP(old), new, xperm)

\* freewalk() of a table without leaves, and uvmfree().
freewalk(m) == IF m.pt.leaves # {} THEN Panic(m)   \* "freewalk: leaf"
               ELSE [kfree(m, 1 + Cardinality(m.pt.nodes)) EXCEPT !.pt = EmptyTable]
uvmfree(m, sz) ==
  LET u == uvmunmap(m, 0 .. PGROUNDUP(sz) - 1, TRUE) IN IF u.panic THEN u ELSE freewalk(u)

\* Mutant: the copy has the permissions of the heap.
FlagsHeap(pt, a) == {"U", "W"}

\* PTE_FLAGS of page a.
Flags(pt, a) == {f \in {"U", "W"} : a \in (IF f = "U" THEN pt.user ELSE pt.write)}

\* uvmcopy() of the sz bytes of table old into m.pt.
RECURSIVE UvmcopyFrom(_, _, _, _)
UvmcopyFrom(old, m, a, sz) ==
  LET s == AddPage(m, a, Flags(old, a)) IN
  CASE a * PGSIZE >= sz -> [m EXCEPT !.ok = TRUE]
    [] a \notin old.leaves -> Panic(m)   \* "uvmcopy: page not present"
    [] s.ok             -> UvmcopyFrom(old, s, a + 1, sz)
    [] s.panic          -> s
    [] OTHER            -> Failed(Undo(s, a, 0))

uvmcopy(old, m, sz) == UvmcopyFrom(old, m, 0, sz)

\* uvmclear() of page a.
uvmclear(m, a) == IF Node(0, a) \notin m.pt.nodes THEN Panic(m) ELSE [m EXCEPT !.pt.user = @ \ {a}]

-----------------------------------------------------------------------------
(* Copies between the kernel and a process.                                *)

\* The page is one that walkaddr() finds.
walkaddr(pt, a) == a < MaxPage /\ a \in pt.leaves /\ a \in pt.user

\* How much of the page of va there is from va on.
RestOfPage(va) == PGSIZE - (va % PGSIZE)

\* The loops of copyout() and copyin() from va on, when they may touch the pages of
\* set ok: whether they succeed, and the addresses that have been copied.
RECURSIVE Copy(_, _, _, _)
Copy(ok, va, len, done) ==
  LET rest == RestOfPage(va)
      n == IF rest > len THEN len ELSE rest IN
  IF len = 0 THEN [ok |-> TRUE, done |-> done]
  ELSE IF va \div PGSIZE \notin ok THEN [ok |-> FALSE, done |-> done]
  ELSE Copy(ok, (va + rest) % WORD, len - n, done \cup (va .. va + n - 1))

Readable(pt) == {a \in pt.leaves : walkaddr(pt, a)}

copyin(pt, va, len)  == Copy(Readable(pt), va, len, {})
copyout(pt, va, len) == Copy(Readable(pt) \cap pt.write, va, len, {})

\* copyinstr() of a string that ends at address nul: it stops there, or fails after
\* max bytes or at a page that it may not read.
RECURSIVE copyinstr(_, _, _, _)
copyinstr(pt, va, max, nul) ==
  LET rest == RestOfPage(va)
      n == IF rest > max THEN max ELSE rest IN
  CASE max = 0 -> FALSE
    [] ~walkaddr(pt, va \div PGSIZE) -> FALSE
    [] nul \in va .. va + n - 1 -> TRUE
    [] OTHER -> copyinstr(pt, (va + rest) % WORD, max - n, nul)

-----------------------------------------------------------------------------
(* The page tables of processes (kernel/proc.c).                           *)

proc_pagetable(m) ==
  LET c == uvmcreate(m)  t == mappages(c, TRAMPOLINE, {})  f == mappages(t, TRAPFRAME, {"W"}) IN
  CASE ~c.ok -> c
    [] ~t.ok -> Failed(uvmfree(t, 0))
    [] ~f.ok -> Failed(uvmfree(uvmunmap(f, {TRAMPOLINE}, FALSE), 0))
    [] OTHER -> f

proc_freepagetable(m, sz) ==
  LET u == uvmunmap(uvmunmap(m, {TRAMPOLINE}, FALSE), {TRAPFRAME}, FALSE) IN
  IF u.panic THEN u ELSE uvmfree(u, sz)
=============================================================================
