--------------------------------- MODULE Vm ---------------------------------
(* User memory: the page allocator (kalloc.c), page tables (vm.c), exec.c    *)
(* and the parts of proc.c, sysproc.c and sysfile.c that build, copy, grow   *)
(* and free address spaces.                                                  *)
(*                                                                           *)
(* A page table belongs to one process and only the free list is shared, so  *)
(* a call is one step; other users of kalloc() take and return pages between *)
(* calls, which lets an allocation fail at every point of every call.  The   *)
(* functions are operators on a record: the free pages, the contents of the  *)
(* pages, the page table being worked on (dir: its pages by level and index; *)
(* map: its valid leaf entries by page number), ok (no failure yet) and bad  *)
(* (the code panicked, or freed a free page).                                *)
EXTENDS Integers, FiniteSets, SequencesExt

CONSTANTS
  NPROC,     \* process slots
  NPAGE,     \* physical pages of the allocator
  FAN,       \* entries of a page-table page (512)
  PGSIZE,    \* bytes of a page
  WORD,      \* 2^64: addresses and sizes are computed modulo WORD
  InitProg,  \* /init
  ExecCall,  \* programs and arguments of exec, see KExec and SysExec
  SbrkBytes, \* arguments of sbrk()
  Addr,      \* addresses that user code and system calls use
  MaxSz,     \* bound: larger address spaces are not grown
  TakeCount  \* how many pages the rest of the kernel holds at a time

Proc == 1 .. NPROC
Page == 1 .. NPAGE
MAXVA == FAN * FAN * FAN * PGSIZE
TRAMPOLINE == FAN * FAN * FAN - 1     \* page numbers
TRAPFRAME == TRAMPOLINE - 1

\* Memory runs out before the user address space does, as on the real machine.
ASSUME SizeAssumption == NPAGE < TRAPFRAME /\ WORD >= 2 * MAXVA

VARIABLES
  free,      \* kmem.freelist
  mem,       \* contents of each page
  as,        \* as[p]: p->pagetable
  sz,        \* p->sz, in bytes
  tf,        \* p->trapframe, or 0
  state,     \* "unused", "used", "new" (before forkret), "zombie"
  taken,     \* pages the rest of the kernel got from kalloc()
  bad,       \* some call panicked or freed a free page
  ideal      \* ideal[p]: what p must see in each page below p->sz

vars == <<free, mem, as, sz, tf, state, taken, bad, ideal>>

Junk == "junk"       \* kfree() and kalloc() fill pages with junk
NoMap == [dir |-> <<>>, map |-> <<>>]
PgUp(n) == (n + PGSIZE - 1) \div PGSIZE
Pages(from, to) == from .. to - 1
PageSeq(from, to) == [i \in 1 .. to - from |-> from + i - 1]
Without(f, S) == Restrict(f, DOMAIN f \ S)

\* The record the operators work on, for the page table of process p.
Work(pt) == [free |-> free, mem |-> mem, dir |-> pt.dir, map |-> pt.map,
             ok |-> TRUE, bad |-> bad, sz |-> 0, done |-> {}]
Failed(s) == [s EXCEPT !.ok = FALSE]
On(s, pt) == [s EXCEPT !.dir = pt.dir, !.map = pt.map]
TableOf(s) == [dir |-> s.dir, map |-> s.map]

\* kalloc(): which of the free pages it returns does not matter.
Kalloc(S) == CHOOSE pg \in S : TRUE
Kfree(s, P) ==
  [s EXCEPT !.free = @ \cup P, !.bad = @ \/ P \cap s.free # {},
            !.mem = [pg \in P |-> Junk] @@ @]

\* walk(.., alloc = 1): one level, then both levels below the root.  Pages
\* allocated before a failure stay in the tree.
WalkLevel(s, n) ==
  IF ~s.ok \/ n \in DOMAIN s.dir THEN s
  ELSE IF s.free = {} THEN Failed(s)
  ELSE [s EXCEPT !.free = @ \ {Kalloc(@)}, !.dir = @ @@ (n :> Kalloc(s.free))]
Walk(s, va) == WalkLevel(WalkLevel(s, <<1, va \div (FAN * FAN)>>), <<0, va \div FAN>>)

Mapped(s, va, pte) ==
  IF ~s.ok THEN s
  ELSE IF va \in DOMAIN s.map THEN [s EXCEPT !.bad = TRUE]   \* panic: remap
  ELSE [s EXCEPT !.map = @ @@ (va :> pte)]
MapPages(s, va, pte) == Mapped(Walk(s, va), va, pte)

\* kalloc(), contents, mappages(), kfree() if that fails.
OrKfree(s, P) == IF s.ok THEN s ELSE Kfree(s, P)
MapPage(s, pg, va, v, w, u) ==
  OrKfree(MapPages([s EXCEPT !.free = @ \ {pg}, !.mem[pg] = v], va, [pa |-> pg, w |-> w, u |-> u]),
          {pg})
MapNew(s, va, v, w, u) ==
  IF ~s.ok \/ s.free = {} THEN Failed(s) ELSE MapPage(s, Kalloc(s.free), va, v, w, u)

UvmUnmap(s, V, doFree) ==
  IF doFree
  THEN Kfree([s EXCEPT !.map = Without(@, V)], {s.map[a].pa : a \in V \cap DOMAIN s.map})
  ELSE [s EXCEPT !.map = Without(@, V)]

\* uvmalloc(): all pages of the range, or none.
OrUnmap(s, V) == IF s.ok THEN s ELSE UvmUnmap(s, V, TRUE)
UvmAlloc(s, old, new, w) ==
  OrUnmap(FoldLeft(LAMBDA x, a : MapNew(x, a, 0, w, TRUE), s, PageSeq(PgUp(old), PgUp(new))),
          Pages(PgUp(old), PgUp(new)))

UvmDealloc_mut(s, old, new) ==
  IF new >= old THEN s ELSE UvmUnmap(s, Pages(new \div PGSIZE, PgUp(old)), TRUE)
UvmDealloc(s, old, new) ==
  IF new >= old THEN s ELSE UvmUnmap(s, Pages(PgUp(new), PgUp(old)), TRUE)

FreeWalk(s) ==
  IF DOMAIN s.map # {} THEN [s EXCEPT !.bad = TRUE]          \* panic: leaf
  ELSE On(Kfree(s, Range(s.dir)), NoMap)

UvmFree(s, n) == FreeWalk(UvmUnmap(s, Pages(0, PgUp(n)), TRUE))

ProcFreePagetable_mut(s, n) == UvmFree(UvmUnmap(s, {TRAMPOLINE}, FALSE), n)
ProcFreePagetable(s, n) == UvmFree(UvmUnmap(s, {TRAMPOLINE, TRAPFRAME}, FALSE), n)

\* proc_pagetable(): root, trampoline, trapframe.
OrUvmFree(s, V) == IF s.ok THEN s ELSE UvmFree(UvmUnmap(s, V, FALSE), 0)
MapTrampoline(s) ==
  IF ~s.ok THEN s
  ELSE OrUvmFree(MapPages(s, TRAMPOLINE, [pa |-> 0, w |-> FALSE, u |-> FALSE]), {})
MapTrapframe(s, frame) ==
  IF ~s.ok THEN s
  ELSE OrUvmFree(MapPages(s, TRAPFRAME, [pa |-> frame, w |-> TRUE, u |-> FALSE]), {TRAMPOLINE})
UvmCreate(s) == WalkLevel(On(s, NoMap), <<2, 0>>)
ProcPagetable(s, frame) == MapTrapframe(MapTrampoline(UvmCreate(s)), frame)

\* uvmcopy(): pages that are not mapped (lazy) stay so in the child.
UvmCopy(s, old, n) ==
  OrUnmap(FoldLeft(LAMBDA x, a :
                     MapNew(x, a, mem[old.map[a].pa], old.map[a].w, old.map[a].u),
                   s, SelectSeq(PageSeq(0, PgUp(n)), LAMBDA a : a \in DOMAIN old.map)),
          Pages(0, PgUp(n)))
-----------------------------------------------------------------------------
(* exec.  A program is [elf, segs]; a segment has vaddr, memsz, filesz, the  *)
(* flag w, the value v that its file bytes hold, and short: the file ends    *)
(* before its last page.                                                     *)

SegPages(g) == Pages(g.vaddr \div PGSIZE, g.vaddr \div PGSIZE + PgUp(g.filesz))
LoadSeg(s, g) ==
  IF SegPages(g) \subseteq DOMAIN s.map
  THEN [s EXCEPT !.ok = ~g.short, !.mem = [pg \in {s.map[a].pa : a \in SegPages(g)} |-> g.v] @@ @]
  ELSE [s EXCEPT !.bad = TRUE]                      \* panic: address should exist

LoadIn(s, g, n) == IF ~s.ok \/ n = 0 THEN Failed(s) ELSE LoadSeg([s EXCEPT !.sz = n], g)
ExecSeg(s, g) ==
  LET vend == (g.vaddr + g.memsz) % WORD IN
  IF ~s.ok \/ g.memsz < g.filesz \/ vend < g.vaddr \/ g.vaddr % PGSIZE # 0
  THEN Failed(s)
  ELSE LoadIn(UvmAlloc(s, s.sz, vend, g.w), g, IF vend < s.sz THEN s.sz ELSE vend)

\* The guard page and the stack, at page base.
UvmClear(s, a) == [s EXCEPT !.map[a].u = FALSE]
Stack(s, base) ==
  IF ~s.ok THEN s
  ELSE [UvmClear(s, base) EXCEPT !.mem[s.map[base + 1].pa] = "args", !.sz = (base + 2) * PGSIZE]
ExecStack(s) ==
  IF ~s.ok THEN s
  ELSE Stack(UvmAlloc(s, PgUp(s.sz) * PGSIZE, (PgUp(s.sz) + 2) * PGSIZE, TRUE), PgUp(s.sz))

\* kexec(): the new image is complete before the old one is freed.  fits says
\* whether the arguments fit on the stack page.
Switch(s, old, oldsz, fits) ==
  IF s.ok /\ fits THEN On(ProcFreePagetable(On(s, old), oldsz), TableOf(s))
  ELSE Failed(On(ProcFreePagetable(s, s.sz), old))
KExec(s, oldsz, frame, prog, fits) ==
  IF ~prog.elf THEN Failed(s)
  ELSE Switch(ExecStack(FoldLeft(ExecSeg, ProcPagetable([s EXCEPT !.sz = 0], frame), prog.segs)),
              TableOf(s), oldsz, fits)

\* Reference: what a program sees after exec, page by page.
Cell(v, w, u) == [v |-> v, w |-> w, u |-> u]
Image(prog) ==
  LET seg == prog.segs
      First(g) == g.vaddr \div PGSIZE
      Loads(a) == {i \in DOMAIN seg : a \in Pages(First(seg[i]), First(seg[i]) + PgUp(seg[i].filesz))}
      Reaches(a) == {i \in DOMAIN seg : a < PgUp(seg[i].vaddr + seg[i].memsz)}
      base == Max({PgUp(g.vaddr + g.memsz) : g \in Range(seg)})
  IN [a \in 0 .. base + 1 |->
        IF a = base THEN Cell(0, TRUE, FALSE)
        ELSE IF a = base + 1 THEN Cell("args", TRUE, TRUE)
        ELSE Cell(IF Loads(a) = {} THEN 0 ELSE seg[Max(Loads(a))].v, seg[Min(Reaches(a))].w, TRUE)]

-----------------------------------------------------------------------------
(* Faults and copies between kernel and user *)

\* vmfault(): va is a byte address, below p->sz and not mapped.
IsMapped(s, a) == a \in DOMAIN s.map
VmFault(s, n, va) ==
  IF va >= n \/ IsMapped(s, va \div PGSIZE) THEN Failed(s)
  ELSE MapNew(s, va \div PGSIZE, 0, TRUE, TRUE)

WalkAddr(s, a) == IsMapped(s, a) /\ s.map[a].u
Present(s, n, a) == IF WalkAddr(s, a) THEN s ELSE VmFault(s, n, a * PGSIZE)

CopyInPage(s, n, a) == IF s.ok THEN Present(s, n, a) ELSE s
Stored(s, a, v) ==
  IF ~s.ok \/ a * PGSIZE >= MAXVA \/ ~s.map[a].w THEN Failed(s)
  ELSE [s EXCEPT !.mem[s.map[a].pa] = v, !.done = @ \cup {a}]
CopyOutPage(s, n, a, v) == Stored(CopyInPage(s, n, a), a, v)
\* The pages of the bytes va .. va + len - 1, in order.
Span(va, len) == PageSeq(va \div PGSIZE, PgUp(va + len))

-----------------------------------------------------------------------------
(* Actions *)

Commit(s) == free' = s.free /\ mem' = s.mem /\ bad' = s.bad
Resized(p, n) ==
  [a \in Pages(0, PgUp(n)) |-> IF a \in DOMAIN ideal[p] THEN ideal[p][a] ELSE Cell(0, TRUE, TRUE)]

\* allocproc(): trapframe and page table.
AllocProc_mut(frame) ==
  ProcPagetable([Work(NoMap) EXCEPT !.free = @ \ {frame}], frame)
AllocProc(frame) ==
  OrKfree(ProcPagetable([Work(NoMap) EXCEPT !.free = @ \ {frame}], frame), {frame})

\* kfork() in the first unused slot; freeproc() if the copy fails.
OrFreeProc(s, frame) == IF s.ok THEN s ELSE ProcFreePagetable(Kfree(s, {frame}), 0)
ForkCopy(s, p, frame) == IF s.ok THEN OrFreeProc(UvmCopy(s, as[p], sz[p]), frame) ELSE s
Forked(p, q, frame, s) ==
  /\ Commit(s)
  /\ IF s.ok
     THEN /\ as' = [as EXCEPT ![q] = TableOf(s)]
          /\ sz' = [sz EXCEPT ![q] = sz[p]] /\ tf' = [tf EXCEPT ![q] = frame]
          /\ state' = [state EXCEPT ![q] = "used"]
          /\ ideal' = [ideal EXCEPT ![q] = ideal[p]]
     ELSE UNCHANGED <<as, sz, tf, state, ideal>>
ForkIn(p, q, frame) == Forked(p, q, frame, ForkCopy(AllocProc(frame), p, frame))
Unused == {q \in Proc : state[q] = "unused"}
Fork(p) ==
  /\ state[p] = "used" /\ Unused # {} /\ free # {}
  /\ ForkIn(p, Min(Unused), Kalloc(free))
  /\ UNCHANGED taken

Exec(p, s, prog) ==
  /\ Commit(s)
  /\ as' = [as EXCEPT ![p] = TableOf(s)]
  /\ IF s.ok
     THEN /\ sz' = [sz EXCEPT ![p] = s.sz]
          /\ ideal' = [ideal EXCEPT ![p] = Image(prog)]
     ELSE UNCHANGED <<sz, ideal>>
  /\ UNCHANGED <<tf, taken>>

\* forkret() of the first process: kexec("/init").
ForkRet(p) ==
  /\ state[p] = "new"
  /\ Exec(p, KExec(Work(as[p]), sz[p], tf[p], InitProg, TRUE), InitProg)
  /\ state' = [state EXCEPT ![p] = "used"]

\* copyinstr() does not fault pages in; fetchaddr() checks the address against
\* p->sz and then does, in copyin().
CopyInStr(p, va) == WalkAddr(Work(as[p]), va \div PGSIZE)
FetchAddr(p, va) ==
  IF va >= sz[p] THEN Failed(Work(as[p])) ELSE Present(Work(as[p]), sz[p], va \div PGSIZE)

\* sys_exec() with arguments x: the path at address x.path (if it cannot be
\* read, the call returns -1 and nothing has changed), the argument array and
\* strings at x.argv; x.fits says whether they fit on the stack page.  The
\* argument string needs a kernel page while kexec() runs.
Argv(s, argv, p, prog, x) ==
  Kfree(KExec([s EXCEPT !.free = @ \ {argv}], sz[p], tf[p], prog, x.fits), {argv})
ExecArgs(s, p, prog, x) ==
  IF ~s.ok \/ s.free = {} THEN Failed(s) ELSE Argv(s, Kalloc(s.free), p, prog, x)
SysExec(p, prog, x) ==
  /\ state[p] = "used"
  /\ CopyInStr(p, x.path)
  /\ Exec(p, ExecArgs(FetchAddr(p, x.argv), p, prog, x), prog)
  /\ UNCHANGED state

\* growproc(n), and the lazy branch of sys_sbrk().
Grown(s, p, n, new) ==
  IF n > 0 /\ new > TRAPFRAME * PGSIZE THEN Failed(s)
  ELSE IF n > 0 THEN [UvmAlloc(s, sz[p], new, TRUE) EXCEPT !.sz = new]
  ELSE [UvmDealloc(s, sz[p], new) EXCEPT !.sz = IF new < sz[p] THEN new ELSE sz[p]]
GrowProc(p, n) == Grown(Work(as[p]), p, n, (sz[p] + n) % WORD)
LazyGrow(p, n) ==
  LET new == (sz[p] + n) % WORD IN
  [Work(as[p]) EXCEPT !.ok = new >= sz[p] /\ new <= TRAPFRAME * PGSIZE, !.sz = new]

Sbrk(p, s) ==
  /\ Commit(s)
  /\ as' = [as EXCEPT ![p] = TableOf(s)]
  /\ IF s.ok
     THEN /\ sz' = [sz EXCEPT ![p] = s.sz]
          /\ ideal' = [ideal EXCEPT ![p] = Resized(p, s.sz)]
     ELSE UNCHANGED <<sz, ideal>>
SysSbrk(p, n, eager) ==
  /\ state[p] = "used"
  /\ sz[p] + n <= MaxSz \/ sz[p] + n > TRAPFRAME * PGSIZE
  /\ Sbrk(p, IF eager \/ n < 0 THEN GrowProc(p, n) ELSE LazyGrow(p, n))
  /\ UNCHANGED <<tf, state, taken>>

\* A user instruction stores to address va, or faults there: usertrap() calls
\* vmfault(), and kills the process if that fails.  init does not stray.
Allowed(p, a, store) ==
  a \in DOMAIN as[p].map /\ as[p].map[a].u /\ (store => as[p].map[a].w)
Store(p, va) ==
  LET a == va \div PGSIZE IN
  /\ state[p] = "used" /\ Allowed(p, a, TRUE)
  /\ mem' = [mem EXCEPT ![as[p].map[a].pa] = 1]
  /\ ideal' = [ideal EXCEPT ![p][a].v = 1]
  /\ UNCHANGED <<free, as, sz, tf, state, taken, bad>>
Faulted(p, s) ==
  /\ p = 1 => s.ok
  /\ Commit(s)
  /\ as' = [as EXCEPT ![p] = TableOf(s)]
  /\ state' = [state EXCEPT ![p] = IF s.ok THEN @ ELSE "zombie"]
  /\ UNCHANGED <<sz, tf, taken, ideal>>
Fault(p, va, store) ==
  /\ state[p] = "used" /\ ~Allowed(p, va \div PGSIZE, store)
  /\ Faulted(p, VmFault(Work(as[p]), sz[p], va))

\* copyout() and copyin() of len bytes at va, on behalf of p.
Copied(p, s) ==
  /\ Commit(s)
  /\ as' = [as EXCEPT ![p] = TableOf(s)]
  /\ ideal' = [ideal EXCEPT ![p] = [a \in DOMAIN @ |-> IF a \in s.done THEN Cell(1, TRUE, TRUE) ELSE @[a]]]
  /\ UNCHANGED <<sz, tf, state, taken>>
CopyOut(p, va, len) ==
  /\ state[p] = "used"
  /\ Copied(p, FoldLeft(LAMBDA x, a : CopyOutPage(x, sz[p], a, 1), Work(as[p]), Span(va, len)))
CopyIn(p, va, len) ==
  /\ state[p] = "used"
  /\ Copied(p, FoldLeft(LAMBDA x, a : CopyInPage(x, sz[p], a), Work(as[p]), Span(va, len)))

\* exit() by choice; init does not exit.
Exit(p) ==
  /\ p # 1 /\ state[p] = "used"
  /\ state' = [state EXCEPT ![p] = "zombie"]
  /\ UNCHANGED <<free, mem, as, sz, tf, taken, bad, ideal>>

\* freeproc(), by kwait() of the parent.
FreeProc(p) ==
  /\ state[p] = "zombie"
  /\ Commit(ProcFreePagetable(Kfree(Work(as[p]), {tf[p]}), sz[p]))
  /\ as' = [as EXCEPT ![p] = NoMap] /\ sz' = [sz EXCEPT ![p] = 0]
  /\ tf' = [tf EXCEPT ![p] = 0] /\ state' = [state EXCEPT ![p] = "unused"]
  /\ ideal' = [ideal EXCEPT ![p] = <<>>]
  /\ UNCHANGED taken

\* Other users of kalloc() and kfree(): pipes, argument pages.
Take(k) ==
  /\ taken = {} /\ Cardinality(free) >= k
  /\ taken' = {pg \in free : Cardinality({x \in free : x < pg}) < k}
  /\ free' = free \ taken'
  /\ UNCHANGED <<mem, as, sz, tf, state, bad, ideal>>
Give ==
  /\ taken # {} /\ taken' = {}
  /\ Commit(Kfree(Work(NoMap), taken))
  /\ UNCHANGED <<as, sz, tf, state, ideal>>

\* kinit() frees every page; userinit() takes four for the first process.
Kinit == Page
UserInit ==
  [dir |-> (<<2, 0>> :> 2) @@ (<<1, FAN - 1>> :> 3) @@ (<<0, FAN * FAN - 1>> :> 4),
   map |-> (TRAMPOLINE :> [pa |-> 0, w |-> FALSE, u |-> FALSE])
             @@ (TRAPFRAME :> [pa |-> 1, w |-> TRUE, u |-> FALSE])]
Init ==
  /\ free = Kinit \ 1 .. 4 /\ mem = [pg \in Page |-> Junk]
  /\ as = [p \in Proc |-> IF p = 1 THEN UserInit ELSE NoMap]
  /\ sz = [p \in Proc |-> 0] /\ tf = [p \in Proc |-> IF p = 1 THEN 1 ELSE 0]
  /\ state = [p \in Proc |-> IF p = 1 THEN "new" ELSE "unused"]
  /\ taken = {} /\ bad = FALSE /\ ideal = [p \in Proc |-> <<>>]

Next ==
  \/ Give
  \/ \E k \in TakeCount : Take(k)
  \/ \E p \in Proc :
       \/ Fork(p) \/ ForkRet(p) \/ Exit(p) \/ FreeProc(p)
       \/ \E n \in SbrkBytes, eager \in BOOLEAN : SysSbrk(p, n, eager)
       \/ \E va \in Addr : Store(p, va) \/ \E store \in BOOLEAN : Fault(p, va, store)
       \/ \E va \in Addr, len \in {PGSIZE + 1} : CopyOut(p, va, len) \/ CopyIn(p, va, len)
       \/ \E x \in ExecCall : SysExec(p, x.prog, x)

Spec == Init /\ [][Next]_vars

-----------------------------------------------------------------------------
(* Properties *)

\* What p sees in each page below p->sz; a page not yet allocated reads as
\* zero and can be written.
Visible(p) ==
  [a \in Pages(0, PgUp(sz[p])) |->
     IF a \in DOMAIN as[p].map
     THEN Cell(mem[as[p].map[a].pa], as[p].map[a].w, as[p].map[a].u)
     ELSE Cell(0, TRUE, TRUE)]

\* The uses of physical pages, as <<page, user>>.
Uses ==
  UNION {{<<as[p].dir[n], p, "dir", n>> : n \in DOMAIN as[p].dir} : p \in Proc}
  \cup UNION {{<<as[p].map[a].pa, p, "leaf", a>> :
                 a \in DOMAIN as[p].map \ {TRAMPOLINE, TRAPFRAME}} : p \in Proc}
  \cup {<<tf[p], p, "trapframe", 0>> : p \in {q \in Proc : tf[q] # 0}}
  \cup {<<pg, 0, "kernel", 0>> : pg \in taken} \cup {<<pg, 0, "free", 0>> : pg \in free}

\* Every page has exactly one use, on every success and error path of fork,
\* exec, sbrk, page faults and exit: no page leaks, none is shared between two
\* page tables or free while in use.
PagesPartition ==
  Cardinality(Uses) = NPAGE /\ {x[1] : x \in Uses} = Page

\* The calls never meet mappages' "remap", freewalk's "leaf" or loadseg's
\* "address should exist" panic, never free a free page, and the trampoline and
\* trapframe stay mapped while a process exists.
NoVmPanic ==
  /\ ~bad
  /\ \A p \in Proc : state[p] # "unused" => {TRAMPOLINE, TRAPFRAME} \subseteq DOMAIN as[p].map

\* Each process sees its own stores, what exec loaded and zeroes elsewhere,
\* with the access rights exec or sbrk gave, whether a page was copied by fork,
\* allocated at once or on a fault; a fork, exec or sbrk that returns -1 changes
\* nothing in any process; nothing is mapped beyond p->sz.
MemoryIsIdeal ==
  \A p \in Proc :
    /\ Visible(p) = ideal[p]
    /\ DOMAIN as[p].map \subseteq Pages(0, PgUp(sz[p])) \cup {TRAMPOLINE, TRAPFRAME}
=============================================================================
