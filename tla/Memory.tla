------------------------------- MODULE Memory -------------------------------
(***************************************************************************)
(* The memory of processes: the page allocator (kernel/kalloc.c), page     *)
(* tables (kernel/vm.c), kexec() (kernel/exec.c) and the parts of          *)
(* kernel/proc.c and kernel/sysproc.c that make, grow, copy and free an    *)
(* address space.                                                          *)
(*                                                                         *)
(* A page is known by its use: the content of a page of memory, one value, *)
(* stands in the entry that maps it, and nfree counts the others.  A page  *)
(* table has LEVELS levels of FAN entries; sizes are in bytes, PGSIZE to a *)
(* page.  A step allocates one page, so that processes compete for the     *)
(* last ones, or gives back all that an operation frees: nobody else sees  *)
(* the page tables.                                                        *)
(***************************************************************************)
EXTENDS Integers, Sequences, FiniteSets

CONSTANTS Processes,
          FirstProc,   \* the first process, which does not end
          PageCounts,  \* how many pages kinit() may find
          LEVELS, FAN, PGSIZE,
          USERSTACK,   \* pages of the user stack
          Programs,    \* executables: sequences of segments
          MaxArgs,     \* bound: the arguments of an exec()
          Increments,  \* the n of sbrk()
          Callers,     \* the processes that call exec, fork and sbrk
          Written,     \* the pages that processes write to
          Floor        \* the size that sbrk() is not asked to go below

MAXVA == FAN ^ LEVELS
TRAMPOLINE == MAXVA - 1
TRAPFRAME == MAXVA - 2
VPages == 0 .. MAXVA - 1
UserPages == 0 .. TRAPFRAME - 1
Fixed(va) == va \in {TRAMPOLINE, TRAPFRAME}
Up(n) == (n + PGSIZE - 1) \div PGSIZE      \* PGROUNDUP, in pages

\* The pages below the end of segment ph, and those read from the file.
End(ph) == Up(ph.vaddr + ph.memsz)
Text(ph) == ph.vaddr \div PGSIZE .. Up(ph.vaddr + ph.filesz) - 1

\* The headers are such that kexec() takes them, and the program fits: memory
\* runs out long before addresses do.
Segments == [vaddr : Nat, memsz : Nat, filesz : Nat, w : BOOLEAN]
ASSUME MemoryAssumption ==
  /\ FirstProc \in Processes /\ PageCounts \subseteq Nat
  /\ LEVELS \in Nat \ {0} /\ MAXVA \in Nat \ 0 .. 2 /\ PGSIZE \in Nat \ {0}
  /\ USERSTACK \in Nat \ {0} /\ USERSTACK + 1 <= TRAPFRAME
  /\ MaxArgs \in Nat /\ Floor \in Nat \ {0}
  /\ Increments \subseteq Int /\ Written \subseteq VPages
  /\ Programs \subseteq Seq(Segments)
  /\ \A prog \in Programs : \A i \in DOMAIN prog :
       /\ prog[i].filesz <= prog[i].memsz /\ prog[i].memsz > 0
       /\ End(prog[i]) + USERSTACK + 1 <= TRAPFRAME

VARIABLES pages,   \* how many pages there are
          nfree,   \* the length of kmem.freelist
          frame,   \* the processes that have a trapframe
          tab,     \* the page table of p, and the one that kexec() makes
          sz,      \* p->sz
          job,     \* where p is in an operation that allocates
          image    \* history: what each process has in its memory

memVars == <<pages, nfree, frame, tab, sz, job, image>>

\* The table of level l that a walk to page va passes.
Node(l, va) == <<l, va \div (FAN ^ (l + 1))>>
Top == Node(LEVELS - 1, 0)

Pte(c, w, u) == [c |-> c, w |-> w, u |-> u]
None == Pte("none", FALSE, FALSE)
NoTable == [nodes |-> {}, leaf |-> [v \in VPages |-> None]]
Mapped(t) == {v \in VPages : t.leaf[v] # None}
Image0 == [v \in VPages |-> "zero"]

\* The table that an operation of p fills: that of the process itself, of the
\* child q, or the new one of kexec().
Cur(p) == <<p, "cur">>
New(p) == <<p, "new">>
Tables == Processes \X {"cur", "new"}
NoTab == <<FirstProc, "none">>

IdleJob == [op |-> "none", pc |-> "idle", t |-> NoTab, todo |-> {}, old |-> 0,
            sz |-> 0, prog |-> <<>>, seg |-> 0, args |-> 0]

\* kinit(), and userinit() begins.
MemInit ==
  /\ pages \in PageCounts /\ nfree = pages
  /\ frame = {}
  /\ tab = [t \in Tables |-> NoTable]
  /\ sz = [p \in Processes |-> 0]
  /\ job = [p \in Processes |-> IF p = FirstProc
              THEN [IdleJob EXCEPT !.op = "boot", !.pc = "frame",
                                   !.t = Cur(p)]
              ELSE IdleJob]
  /\ image = [p \in Processes |-> Image0]
-----------------------------------------------------------------------------
Go(p, r) == job' = [job EXCEPT ![p] = r]
At(p, pc) == job[p].pc = pc
Busy(q) == \E r \in Processes : job[r].t = Cur(q)
Runs(p) == p \in frame /\ At(p, "idle") /\ ~Busy(p)

\* The bound on who makes calls that change an address space.
Calls(p) == Runs(p) /\ p \in Callers

Kalloc == nfree > 0 /\ nfree' = nfree - 1
Kfree(n) == nfree' = nfree + n

\* uvmunmap() of the pages of V, and how many of them there are to free.
Unmap(t, V) ==
  [t EXCEPT !.leaf = [v \in VPages |-> IF v \in V THEN None ELSE t.leaf[v]]]
Size(t, V) == Cardinality(V \cap Mapped(t))

\* proc_freepagetable() with a size of s pages, and uvmfree(): how many pages
\* it frees, and whether freewalk() meets a leaf.
ProcFree(t, s) == Size(t, 0 .. s - 1) + Cardinality(t.nodes)
FreewalkLeaf(t, s) ==
  Mapped(t) \ (0 .. s - 1 \cup {TRAMPOLINE, TRAPFRAME}) # {}

Child(p) == job[p].t[1]
IsNew(p) == job[p].op \in {"boot", "fork", "exec"}

\* forkret() panics when /init cannot be started, and userinit() takes for
\* granted that there is memory.
Started(p) == p = FirstProc => sz[p] > 0

\* What is left of p's operation when it ends, freewalk() having met a leaf
\* or not, and when it fails.
Ended(leaf) == [IdleJob EXCEPT !.pc = IF leaf THEN "panic" ELSE "idle"]
Failed(p, leaf) ==
  [IdleJob EXCEPT !.pc = IF leaf THEN "panic"
                         ELSE IF IsNew(p) /\ ~Started(p) THEN "halt"
                         ELSE "idle"]

\* Wrong on purpose: uvmcopy() and uvmalloc() do not count the page that
\* failed last.
PartialShort(p, va) ==
  IF Fixed(va) THEN {}
  ELSE (IF job[p].op = "fork" THEN 0 ELSE job[p].old) .. va - 2

\* The pages an operation that fails at va has mapped: uvmalloc() unmaps those
\* from the old size on, uvmcopy() all, up to the one that failed.
Partial(p, va) ==
  IF Fixed(va) THEN {}
  ELSE (IF job[p].op = "fork" THEN 0 ELSE job[p].old) .. va - 1

\* The operation has failed for want of memory, with hand pages in hand and
\* those of V to unmap.  allocproc() and kfork() then call freeproc(), and
\* kexec() frees the image of sz pages it had before.
Fail(p, hand, V) ==
  LET j == job[p]
      rest == Unmap(tab[j.t], V)
      kept == IF IsNew(p) THEN ProcFree(rest, j.sz) ELSE 0
      frames == IF j.op \in {"boot", "fork"} THEN frame \cap {Child(p)}
                ELSE {}
  IN  /\ Kfree(hand + Size(tab[j.t], V) + kept + Cardinality(frames) + j.args)
      /\ tab' = [tab EXCEPT ![j.t] = IF IsNew(p) THEN NoTable ELSE rest]
      /\ frame' = frame \ frames
      /\ Go(p, Failed(p, IsNew(p) /\ FreewalkLeaf(rest, j.sz)))

\* allocproc(): the trapframe.
AllocFrame(p) ==
  /\ At(p, "frame")
  /\ IF nfree = 0 THEN Fail(p, 0, {})
     ELSE /\ Kalloc
          /\ frame' = frame \cup {Child(p)}
          /\ Go(p, [job[p] EXCEPT !.pc = "root"])
          /\ UNCHANGED tab
  /\ UNCHANGED <<pages, sz, image>>

\* uvmcreate(); then proc_pagetable() maps trampoline and trapframe.
AllocRoot(p) ==
  /\ At(p, "root")
  /\ IF nfree = 0 THEN Fail(p, 0, {})
     ELSE /\ Kalloc
          /\ tab' = [tab EXCEPT ![job[p].t].nodes = {Top}]
          /\ Go(p, [job[p] EXCEPT !.pc = "page",
                                  !.todo = {TRAMPOLINE, TRAPFRAME}])
          /\ UNCHANGED frame
  /\ UNCHANGED <<pages, sz, image>>

\* The page of V that is next: the trampoline, or the lowest.
Lowest(V) ==
  {v \in V : \A w \in V : v = TRAMPOLINE \/ (w # TRAMPOLINE /\ v <= w)}

\* kalloc() of the next page of memory.
AllocPage(p, va) ==
  /\ At(p, "page") /\ va \in Lowest(job[p].todo)
  /\ IF Fixed(va) THEN /\ Go(p, [job[p] EXCEPT !.pc = "walk"])
                       /\ UNCHANGED <<nfree, frame, tab>>
     ELSE IF nfree = 0 THEN Fail(p, 0, Partial(p, va))
     ELSE /\ Kalloc
          /\ Go(p, [job[p] EXCEPT !.pc = "walk"])
          /\ UNCHANGED <<frame, tab>>
  /\ UNCHANGED <<pages, sz, image>>

\* The entry that is made for page va: what uvmcopy() copies, or zeros.
NewPte(p, va) ==
  LET j == job[p] IN
  IF Fixed(va) THEN Pte("kernel", va = TRAPFRAME, FALSE)
  ELSE IF j.op = "fork" THEN tab[Cur(p)].leaf[va]
  ELSE Pte("zero", IF j.op = "exec" /\ j.seg <= Len(j.prog)
                   THEN j.prog[j.seg].w ELSE TRUE, TRUE)

\* mappages(): walk() adds the next table that is missing, or the leaf is
\* set.  When walk() fails, the page in hand is freed.
MapPage(p, va) ==
  LET j == job[p]
      t == tab[j.t]
      missing == {l \in 0 .. LEVELS - 1 : Node(l, va) \notin t.nodes}
  IN
  /\ At(p, "walk") /\ va \in Lowest(j.todo)
  /\ \/ /\ missing # {} /\ nfree = 0
        /\ Fail(p, IF Fixed(va) THEN 0 ELSE 1, Partial(p, va))
     \/ /\ \E l \in missing :
             /\ \A m \in missing : m <= l
             /\ tab' = [tab EXCEPT ![j.t].nodes = @ \cup {Node(l, va)}]
        /\ Kalloc /\ UNCHANGED <<frame, job>>
     \/ /\ missing = {}
        /\ tab' = [tab EXCEPT ![j.t].leaf[va] = NewPte(p, va)]
        /\ Go(p, IF t.leaf[va] # None THEN [j EXCEPT !.pc = "panic"]
                 ELSE [j EXCEPT !.pc = "page", !.todo = @ \ {va}])
        /\ UNCHANGED <<nfree, frame>>
  /\ UNCHANGED <<pages, sz, image>>
-----------------------------------------------------------------------------
Finds(p, op) == At(p, "page") /\ job[p].todo = {} /\ job[p].op = op

\* sys_exec() copies each argument into a page of its own.
SysExec(p, prog) ==
  /\ Calls(p)
  /\ Go(p, [IdleJob EXCEPT !.op = "exec", !.pc = "args", !.t = New(p),
                           !.prog = prog])
  /\ UNCHANGED <<pages, nfree, frame, tab, sz, image>>

\* The next one; bad: it cannot be read.  Then, or when there is no page,
\* those that were allocated are freed, this one too.
FetchArg(p, bad) ==
  /\ At(p, "args") /\ job[p].args < MaxArgs
  /\ IF nfree = 0 \/ bad
       THEN Kfree(job[p].args) /\ Go(p, IdleJob)
       ELSE Kalloc /\ Go(p, [job[p] EXCEPT !.args = @ + 1])
  /\ UNCHANGED <<pages, frame, tab, sz, image>>

\* kexec() begins; its caller frees the arguments when it returns.
\* After userinit(), forkret() calls it.
Kexec(p) ==
  /\ At(p, "args") /\ Go(p, [job[p] EXCEPT !.pc = "root"])
  /\ UNCHANGED <<pages, nfree, frame, tab, sz, image>>

KexecInit(p, prog) ==
  /\ Finds(p, "boot")
  /\ Go(p, [IdleJob EXCEPT !.op = "exec", !.pc = "root", !.t = New(p),
                           !.prog = prog])
  /\ UNCHANGED <<pages, nfree, frame, tab, sz, image>>

\* The size of the image that kexec() has made, in pages.
Loaded(j) ==
  IF j.seg > 0 /\ End(j.prog[j.seg]) > j.sz THEN End(j.prog[j.seg]) ELSE j.sz

\* walkaddr(): is va a page of the user?
Walkaddr(t, va) == t.leaf[va].u

\* loadseg() of the last segment, if there was one; it panics when a page is
\* not there.
Loadseg(t, j) ==
  [t EXCEPT !.leaf = [v \in VPages |->
     IF j.seg > 0 /\ v \in Text(j.prog[j.seg])
       THEN [t.leaf[v] EXCEPT !.c = "text"] ELSE t.leaf[v]]]

TextThere(t, j) ==
  j.seg > 0 => \A v \in Text(j.prog[j.seg]) : Walkaddr(t, v)

\* The segment that uvmalloc() has made room for is read, and uvmalloc()
\* begins for the next one or, after the last, for the stack.
ExecSegment(p) ==
  LET j == job[p]
      base == Loaded(j)
      top == IF j.seg < Len(j.prog) THEN End(j.prog[j.seg + 1])
             ELSE base + USERSTACK + 1
  IN
  /\ Finds(p, "exec") /\ j.seg <= Len(j.prog)
  /\ tab' = [tab EXCEPT ![j.t] = Loadseg(@, j)]
  /\ Go(p, [j EXCEPT !.pc = IF TextThere(tab[j.t], j) THEN @ ELSE "panic",
                     !.seg = @ + 1, !.sz = base, !.old = base,
                     !.todo = base .. top - 1])
  /\ UNCHANGED <<pages, nfree, frame, sz, image>>

\* The file is too short, or the next header makes no sense.
ExecBad(p) ==
  LET j == job[p] IN
  /\ Finds(p, "exec") /\ j.seg <= Len(j.prog) /\ Started(p)
  /\ Kfree(ProcFree(tab[j.t], Loaded(j)) + j.args)
  /\ tab' = [tab EXCEPT ![j.t] = NoTable]
  /\ Go(p, Ended(FreewalkLeaf(tab[j.t], Loaded(j))))
  /\ UNCHANGED <<pages, frame, sz, image>>

\* What a program finds in its memory when it starts.
StartImage(prog) ==
  LET base == CHOOSE e \in 0 .. MAXVA :
                /\ \A i \in DOMAIN prog : End(prog[i]) <= e
                /\ e = 0 \/ \E i \in DOMAIN prog : End(prog[i]) = e
  IN  [v \in VPages |->
         IF \E i \in DOMAIN prog : v \in Text(prog[i]) THEN "text"
         ELSE IF v = base + USERSTACK THEN "args" ELSE "zero"]

\* The stack is there: uvmclear() of the guard page.
Uvmclear(t, va) == [t EXCEPT !.leaf[va].u = FALSE]
Guarded(p) == Uvmclear(tab[New(p)], job[p].sz)
ImageTop(p) == job[p].sz + USERSTACK + 1
WithArgs(p) == [Guarded(p) EXCEPT !.leaf[ImageTop(p) - 1].c = "args"]

\* The arguments are on it, and the old image goes only now ...
ExecCommit(p) ==
  LET j == job[p]
      gone == tab[Cur(p)]
  IN
  /\ Finds(p, "exec") /\ j.seg = Len(j.prog) + 1
  /\ Kfree(ProcFree(gone, Up(sz[p])) + j.args)
  /\ tab' = [tab EXCEPT ![New(p)] = NoTable, ![Cur(p)] = WithArgs(p)]
  /\ sz' = [sz EXCEPT ![p] = ImageTop(p) * PGSIZE]
  /\ image' = [image EXCEPT ![p] = StartImage(j.prog)]
  /\ Go(p, Ended(FreewalkLeaf(gone, Up(sz[p]))))
  /\ UNCHANGED <<pages, frame>>

\* ... or they do not fit, and the new one goes.
ExecNoRoom(p) ==
  LET j == job[p] IN
  /\ Finds(p, "exec") /\ j.seg = Len(j.prog) + 1 /\ Started(p)
  /\ Kfree(ProcFree(Guarded(p), ImageTop(p)) + j.args)
  /\ tab' = [tab EXCEPT ![New(p)] = NoTable]
  /\ Go(p, Ended(FreewalkLeaf(Guarded(p), ImageTop(p))))
  /\ UNCHANGED <<pages, frame, sz, image>>

\* kfork() takes the free slot q, and allocproc() begins.
Kfork(p, q) ==
  /\ Calls(p) /\ q \notin frame /\ ~Busy(q)
  /\ Go(p, [IdleJob EXCEPT !.op = "fork", !.pc = "frame", !.t = Cur(q)])
  /\ UNCHANGED <<pages, nfree, frame, tab, sz, image>>

\* allocproc() is done, and uvmcopy() of the mapped pages begins.
ForkCopy(p) ==
  /\ Finds(p, "fork") /\ job[p].seg = 0
  /\ Go(p, [job[p] EXCEPT
                   !.seg = 1,
                   !.todo = Mapped(tab[Cur(p)]) \cap 0 .. Up(sz[p]) - 1])
  /\ UNCHANGED <<pages, nfree, frame, tab, sz, image>>

\* The child has its memory, and runs.
ForkDone(p) ==
  /\ Finds(p, "fork") /\ job[p].seg = 1
  /\ sz' = [sz EXCEPT ![Child(p)] = sz[p]]
  /\ image' = [image EXCEPT ![Child(p)] = image[p]]
  /\ Go(p, IdleJob)
  /\ UNCHANGED <<pages, nfree, frame, tab>>

\* The end of a process: kexit(), and freeproc() in the kwait() of its parent.
\* So ends one that usertrap() kills, for an address that vmfault() refuses
\* or has no memory for.
Exit(p) ==
  /\ Runs(p) /\ p # FirstProc
  /\ Kfree(ProcFree(tab[Cur(p)], Up(sz[p])) + 1)
  /\ frame' = frame \ {p}
  /\ tab' = [tab EXCEPT ![Cur(p)] = NoTable]
  /\ sz' = [sz EXCEPT ![p] = 0]
  /\ image' = [image EXCEPT ![p] = Image0]
  /\ Go(p, Ended(FreewalkLeaf(tab[Cur(p)], Up(sz[p]))))
  /\ UNCHANGED pages
-----------------------------------------------------------------------------
\* sys_sbrk() with SBRK_EAGER: growproc() and uvmalloc() begin.
Grow(p, n) ==
  /\ Calls(p) /\ n > 0 /\ sz[p] + n <= TRAPFRAME * PGSIZE
  /\ Go(p, [IdleJob EXCEPT !.op = "grow", !.pc = "page", !.t = Cur(p),
                           !.old = Up(sz[p]), !.sz = sz[p] + n,
                           !.todo = Up(sz[p]) .. Up(sz[p] + n) - 1])
  /\ UNCHANGED <<pages, nfree, frame, tab, sz, image>>

GrowDone(p) ==
  /\ Finds(p, "grow")
  /\ sz' = [sz EXCEPT ![p] = job[p].sz]
  /\ Go(p, IdleJob)
  /\ UNCHANGED <<pages, nfree, frame, tab, image>>

\* Wrong on purpose: the new size rounded down.
DeallocDown(old, new) ==
  IF new >= old THEN {} ELSE new \div PGSIZE .. Up(old) - 1

\* The pages uvmdealloc() gives back.
Dealloc(old, new) == IF new >= old THEN {} ELSE Up(new) .. Up(old) - 1

\* sys_sbrk() with n < 0: growproc() and uvmdealloc().  sz + n is unsigned:
\* below 0 it is larger than any size, and sbrk() returns without an error
\* and without a change.
Shrink(p, n) ==
  LET new == IF sz[p] + n < 0 THEN sz[p] ELSE sz[p] + n
      V == Dealloc(sz[p], new)
  IN
  /\ Calls(p) /\ n < 0 /\ new >= Floor
  /\ Kfree(Size(tab[Cur(p)], V))
  /\ tab' = [tab EXCEPT ![Cur(p)] = Unmap(@, V)]
  /\ sz' = [sz EXCEPT ![p] = new]
  /\ image' = [image EXCEPT ![p] = [v \in VPages |->
                              IF v < Up(new) THEN image[p][v] ELSE "zero"]]
  /\ UNCHANGED <<pages, frame, job>>

\* sys_sbrk() with SBRK_LAZY: only the size.
LazySbrk(p, n) ==
  /\ Calls(p) /\ n > 0 /\ sz[p] + n <= TRAPFRAME * PGSIZE
  /\ sz' = [sz EXCEPT ![p] = @ + n]
  /\ UNCHANGED <<pages, nfree, frame, tab, job, image>>

\* A store to a page that is there, by the process or by copyout(), which
\* takes only pages of the user that can be written.
Store(p, va) ==
  /\ Runs(p) /\ Walkaddr(tab[Cur(p)], va) /\ tab[Cur(p)].leaf[va].w
  /\ tab' = [tab EXCEPT ![Cur(p)].leaf[va].c = p]
  /\ image' = [image EXCEPT ![p][va] = p]
  /\ UNCHANGED <<pages, nfree, frame, sz, job>>

\* A page fault that usertrap() answers with vmfault(), or a page that
\* copyin(), copyinstr() or copyout() ask it for: one below sz that is not
\* mapped.
Vmfault(p, va) ==
  /\ Runs(p) /\ va < Up(sz[p]) /\ tab[Cur(p)].leaf[va] = None
  /\ Go(p, [IdleJob EXCEPT !.op = "fault", !.pc = "page", !.t = Cur(p),
                           !.old = va, !.todo = {va}])
  /\ UNCHANGED <<pages, nfree, frame, tab, sz, image>>

FaultDone(p) ==
  /\ Finds(p, "fault") /\ Go(p, IdleJob)
  /\ UNCHANGED <<pages, nfree, frame, tab, sz, image>>
-----------------------------------------------------------------------------
MemStep(p) ==
  \/ AllocFrame(p) \/ AllocRoot(p)
  \/ \E va \in VPages : AllocPage(p, va) \/ MapPage(p, va) \/ Vmfault(p, va)
  \/ \E prog \in Programs : SysExec(p, prog) \/ KexecInit(p, prog)
  \/ (\E bad \in BOOLEAN : FetchArg(p, bad)) \/ Kexec(p)
  \/ ExecSegment(p) \/ ExecBad(p) \/ ExecCommit(p) \/ ExecNoRoom(p)
  \/ (\E q \in Processes : Kfork(p, q)) \/ ForkCopy(p) \/ ForkDone(p)
  \/ Exit(p)
  \/ (\E n \in Increments : Grow(p, n) \/ Shrink(p, n) \/ LazySbrk(p, n))
  \/ GrowDone(p) \/ FaultDone(p)
  \/ \E va \in Written : Store(p, va)

MemNext == \E p \in Processes : MemStep(p)

MemSpec == MemInit /\ [][MemNext]_memVars
-----------------------------------------------------------------------------
\* The pages in use, by what uses them: tables, memory, the arguments of an
\* exec, and an operation that has one in hand.
Nodes == [t \in Tables |-> tab[t].nodes]
Leaves == [t \in Tables |-> Mapped(tab[t]) \cap UserPages]
ArgPages == [p \in Processes |-> 1 .. job[p].args]
Hands == {p \in Processes : At(p, "walk") /\ job[p].todo \subseteq UserPages}

Pairs(F) == UNION {{a} \X F[a] : a \in DOMAIN F}
Total(F) == Cardinality(Pairs(F))

(* Every page is free or in use, and none is both: after any operation and *)
(* any failure half way through one, an exec, fork or sbrk for which       *)
(* memory runs out gives back what it took, once.  Memory above sz is not  *)
(* mapped, so that freewalk() meets no leaf, and nobody panics.            *)
PagesExact ==
  /\ \A p \in Processes : ~At(p, "panic")
  /\ nfree + Cardinality(frame) + Cardinality(Hands) + Total(ArgPages)
     + Total(Nodes) + Total(Leaves) = pages
  /\ \A p \in Processes : Runs(p) =>
       Mapped(tab[Cur(p)]) \cap UserPages \subseteq 0 .. Up(sz[p]) - 1

(* A process finds in its memory what it has put there, whatever other     *)
(* processes do: the child of a fork what its parent had, a page that was  *)
(* allocated late or by sbrk zeros, a failed exec or fork no change, and   *)
(* the rest of a page that sbrk gives up in part is kept.                  *)
MemoryKept ==
  \A p \in Processes : Runs(p) => \A v \in 0 .. Up(sz[p]) - 1 :
    image[p][v] = IF tab[Cur(p)].leaf[v] = None THEN "zero"
                  ELSE tab[Cur(p)].leaf[v].c
=============================================================================
