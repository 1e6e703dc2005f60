# A TLA+ verification of the xv6 kernel and programs of tareas_so

The repository is a student fork of MIT's xv6 for RISC-V: a small Unix-like
kernel (`src/xv6/kernel`), its user programs (`src/xv6/user`) and the tool that
builds a disk image (`src/xv6/mkfs`). The fork's own programs are
`user/threads.c` (user-level threads), `user/primes.c` (a sieve of processes
connected by pipes) and `user/find.c` (a recursive search).

## The system's parts and how they interact

| part | state | operations | interacts with |
|---|---|---|---|
| spinlocks (`spinlock.c`) | `locked`, `cpu`; per CPU `noff`, `intena` | `acquire`, `release`, `push_off`, `pop_off` | everything |
| sleep and wakeup (`proc.c`) | `p->chan`, `p->state` | `sleep_prepare`, `sleep`, `wakeup` | every part that waits |
| sleep locks (`sleeplock.c`) | `locked`, `pid` | `acquiresleep`, `releasesleep`, `holdingsleep` | buffers, inodes |
| processes (`proc.c`, `sysproc.c`, `trap.c`) | `proc[]`, `nextpid`, `wait_lock` | `kfork`, `kexit`, `kwait`, `kkill`, `allocproc`, `freeproc` | scheduler, memory, files |
| scheduler (`proc.c`, `swtch.S`) | `cpus[].proc`, `p->lock` across the switch | `scheduler`, `sched`, `yield`, `forkret` | processes, clock |
| log (`log.c`) | header on disk and in memory, `outstanding`, `committing`, `ncommit` | `begin_op`, `log_write`, `end_op`, `commit`, recovery, `sys_sync` | buffer cache, every file system call |
| buffer cache (`bio.c`) | buffers, `refcnt`, `valid`, the LRU list | `bget`, `bread`, `bwrite`, `brelse`, `bpin`, `bunpin` | log, disk driver, sleep locks |
| disk driver (`virtio_disk.c`) | descriptors, available and used rings | `virtio_disk_rw`, `virtio_disk_intr` | buffer cache, device |
| pipes (`pipe.c`) | `data`, `nread`, `nwrite`, `readopen`, `writeopen` | `pipealloc`, `pipewrite`, `piperead`, `pipeclose` | files, sleep and wakeup |
| inodes, directories (`fs.c`) | `itable`, dinodes, bitmap | `ialloc`, `iget`, `iput`, `itrunc`, `bmap`, `dirlink`, `namex`, `ireclaim` | log, buffer cache |
| open files (`file.c`, `sysfile.c`) | `ftable`, `p->ofile` | `filealloc`, `filedup`, `fileclose`, the file system calls | inodes, pipes, devices |
| page allocator (`kalloc.c`), page tables (`vm.c`) | `freelist`, page tables | `kalloc`, `kfree`, `mappages`, `uvmalloc`, `uvmcopy`, `vmfault` | processes |
| console, UART (`console.c`, `uart.c`) | ring buffer `r`, `w`, `e`; `tx_busy` | `consoleread`, `consoleintr`, `uartwrite`, `uartintr` | files, sleep and wakeup |
| memory of a process (`exec.c`, `vm.c`, `sysproc.c`) | page tables, `p->sz` | `kexec`, `sys_sbrk`, `growproc`, page faults | page allocator, processes, inodes |
| shell (`sh.c`) | a tree of commands per line; processes and descriptors | `parsecmd`, `runcmd` | fork, pipe, open, exec, wait |
| allocator of user programs (`umalloc.c`) | the circular list of free blocks | `malloc`, `free`, `morecore` | `sbrk` |
| user-level threads (`threads.c`, `thread_switch.S`) | the table of threads | `thread_init`, `thread_create`, `thread_schedule` | none |
| sieve (`primes.c`), search (`find.c`) | processes and pipes; descriptors | | system calls |

What is hard in this system is the same everywhere: a process tests a
condition under a spinlock, gives the lock up and sleeps, while another
process, another CPU or an interrupt makes the condition true. This kernel
splits the step in two, `sleep_prepare(chan)` under the lock and `sleep()` after
it, and `wakeup()` clears `p->chan` so that a wakeup that comes in between is
not lost. On top of that come crashes between block writes (the log), reuse of
table entries (processes, descriptors), counters that wrap around (pipes, the
rings of the disk, the line buffer of the console), descriptors that fork
duplicates (pipes, the sieve, the shell), and operations of many steps that run
out of blocks, inodes, files or pages half way (files, memory, exec).

What makes each part correct:

* sleep locks: one holder; no lost wakeup; a waiter is woken.
* log: file system calls are atomic with respect to crashes; space is reserved
  before it is used; nobody waits for an end that has already happened;
  `sys_sync()` returns only when what came before it is on disk.
* processes: one CPU on a kernel stack; no exit is missed by `wait`; every
  process has a parent; kill hits its target and nobody else.
* pipes: a bounded first-in first-out queue; the end of file is never early
  and always arrives; the page is freed once, after its last use.
* disk driver: no buffer or descriptor is reused while the device works on it;
  every completion is seen.
* buffer cache, inodes, files: one copy of a block or inode in memory, not
  recycled while somebody refers to it; what has no more links is freed, after
  a crash too.
* memory: a page has one owner, a failed operation gives back what it took, and
  a process finds in its memory what it has put there.
* console: what was typed and edited is read once and in order; a write ends.
* shell: a program starts with the arguments, input and output that the line
  means and with no descriptor too many; the prompt returns.
* malloc: blocks do not overlap, and free memory is joined again.
* find: prints what exists, once.
* threads: the thread marked as running is the one that runs, on its own stack.
* sieve: prints the primes in order, and every process ends.

## Modules

| module | models | kind |
|---|---|---|
| `SleepLock` | `sleeplock.c`, and of `proc.c` `sleep_prepare`, `sleep`, `wakeup`, the wakeup of `kkill` | specification |
| `Mutex` | what a sleep lock promises | abstract specification |
| `Log` | `log.c`, and the part of `bio.c` it depends on | specification |
| `AtomicDisk` | what the log promises | abstract specification |
| `MCLog`, `LogProofs` | | for TLC, proofs |
| `Proc` | fork, exit, wait, kill and the scheduler of `proc.c`; faults and clock of `trap.c` | specification |
| `MCProc`, `ProcProofs` | `ProcProofs` also about `Memory`, `Threads`, `Sieve` and `Heap` | for TLC, proofs |
| `Pipe` | `pipe.c`, with the reference counts of `file.c` | specification |
| `Channel` | what a pipe promises | abstract specification |
| `MCPipe`, `PipeProofs` | | for TLC, proofs |
| `ModLemmas` | arithmetic of counters modulo a number | lemmas |
| `VirtioDisk` | `virtio_disk.c`, and a device | specification |
| `VirtioDiskProofs` | | proofs |
| `BufCache` | `bio.c`, under file system calls and the commit of `log.c` | specification |
| `CacheProofs` | about `SleepLock` and `BufCache` | proofs |
| `MCDisk` | the driver and the cache, side by side | for TLC |
| `FileSys` | names, links, the inode table, open files: upper half of `fs.c`, `sysfile.c`, `file.c` | specification |
| `MCFileSys`, `FileSysProofs` | | for TLC, proofs |
| `FileData` | bitmap, block lists, data and sizes: lower half of `fs.c`, `fileread` and `filewrite` of `file.c`, `mkfs.c` | specification |
| `MCFileData` | (proofs in `FileSysProofs`) | for TLC |
| `Memory` | `kalloc.c`, `vm.c`, `exec.c`, and what `proc.c`, `sysproc.c` and `sys_exec` do with memory | specification |
| `MCMemory` | | for TLC |
| `Console` | `console.c`, `uart.c`, and a device | specification |
| `ConsoleProofs` | | proofs |
| `Shell` | `sh.c`, and the kernel as it uses it | specification |
| `Threads` | `threads.c`, `thread_switch.S` | specification |
| `Sieve` | `primes.c` | specification |
| `Heap` | `umalloc.c` | specification |
| `Find` | `find.c` | specification |
| `MCPrograms` | the five programs above, side by side | for TLC |

`FileSys` rests on what `Log` shows (`AtomicDisk`: the writes of calls that overlap
become durable together), `BufCache` on `SleepLock`, `FileData` on `FileSys` (an inode
that is open stays) and `Shell` and `Sieve` on `Pipe` (`Channel`).

Operators named "wrong on purpose" in a comment are faulty versions of the
definition that follows them. No specification uses them; put in its place,
each makes TLC report a violation of one property, which shows that the
property depends on that code.

### How state and actions correspond to the code

**Grain of the steps.** A section of code under one spinlock is one step, since
nobody else sees its middle, with three exceptions where the order inside
matters or the lock is held across other steps: `lk->lk` in `SleepLock` (a
`wakeup` visits the process table one entry at a time), `pi->lock` in `Pipe`
(one step for each byte, between which a kill can arrive) and `p->lock` across
`swtch()` in `Proc`. `sleep_prepare()` and `sleep()` are always two steps.

**SleepLock.** `lk` is the holder of the spinlock `lk->lk`, `locked` and `owner`
are `lk->locked` and `lk->pid`, `waiting` the processes whose `p->chan` is the
lock, `todo` the entries that a `wakeup()` under way has yet to visit.
`CallAcquire`, `LockSpin`, `SleepPrepare`, `TakeLock`, `Sleep` and `Resume` are
`acquiresleep()`; `CallRelease` (with `holdingsleep()`), `ReleaseSleep`,
`WakeOne` and `EndRelease` are a release.

**Log.** `disk`, `logd`, `hn`, `hblock` are on disk and survive `Crash`; `n`,
`block`, `cache`, `pin`, `outstanding`, `committing` do not. A block's contents
are a value; a crash in the middle of a transfer leaves `Torn`. `tail` is the
loop counter of the copying loops, which do one block per step. `Evict` is
`bget()` recycling an unpinned buffer. `ncommit` is unbounded in the code and
only ever compared with an earlier reading of itself, so the model keeps the
difference, `due`. `used`, `ended` and `debt` are history: the blocks a call has
written, the calls that ended and are not committed, and those of them that a
`sys_sync()` must wait for.

**Proc.** `state`, `pid`, `parent`, `killed`, `chan` are fields of `struct proc`;
`sw` tells on which side of `swtch()` a process is, which is when `p->lock` is
held by one side and released by the other; `wait_lock` is explicit. Files,
memory and the working directory of a process are left out.

**Pipe.** `data`, `nread`, `nwrite`, `readopen`, `writeopen` as in `struct pipe`;
`rfds`, `wfds` the processes with a descriptor of each end (`f->ref` is their
number); `n` and `i` the arguments and loop counters; `ch` the byte that
`piperead()` copies. Both counters are taken modulo `CounterMod`, which stands
for 2^32. A failing `copyin` or `copyout` is a step (`WriteFault`, `ReadFault`).

**VirtioDisk.** `free`, `next`, `b`, `status` are the descriptors and
`disk.info`; `avail`, `used` and their indices the rings; `disk` the buffers with
`b->disk` set. A request is named by its process, which holds the buffer's
lock. The device (external) takes requests in order, completes them in any
order and raises its interrupt some time after; it always succeeds, a failing
disk being a panic by design. `IdxMod` stands for 2^16.

**BufCache.** `buf` is the array of buffers with `refcnt`, `valid`, the holder of the
lock and the contents; `lru` is the list. Callers read blocks, change them inside
a transaction, and the last `end_op()` runs the commit on the same buffers, in
the order of `write_log()` and `install_trans()`. A read or write of a block is one
step: the driver below is `VirtioDisk`. `latest` is history.

**FileSys.** `disk` is what the calls see through the log and `saved` what a crash
goes back to; `EndOp` of the last open call copies one to the other. `inode` is
`itable`: one entry per inode, since a free entry can hold any, and `iget()`
clears `valid`. `lock` is kept only where a call holds it over several steps. A
call is a sequence of critical sections with its place in `pr`: `todo` lists the
inodes it has yet to `iput()`, each with the four steps of the code, because
between the unlock of the truncated inode and `ifree()` others run. `CreateNew` is
one step: nobody can reach the new inode before its entry is written. Whether a
block is left for an entry (`full`) is open. Files are opened read-only, the
offsets and the data are in `FileData`, devices are left out, and `link()` is
bounded by `MaxLink`. `Pointers` lists what may point to an inode, for the count of
its holders.

**FileData.** `used` is the bitmap, `data` the blocks, `size` and `addrs` the inodes,
`ilk` their locks; a step is one `balloc()` or `bfree()` with the entry it is for, or
the bytes of one block, under the inode's lock. Words of a block are bytes or
block numbers, so an indirect block is a block like the others. `mkfs` runs first
(`Iappend`, `MkfsDone`), a block or a byte at a time. `WriteBlock` has the copy that
fails after some bytes; the disk fills up in every run. `held` and `len` are history:
what was written. Crashes are left to `Log` and `FileSys`: each chunk of a write is
one transaction.

**Memory.** Pages are counted, not named: a page of memory is the leaf that maps
it, with its content, and a page table the set of its inner tables, so that a
page lost, freed twice or mapped twice shows in the sum. One step allocates one
page; what an operation frees, it frees in one step, since nobody else sees its
table and the order of the free list does not matter. `image` is history: what
the process should find. `job` is the operation of a process under way: what it is
(`op`), how far it has come (`pc`), the table `t` it fills, the pages `todo` it has yet to
map, the size `old` that `uvmalloc()` began with, the size `sz` of the image so far (for
`sbrk` the size it asks for), the segment of `kexec()`, and `args`, the pages `sys_exec()`
holds. `MapPage` adds one table on the way of `walk()`, or the leaf. A panic of
`freewalk()`, `loadseg()` or `mappages()` is the place `"panic"`. When `/init` cannot be
started, `forkret()` panics by design: the place is `"halt"`, and nothing runs. The
model takes three things for granted: a program and its stack fit below the
trapframe (a page table of the code maps 256 GB, so memory ends first); its headers
are such that `kexec()` takes them, the failing ones being `ExecBad`; and no process
shrinks itself to nothing, since it runs in that memory (`Floor`).

**Console.** `cons` as in the code, with `uint` indices modulo `IndexMod`; `lock` is
`cons.lock`, `txlock` the sleep lock of `uartwrite()`; `chan` the processes that have
called `sleep_prepare()`; `intr` where the interrupt handler is. An echo waits for
the transmitter with `cons.lock` held (`Spin`) and may slip in between a writer's
test of the status register and its store (`WriteThr`). `line` is history.

**Shell.** A line is a sequence of tokens and a word of a command is its position,
as a pointer into the line is in the code; `nuls` is where `nulterminate()` has
written a NUL, and `Str` reads up to the next one. A process is named after its
place in the tree. `cd` and blank lines fork nothing.

**Heap** counts in headers; `list` are the free blocks with `base`. **Find** keeps names
as sequences of characters, because `concatenar_cadenas()` cuts them; a call of
`buscar_archivo()` is a frame of `llamadas`, and descriptors are only counted: they
are never closed.

**Threads.** `estado` and `saved` are the table, `cpu` the registers; registers
are abstracted to the stack they point into, the code they run and how far it
got. **Sieve** takes `primes.c` with pipes whose operations are whole numbers
(a `write` of four bytes to a pipe of 512 is never split between other data,
since every pipe has one writer and one reader); `fork()` may fail.

## What is checked

| run | module | bounds | properties |
|---|---|---|---|
| `sleeplock` | `SleepLock` | 3 processes | `NoLostWakeup` `ImplementsMutex` `SleepersWake` |
| `log` | `MCLog` | 2 processes, 2 blocks, 2 values, log of 4, 2 blocks reserved per call and 1 written | `SpaceReserved` `NeverStuck` `ImplementsAtomicDisk` `SyncDurable` |
| `proc_safety` | `MCProc` | 3 table entries, 2 CPUs, 4 pids, `kill(0)` included | `OneStack` `NoLostChild` `ParentAlive` `NoStrayKill` |
| `proc_live` | `MCProc` | 3 entries, 1 CPU, 3 pids | `OrphansReaped` `KilledExits` |
| `pipe` | `MCPipe` | 2 processes, 2 byte values, ring of 1, counters modulo 3, calls of up to 2 bytes | `NoUseAfterFree` `EofOnlyAtEnd` `ReadersWoken` `WritersNotForgotten` `ImplementsChannel` `CallsReturn` |
| `pipe_kill` | `MCPipe` | 3 processes, ring of 1 | `ReadersNotForgotten` is violated |
| `disk` | `MCDisk` | driver: 3 processes, 8 descriptors, indices modulo 16; cache: 2 processes, 3 buffers, 3 home blocks, a log of 3, 3 blocks reserved per call and 1 written | `DmaSafe` `NoRequestLost` `NoCompletionMissed` `DescriptorsKept` `CacheCoherent` |
| `filedata` | `MCFileData` | 2 processes, 2 files, 5 data blocks of 2 words, 1 direct and 2 indirect blocks per file, writes and reads of 3 | `BlocksExact` `DataKept` |
| `fs` | `MCFileSys` | 2 processes, 3 inodes, 2 names, 8 calls with a path, 1 file, 2 descriptors, 1 crash | `NamesSound` `RefsCounted` `NoOrphans` |
| `memory` | `MCMemory` | 2 processes, 24 pages, 3 levels of 2 entries, pages of 3 bytes, a program of 2 segments, 1 argument | `PagesExact` `MemoryKept` |
| `console` | `Console` | 1 reader, 1 writer, buffer of 2, indices modulo 4, 3 characters typed out of 5 kinds | `InputKept` `CallsEnd` |
| `programs` | `MCPrograms` | shell: 17 first lines, a second one, pipes of 1 byte; threads: 4 slots, 2 functions; primes to 23, pipes of one number, 11 processes; malloc: a heap of 12 units, requests of 1 to 3 units, `morecore()` of 4; find: 2 trees, 5 starts, 4 names, 4 descriptors | `Wired` `PromptReturns` `ThreadsSound` `SieveSound` `Terminates` `HeapTiled` `FoundExactly` |

In `disk` and `programs` a variable `which` picks the part that runs; the others keep
their initial state, so the states add up and do not multiply.

What the newer runs show:

* `fs`: a directory entry never leads to a free inode, in memory or after a crash,
  although `sys_link()` counts first and links later and `iput()` lets go of the
  inode before it is free (`NamesSound`); every `ref` is the number of pointers,
  on all the error paths (`RefsCounted`); nothing without a name and a holder
  stays allocated, not even after a crash with the file open (`NoOrphans`).
* `filedata`: writes that fail half way neither leak nor share a block, a read never
  meets a hole (it would panic outside a transaction), and every byte comes back.
* `memory`: whatever allocation fails, in `exec`, `fork`, `sbrk` or a fault, each page
  ends free or in use and the failed call has changed nothing.
* `console`: the three indices and the edited line agree while they wrap around,
  and no interrupt between test and sleep is lost.
* `disk`, the cache: a holder of a buffer sees the last value of its block while
  buffers are recycled and a commit runs, and `bget()` always finds a buffer.
* `programs`: the shell starts each program with what the line means, and the
  prompt comes back; the heap is tiled; `find` is right within its limits.

Why the bounds are enough for the interesting cases to happen:

* three processes let one release wake two waiters of a sleep lock, of which
  one must go back to sleep;
* a log of 4 with 2 blocks reserved per call lets two calls overlap and makes
  a third wait, both because of open calls and because of blocks that ended
  calls have left; two blocks make a commit that a crash can cut in half. The
  call limit is the code's: `OpLimit` below `MAXOPBLOCKS`;
* three table entries and four pids let an entry be reused and an orphan be
  handed to init while its parent's entry is taken again; two CPUs race for
  one process;
* counters of a pipe modulo 3 with a ring of 1 wrap around many times, and
  calls of 2 bytes do not fit in the ring; larger rings, where the order of the
  bytes matters, are covered by the proof;
* eight descriptors hold two requests and leave two over, so that a third
  process takes two, gives them back and wakes the others. `View` in `MCDisk`
  identifies states that differ only in consumed ring entries and in the status
  of free descriptors, which nobody reads again;
* there are as many buffers as log blocks, as in `param.h` (`NBUF` and `LOGBLOCKS` are
  both 30), and more blocks than buffers, so that every miss recycles one. A
  pinned block, the log block that the commit reads and the block of a reader
  take all three. A call that wrote all it reserves would leave `bget()` without a
  buffer; `OpLimit` says that calls write fewer, as those of this kernel do;
* three inodes, one of them a directory made by `mkdir`, let a file be linked into
  a directory that another process removes; one file and two descriptors run
  out, and one crash can fall into any call, the recovery too;
* five blocks are too few for both files, a write of 3 words crosses a block
  border and needs two chunks of a transaction;
* 24 pages let one process run and a second one fail at any of its allocations
  or just fit; three levels make a page need up to two new tables;
* the console's indices start at 3 of 4 and wrap within the first characters;
* the shell's lines have every node type, nested redirections, groups, jobs in
  the background during the next line, and the syntax errors of the parser;
* the sieve's limit gives a chain of nine processes; its pipes hold one number
  so that they are soon full.

Deadlock is checked except in the runs of `Pipe` (all descriptors may be closed),
`Console` (nobody need type) and `MCPrograms` (programs end).

**Fairness.** Whoever can run does in the end: the scheduler goes round the
process table for ever and the clock takes a CPU from a process that computes,
which is weak fairness of a process's own steps, strong where a step also needs
a spinlock that others take and release (xv6's spinlock does not queue; that a
waiter gets it in the end is assumed, as it is by the kernel). In `Proc`, where
CPUs are explicit, running is strongly fair and the run has one CPU: with two, a
process that spins for `wait_lock` could lose it to the other CPU for ever, and
`OrphansReaped` would fail for that reason. In `Console` processes and interrupts
are weakly fair and the device sends. In `Shell` only the system as a whole is
fair: whenever some process can run, one does. In `Heap` a call of `malloc()` or `free()`
that has begun goes on. Nothing is assumed about when
user programs make system calls, close descriptors (except killed processes,
which exit), type or are killed. Liveness of the log and of `sys_sync()` is not
claimed: overlapping calls can keep a commit from happening; `NeverStuck` says
that whoever sleeps has somebody left to wake it.

## What is proved

The proofs are checked by TLAPS for every value of the constants that meets the
`ASSUME` of the module. The bounds of the models (`MaxPid`, `MaxCrash`, `MaxTyped`,
`MaxLink` and so on) are constants too, and arbitrary numbers in the proofs.

**CacheProofs.** Of `SleepLock`: `TypeCorrect`, `MutexSafe`, `WakeupsArrive`, `PanicFree`
and `Refinement` (a sleep lock implements `Mutex`), for any set of processes.
Mutual exclusion is not inductive: it needs `SpinHeld` (whoever is between the
test of `locked` and its assignment holds the spinlock) and `OwnerKnown`
(`locked` and `pid` name the process in the critical section).

Of `BufCache`: `CacheIsCoherent` (`CacheCoherent`), for any processes, blocks and
contents and the sizes of `CacheAssumption`: there is a buffer for every block that
the log can hold once the open calls have written what they really write, and
one for every process.
`CacheInv` says that no block has two buffers and every buffer is in the list once
(`OneBuffer`, `ListWhole`); that `refcnt` is the number of holders plus the pin of the
log (`Counted`), so that what somebody uses is never recycled; that a block of the
log keeps a valid buffer until `install_trans()` unpins it, while every other block
is up to date on disk (`Fresh`, `Copied`), which is why a recycled buffer loses
nothing; and that the room which `begin_op()` reserves bounds the pinned buffers and
those the calls hold (`Room`), so that `bget()` finds one.

**LogProofs.** `TypeCorrect`, `NeverStuckProved`, `SyncProved` and `Refinement` (the
log implements `AtomicDisk`), for any finite set of processes and any blocks,
contents and log size. The invariant `IInv` is `TypeOK`, `Control` (which calls may
be where in each phase, and that `outstanding` counts the open ones) and `Data`
(how cache, log and home blocks agree in each phase: logged blocks are pinned
and cached, a block is torn on disk only if the log holds a copy that recovery
will write). The abstract durable state is the home blocks overlaid with the
log that the header on disk describes, so `WriteHead` is the step that commits
and the crash, recovery and installation steps leave the overlay alone.
`SpaceProved` (`SpaceReserved`) has the hypothesis `OpLimit < MAXOPBLOCKS`: with
equality it is false, see the finding on `log_write()` below. The invariant adds
that what an open call has written is in the log and is at most `OpLimit` blocks,
so that a `log_write()` after another call has used up its share still fits.

**PipeProofs.** `TypeCorrect`, `FreedUnused`, `EofCorrect`, `ReadersWake`,
`WritersWake` and `Refinement` (a pipe implements the bounded queue `Channel`), for
any processes and any ring size that divides the modulus of the counters, as
512 divides 2^32. `Shape` says who holds the lock, that a call has a reference to
its end, and where a process can be while it is registered on a channel. The
refinement adds `Size <= PipeSize`, from which `Full` is exactly a full queue, and
rests on `ModLemmas`: consecutive counters fall into consecutive slots, also
across the wrap, and slots of queued bytes are distinct.

**ProcProofs.** `TypeCorrect`, `StacksSafe` (`OneStack`), `ExitsSeen` (`NoLostChild`),
`ParentsLive` (`ParentAlive`) and `KillsAimed` (`NoStrayKill`), for any process table,
any number of CPUs and any arguments of `kill()`. The invariant ties `p->state` to
where the process is between its own code and the scheduler's (`SwitchState`,
`StatePc`), a CPU to a process that no other CPU runs (`OnCpu`), `wait_lock` to its
holder (`WaitLockHeld`) and a half-made child to the one `kfork()` that makes it
(`Forking`). `NoLostChild` needs `Told`: from `wakeup(p->parent)` on, the parent of a
process that has not become a zombie yet does not wait, because `wait_lock` is
held until it has. `ParentAlive` needs that past `reparent()` nobody has the
exiting process for a parent.

The same module has three of the user programs, and the memory of processes.

* `ThreadsAreSound` (`ThreadsSound`), for any size of the table: it is filled from
  below (`FilledFromBelow`), so the search of `thread_schedule()` from slot 0 only
  ever meets the first two threads, and the thread that is marked as running is
  the one on the processor, on its own stack.
* `SieveIsSound` (`SieveSound`), for any limit, any capacity of a pipe and any number
  of processes. `Flows` is the heart of it: pipe k holds, in order, the numbers
  which none of the first k processes drops and which process k has not read, so
  that the first one it reads is the smallest number with no smaller prime
  divisor, the next prime. A `fork()` that fails does so in the last process of the
  chain (`SieveControl`): what was printed is still a prefix of the primes.
* `HeapIsSound` (`HeapTiled`), for any requests, any unit of `morecore()` and any limit
  of the heap. `HeapInv` keeps the list in the order of addresses with no two free
  blocks touching, free and used blocks disjoint and together all of the heap
  below `brk`, and says of the loops of `malloc()` and `free()` where on the list they
  are; the order is what lets `free()` join a block with both neighbours at one
  place.
* `PagesAreExact` (`PagesExact`) and `MemoryIsKept` (`MemoryKept`), for any processes,
  number of pages, depth and width of page tables, any programs that fit and any
  arguments of `sbrk()`. Neither is inductive: both speak of processes that run, and
  say nothing of an operation that is half done. `MemInv` does. For each process,
  `JobShape` says which table an operation fills and what it may hold, and `FillOK`
  what the table looks like in the middle of it: what is still to be mapped is not
  mapped and lies above what is (`TodoOK`); an image of `kexec()` is filled up to the
  size the call remembers (`ExecOK`); a child has its parent's entries except those to
  be copied (`ForkOK`); `sbrk` and a fault touch only what they ask for (`GrowOK`,
  `FaultOK`). That is why the sizes kept by the error paths of `uvmalloc()`, `uvmcopy()`
  and `kexec()` free exactly what was taken, and `freewalk()` meets no leaf. `ImageOK`
  and `SizeOK` tie table, size and history, `AbsentOK` and `KidOK` say that a free slot
  has no memory and a child in the making does not run, and `OneParent` that one
  `kfork()` makes it. `Counted` is the sum of all pages; `TabCount` and `JobCount` show
  how it changes when one table or one operation does, from the cardinality
  theorems of the library. `OnlyOwnInv` and `ParentInv` say once what a step has to keep, for a
  process alone and for one with a child in the making; each action has then one
  lemma.

**VirtioDiskProofs.** `TypeCorrect`, `DmaIsSafe` (`DmaSafe`), `RequestsKept`
(`NoRequestLost`), `CompletionsSeen` (`NoCompletionMissed`), `DescriptorsSafe`
(`DescriptorsKept`) and `FreePanicFree` (`free_desc()` does not panic), for any
processes, any ring size of at least three and any modulus of the indices that
the size divides, whatever the order in which the device completes. A request
is in exactly one of the available ring, the device and the used ring
(`OnePlace`), and in no ring twice (`OnlyOnce`), so that a ring with a request still to come is not full and the new
entry overwrites nothing; the chains of three descriptors are disjoint and
cover all that is not free (`Chains`). An entry of the used ring has an interrupt
on its way or being served (`Signalled`), and whoever sleeps has to (`Waiting`).

**FileSysProofs.** `TypeCorrect`, `NamesProved` (`NamesSound`), `RefsProved`
(`RefsCounted`) and `OrphansFreed` (`NoOrphans`), for any finite sets of processes and
names, any numbers of inodes, files and descriptors, any calls, and any number
of crashes. The invariant has three layers.

* `DiskOK`, of the disk the calls see and of the committed one: link counts cover
  the entries, those of directories are exact, a directory with links is in the
  directory its `..` names, once, and the root is in none. `Counted` adds the links
  that `sys_link()` has counted and not written yet. That the committed disk
  satisfies it at any crash is the reason why `DiskOK` has to hold after every
  single step, also in the middle of calls that overlap.
* `Refs`, `Table`, `FileTable`: `ref` is the number of pointers, an entry in use is of
  an inode that is not free, a valid entry agrees with the disk, and a file is
  counted as often as it has descriptors.
* `Locked`, `LockHeld`, `Dirs`, `Freeing`, `Known`: the locks that a call relies on over
  several steps are its own, and what it found under them is still so (the
  entry that `sys_unlink()` erases); an inode that `iput()` frees has no other
  holder until `ifree()` is done, although it is unlocked before; and an inode
  without links is valid in the table or being freed, so that the last `iput()`
  sees `nlink == 0`. `NoOrphans` follows from `Known` and `Refs`.

`HoldersStep` counts how the pointers of one process change the holders of an
inode, and `StepOK` says once what a step of one process has to keep; each action
has then one lemma. The lemmas about disks (`CreatedOK`, `UnlinkedOK`, `EnteredOK`,
`RelinkedOK`, `ClearedOK`) count entries with the cardinality theorems of the
library. `MkfsOK` shows that the image of `mkfs` is a sound disk for any set of files
that fits.

The second part is about `FileData`: `BlocksAreExact` (`BlocksExact`) and `DataIsKept`
(`DataKept`), for any processes and files, any number and size of blocks, any number
of direct blocks, any lengths of calls and any image of `mkfs` whose root directory
does not fill its last block (see `mkfs.c:172` below). `DataInv` has three parts
beside the types.

* `InCall`: what a call found under the lock of its inode is still so; while it
  writes, the history is as long as the larger of the size and the place the
  loop has come to, and while it truncates, there is no history left.
* `Lists`: the entries that own a block own each their own (`Apart`), and the bitmap
  marks exactly these blocks (`Marked`). An entry of an indirect block stops owning
  its block when `itrunc()` has passed it, although its number stays in the block,
  and the indirect block itself is freed last: `TruncOwns` shows that each step of
  the loop takes away one owner and that `bfree()` never meets a free block.
* `Written`: below the length every byte has a block (`Covered`), which holds what was
  written (`Kept`). That a write touches no other file follows from `Apart`, since the
  block of a byte is no indirect block either (`ByteOwned`, `FillByte`). What `mkfs` has
  not written is clear (`Blank`, `Clear`): its rounding of the size of the root
  directory makes zeros part of the file, which is no harm within a block.

The arithmetic (`ByteAt`, `NextWords`, `SameBlock`) says which bytes share a block.

**ConsoleProofs.** `TypeCorrect` and `InputProved` (`InputKept`), for any readers,
writers, buffer size and modulus that the size divides, as 128 divides 2^32.
`consoleintr()` tests for room, echoes for as long as the device takes, and stores
after that; the invariant adds that `cons.lock` is held all the while (`Locked`) and
that the room is still there (`Fits`). That no reader sleeps over a line (`Waits`)
rests on `Store` waking all readers in the step that moves `w`.

## What is only model-checked

Liveness (`SleepersWake`, `OrphansReaped`, `KilledExits`, `CallsReturn`, `CallsEnd`,
`PromptReturns`, `Terminates`) is beyond the prover. `Wired` compares what `Shell` does
with a recursive reading of the line, and `FoundExactly` what `Find` prints with the
paths of a tree: both rest on recursion over data and would need induction.

## What the checks found

* A killed writer (`pipe.c:84`). `pipewrite()` returns without waking the readers
  when it finds itself killed, though it may have written bytes they wait for.
  Run `pipe_kill`; `ReadersWoken` is what holds without kills.
* `kill(0)` (`proc.c:608`). Free table entries have pid 0, so `kkill(0)` marks one
  of them as killed, and `allocproc()` does not clear the mark: the next process
  that gets the entry dies at its first trap. `NoStrayKill` makes this exception,
  and no other.
* `log_write()` (`log.c:229`) tests for a full log before it looks whether the
  block is in it already. A call that uses all it reserved and writes one of
  its blocks again would panic. The calls of this kernel write fewer than
  `MAXOPBLOCKS` blocks, which is why the assumption is `OpLimit < MAXOPBLOCKS`.
* `thread_schedule()` (`threads.c:80`) always starts its search at slot 0, so that
  threads after the second never run: `ThreadsSound` states it.
* Link counts (`sysfile.c:145`). `sys_link()` counts the link before it exists, so a
  file may have more links than names while the call runs; `NamesSound` is an
  inequality for that reason. The transaction hides it from crashes.
* `sbrk()` of more than the size (`proc.c:250`) wraps around and returns without an
  error and without a change.
* `find` (`find.c:50`): the buffer is sized by the wanted name, so the path of a
  directory with a longer name is cut and its contents are missed, or another
  directory's are printed twice; descriptors are never closed, so that open()
  fails after thirteen directories; a start path of two characters other than
  `./` is taken for `.`. `FoundExactly` is stated within these limits. The comment
  on line 61 says that the test of `.` and `..` could be left out; without it
  entries are printed again and again until the descriptors run out (`NoSkip`).
* Shell: of several redirections of one descriptor the first in the line wins,
  and a failing fork in `main()` ends the shell itself, not only the command.
* `mkfs.c:172` gives a root directory that fills its blocks exactly a block too
  many: its size covers a block that does not exist, and a reader would allocate
  it outside a transaction. The image this repository builds does not fill them,
  and `FileDataAssumption` leaves that size out.

## What is not modelled, and why

* Spinlocks and the nesting of `push_off()`: every module takes a spinlock for
  mutual exclusion, and the counter is private to a CPU.
* Start-up, interrupt controller, `printk`, string routines, the dispatch of system
  calls and the fetching of arguments, the reading of ELF headers: straight-line
  or data handling without state that steps of others could disturb.
* `sys_pause()` and the tick counter: one more use of sleep and wakeup, with a
  condition that only grows.
* Devices other than the console and `mknod`; descriptors inherited by fork (their
  counts are in `Pipe` and `Shell`); `iget()` with all fifty entries in use, which
  panics by design.
* The tests and stress programs, which exercise the kernel, and the remaining
  user programs, which are sequential input and output.
