-------------------------------- MODULE Log --------------------------------
(***************************************************************************)
(* The redo log of kernel/log.c over the buffer cache and the disk.        *)
(*                                                                         *)
(* File system calls wrap their writes in begin_op() and end_op(); the     *)
(* last of a group of overlapping calls commits the writes of all of them. *)
(* A crash may happen at any point, in the middle of a block write too: a  *)
(* block is two sectors, so it may be left torn.  The header is small      *)
(* enough to lie in one sector, which the disk writes whole.               *)
(*                                                                         *)
(* A step is one critical section of log.lock or one transfer of a block.  *)
(* A cached block is written back by the log only; the cache may drop any  *)
(* block whose buffer nobody pinned.  The cached copies of the log blocks  *)
(* and of the header always equal the disk and are left out.  ncommit is   *)
(* kept relative to each waiting sys_sync(): the commits it still awaits.  *)
(***************************************************************************)
EXTENDS Integers, FiniteSets

CONSTANTS Procs,        \* the processes that make file system calls
          Blocks,       \* the home blocks of the file system
          Values,       \* what a block can hold
          None,         \* not in the cache
          Torn,         \* what a write cut short by a crash leaves
          MAXOPBLOCKS,  \* the space begin_op() reserves for a call
          OpLimit,      \* the most blocks a call really writes
          LOGBLOCKS     \* the blocks of the log area

ASSUME LogAssumption ==
  /\ IsFiniteSet(Procs)
  /\ None \notin Values /\ Torn \notin Values /\ None # Torn
  /\ MAXOPBLOCKS \in Nat \ {0} /\ LOGBLOCKS \in Nat
  /\ MAXOPBLOCKS <= LOGBLOCKS
  /\ OpLimit \in 1 .. MAXOPBLOCKS

VARIABLES disk,         \* the home blocks on disk
          logd,         \* the log blocks on disk
          hn, hblock,   \* the header block on disk
          n, block,     \* log.lh, the header in memory
          cache,        \* the buffers of the home blocks
          pin,          \* the references bpin() holds on them
          outstanding, committing,  \* log.outstanding, log.committing
          due,          \* for sys_sync(): its n minus log.ncommit
          waiting,      \* the processes with p->chan == &log
          pc,           \* where each process is
          phase, tail,  \* where commit() or recover_from_log() is
          used,         \* history: the blocks an open call has written
          ended,        \* history: calls that wrote, ended, and may be lost
          debt          \* history: what had ended when sys_sync() began

mem == <<n, block, cache, pin, outstanding, committing>>
hdr == <<hn, hblock>>
hist == <<used, ended, debt>>
vars == <<disk, logd, hdr, mem, due, waiting, pc, phase, tail, hist>>

Slots == 1 .. LOGBLOCKS

PCs == {"out", "begin", "in", "commit", "sync", "syncwait", "panic"}

Phases == {"idle", "write_log", "install", "done", "boot", "recover"}

TypeOK ==
  /\ disk \in [Blocks -> Values \cup {Torn}]
  /\ logd \in [Slots -> Values \cup {Torn}]
  /\ hn \in 0 .. LOGBLOCKS /\ hblock \in [Slots -> Blocks]
  /\ n \in 0 .. LOGBLOCKS /\ block \in [Slots -> Blocks]
  /\ cache \in [Blocks -> Values \cup {None}]
  /\ pin \in [Blocks -> Nat]
  /\ outstanding \in Nat /\ committing \in BOOLEAN
  /\ due \in [Procs -> {0, 1}]
  /\ waiting \in SUBSET Procs
  /\ pc \in [Procs -> PCs]
  /\ phase \in Phases /\ tail \in 0 .. LOGBLOCKS
  /\ used \in [Procs -> SUBSET Blocks]
  /\ ended \in SUBSET Procs
  /\ debt \in [Procs -> SUBSET Procs]

\* A disk as mkfs leaves it, and a kernel that has not recovered the log yet.
Init ==
  /\ disk \in [Blocks -> Values]
  /\ \E v \in Values : logd = [i \in Slots |-> v]
  /\ hn = 0
  /\ \E b \in Blocks : hblock = [i \in Slots |-> b]
  /\ n = 0 /\ block = hblock
  /\ cache = [b \in Blocks |-> None]
  /\ pin = [b \in Blocks |-> 0]
  /\ outstanding = 0 /\ committing = FALSE
  /\ due = [p \in Procs |-> 0]
  /\ waiting = {}
  /\ pc = [p \in Procs |-> "out"]
  /\ phase = "boot" /\ tail = 0
  /\ used = [p \in Procs |-> {}]
  /\ ended = {}
  /\ debt = [p \in Procs |-> {}]

\* The kernel runs processes once initlog() has returned.
Up == phase \notin {"boot", "recover"}

\* What bread() returns for b: the buffer, filled from disk if need be.
Bread(b) == IF cache[b] = None THEN disk[b] ELSE cache[b]

Logged == {block[i] : i \in 1 .. n}
-----------------------------------------------------------------------------
\* Wrong on purpose: begin_op() that forgets the call about to begin.
BeginOpOffByOne(p) ==
  /\ Up
  /\ pc[p] = "out" \/ (pc[p] = "begin" /\ p \notin waiting)
  /\ ~committing /\ n + outstanding * MAXOPBLOCKS <= LOGBLOCKS
  /\ outstanding' = outstanding + 1
  /\ pc' = [pc EXCEPT ![p] = "in"]
  /\ used' = [used EXCEPT ![p] = {}]
  /\ UNCHANGED <<disk, logd, hdr, n, block, cache, pin, committing, due,
                 waiting, phase, tail, ended, debt>>

\* One critical section of begin_op(): wait, or join the transaction.
BeginOp(p) ==
  /\ Up
  /\ pc[p] = "out" \/ (pc[p] = "begin" /\ p \notin waiting)
  /\ IF committing \/ n + (outstanding + 1) * MAXOPBLOCKS > LOGBLOCKS
       THEN /\ waiting' = waiting \cup {p}
            /\ pc' = [pc EXCEPT ![p] = "begin"]
            /\ UNCHANGED <<outstanding, used>>
       ELSE /\ outstanding' = outstanding + 1
            /\ pc' = [pc EXCEPT ![p] = "in"]
            /\ used' = [used EXCEPT ![p] = {}]
            /\ UNCHANGED waiting
  /\ UNCHANGED <<disk, logd, hdr, n, block, cache, pin, committing, due,
                 phase, tail, ended, debt>>

\* Wrong on purpose: log_write() that does not pin the buffer.
LogWriteUnpinned(p, b, v) ==
  /\ pc[p] = "in"
  /\ b \in used[p] \/ Cardinality(used[p]) < OpLimit
  /\ cache' = [cache EXCEPT ![b] = v]
  /\ IF b \in Logged
       THEN UNCHANGED <<n, block>>
       ELSE n' = n + 1 /\ block' = [block EXCEPT ![n + 1] = b]
  /\ used' = [used EXCEPT ![p] = @ \cup {b}]
  /\ UNCHANGED <<disk, logd, hdr, pin, outstanding, committing, due, waiting,
                 pc, phase, tail, ended, debt>>

(* bread(), a change of the data, and log_write(), under the buffer's sleep *)
(* lock, which a panic leaves locked for good.  A call writes at most       *)
(* OpLimit blocks: its duty, not a test.                                    *)
LogWrite(p, b, v) ==
  /\ pc[p] = "in"
  /\ b \in used[p] \/ Cardinality(used[p]) < OpLimit
  /\ IF n >= LOGBLOCKS \/ outstanding < 1
       THEN /\ pc' = [pc EXCEPT ![p] = "panic"]
            /\ UNCHANGED <<n, block, cache, pin, used>>
       ELSE /\ IF b \in Logged
                 THEN UNCHANGED <<n, block, pin>>
                 ELSE /\ n' = n + 1
                      /\ block' = [block EXCEPT ![n + 1] = b]
                      /\ pin' = [pin EXCEPT ![b] = @ + 1]
            /\ cache' = [cache EXCEPT ![b] = v]
            /\ used' = [used EXCEPT ![p] = @ \cup {b}]
            /\ UNCHANGED pc
  /\ UNCHANGED <<disk, logd, hdr, outstanding, committing, due, waiting,
                 phase, tail, ended, debt>>

\* bread() of a block that is not in the cache.
FillCache(b) ==
  /\ Up
  /\ cache[b] = None
  /\ cache' = [cache EXCEPT ![b] = disk[b]]
  /\ UNCHANGED <<disk, logd, hdr, n, block, pin, outstanding, committing, due,
                 waiting, pc, phase, tail, hist>>

\* bget() recycles a buffer that has no reference.
Evict(b) ==
  /\ cache[b] # None /\ pin[b] = 0
  /\ cache' = [cache EXCEPT ![b] = None]
  /\ UNCHANGED <<disk, logd, hdr, n, block, pin, outstanding, committing, due,
                 waiting, pc, phase, tail, hist>>

\* The first critical section of end_op(); the last call out will commit.
EndOp(p) ==
  /\ pc[p] = "in"
  /\ outstanding' = outstanding - 1
  /\ IF committing
       THEN /\ pc' = [pc EXCEPT ![p] = "panic"]
            /\ UNCHANGED <<committing, phase, tail, waiting>>
       ELSE IF outstanding' = 0
       THEN /\ committing' = TRUE
            /\ pc' = [pc EXCEPT ![p] = "commit"]
            /\ phase' = IF n > 0 THEN "write_log" ELSE "done"
            /\ tail' = 0
            /\ UNCHANGED waiting
       ELSE /\ waiting' = {}
            /\ pc' = [pc EXCEPT ![p] = "out"]
            /\ UNCHANGED <<committing, phase, tail>>
  /\ ended' = IF used[p] = {} THEN ended ELSE ended \cup {p}
  /\ used' = [used EXCEPT ![p] = {}]
  /\ UNCHANGED <<disk, logd, hdr, n, block, cache, pin, due, debt>>
-----------------------------------------------------------------------------
\* write_log(): copy one modified block from the cache to the log.
WriteLog(p) ==
  /\ pc[p] = "commit" /\ phase = "write_log" /\ tail < n
  /\ logd' = [logd EXCEPT ![tail + 1] = Bread(block[tail + 1])]
  /\ tail' = tail + 1
  /\ UNCHANGED <<disk, hdr, mem, due, waiting, pc, phase, hist>>

\* write_head(): the header reaches the disk and the transaction commits.
WriteHead(p) ==
  /\ pc[p] = "commit" /\ phase = "write_log" /\ tail = n
  /\ hn' = n
  /\ hblock' = [i \in Slots |-> IF i <= n THEN block[i] ELSE hblock[i]]
  /\ phase' = "install" /\ tail' = 0
  /\ ended' = {}
  /\ debt' = [q \in Procs |-> {}]
  /\ UNCHANGED <<disk, logd, mem, due, waiting, pc, used>>

\* install_trans(0): one log block to its home, whose buffer is unpinned.
Install(p) ==
  /\ pc[p] = "commit" /\ phase = "install" /\ tail < n
  /\ LET b == block[tail + 1] IN
       /\ cache' = [cache EXCEPT ![b] = logd[tail + 1]]
       /\ disk' = [disk EXCEPT ![b] = logd[tail + 1]]
       /\ pin' = [pin EXCEPT ![b] = @ - 1]
  /\ tail' = tail + 1
  /\ UNCHANGED <<logd, hdr, n, block, outstanding, committing, due, waiting,
                 pc, phase, hist>>

\* log.lh.n = 0 and write_head(): erase the transaction from the log.
ClearHead(p) ==
  /\ pc[p] = "commit" /\ phase = "install" /\ tail = n
  /\ n' = 0 /\ hn' = 0
  /\ phase' = "done" /\ tail' = 0
  /\ UNCHANGED <<disk, logd, hblock, block, cache, pin, outstanding,
                 committing, due, waiting, pc, hist>>

\* Wrong on purpose: end_op() that commits and wakes nobody up.
CommitDoneSilent(p) ==
  /\ pc[p] = "commit" /\ phase = "done"
  /\ committing' = FALSE
  /\ due' = [q \in Procs |-> 0]
  /\ pc' = [pc EXCEPT ![p] = "out"]
  /\ phase' = "idle"
  /\ UNCHANGED <<disk, logd, hdr, n, block, cache, pin, outstanding, tail,
                 waiting, hist>>

\* The second critical section of end_op(): count the commit, wake everyone.
CommitDone(p) ==
  /\ pc[p] = "commit" /\ phase = "done"
  /\ committing' = FALSE
  /\ due' = [q \in Procs |-> 0]
  /\ waiting' = {}
  /\ pc' = [pc EXCEPT ![p] = "out"]
  /\ phase' = "idle"
  /\ UNCHANGED <<disk, logd, hdr, n, block, cache, pin, outstanding, tail,
                 hist>>
-----------------------------------------------------------------------------
\* A process calls sys_sync().
CallSync(p) ==
  /\ Up /\ pc[p] = "out"
  /\ pc' = [pc EXCEPT ![p] = "sync"]
  /\ debt' = [debt EXCEPT ![p] = ended]
  /\ UNCHANGED <<disk, logd, hdr, mem, due, waiting, phase, tail, used, ended>>

\* Wrong on purpose: sys_sync() that waits for a commit under way only.
SyncIgnoresOpenCalls(p) ==
  /\ pc[p] = "sync"
  /\ IF committing
       THEN /\ due' = [due EXCEPT ![p] = 1]
            /\ waiting' = waiting \cup {p}
            /\ pc' = [pc EXCEPT ![p] = "syncwait"]
       ELSE /\ pc' = [pc EXCEPT ![p] = "out"]
            /\ UNCHANGED <<due, waiting>>
  /\ UNCHANGED <<disk, logd, hdr, mem, phase, tail, hist>>

\* sys_sync(): return if the log is idle, else wait for one more commit.
SyncTest(p) ==
  /\ pc[p] = "sync"
  /\ IF committing \/ outstanding > 0
       THEN /\ due' = [due EXCEPT ![p] = 1]
            /\ waiting' = waiting \cup {p}
            /\ pc' = [pc EXCEPT ![p] = "syncwait"]
       ELSE /\ pc' = [pc EXCEPT ![p] = "out"]
            /\ UNCHANGED <<due, waiting>>
  /\ UNCHANGED <<disk, logd, hdr, mem, phase, tail, hist>>

\* The loop of sys_sync(), after sleep() has returned.
SyncLoop(p) ==
  /\ pc[p] = "syncwait" /\ p \notin waiting
  /\ IF due[p] > 0
       THEN waiting' = waiting \cup {p} /\ UNCHANGED pc
       ELSE pc' = [pc EXCEPT ![p] = "out"] /\ UNCHANGED waiting
  /\ UNCHANGED <<disk, logd, hdr, mem, due, phase, tail, hist>>

(* kkill() makes a sleeping process runnable; its chan stays set, but it is *)
(* set again or ignored by the loop the process returns to.                 *)
KillWake(p) ==
  /\ p \in waiting
  /\ waiting' = waiting \ {p}
  /\ UNCHANGED <<disk, logd, hdr, mem, due, pc, phase, tail, hist>>
-----------------------------------------------------------------------------
(* The machine stops.  The block being written keeps its old contents, has  *)
(* the new ones, or is torn; everything in memory is gone.                  *)
Crash ==
  /\ \/ UNCHANGED <<disk, logd>>
     \/ /\ phase = "write_log" /\ tail < n
        /\ logd' = [logd EXCEPT ![tail + 1] = Torn]
        /\ UNCHANGED disk
     \/ /\ phase \in {"install", "recover"} /\ tail < n
        /\ disk' = [disk EXCEPT ![block[tail + 1]] = Torn]
        /\ UNCHANGED logd
  /\ n' = 0 /\ block' = block
  /\ cache' = [b \in Blocks |-> None]
  /\ pin' = [b \in Blocks |-> 0]
  /\ outstanding' = 0 /\ committing' = FALSE
  /\ due' = [p \in Procs |-> 0]
  /\ waiting' = {}
  /\ pc' = [p \in Procs |-> "out"]
  /\ phase' = "boot" /\ tail' = 0
  /\ used' = [p \in Procs |-> {}]
  /\ ended' = {}
  /\ debt' = [p \in Procs |-> {}]
  /\ UNCHANGED hdr

\* read_head()
ReadHead ==
  /\ phase = "boot"
  /\ n' = hn
  /\ block' = [i \in Slots |-> IF i <= hn THEN hblock[i] ELSE block[i]]
  /\ phase' = "recover" /\ tail' = 0
  /\ UNCHANGED <<disk, logd, hdr, cache, pin, outstanding, committing, due,
                 waiting, pc, hist>>

\* install_trans(1)
Reinstall ==
  /\ phase = "recover" /\ tail < n
  /\ LET b == block[tail + 1] IN
       /\ cache' = [cache EXCEPT ![b] = logd[tail + 1]]
       /\ disk' = [disk EXCEPT ![b] = logd[tail + 1]]
  /\ tail' = tail + 1
  /\ UNCHANGED <<logd, hdr, n, block, pin, outstanding, committing, due,
                 waiting, pc, phase, hist>>

\* The end of recover_from_log(): log.lh.n = 0 and write_head().
RecoveryDone ==
  /\ phase = "recover" /\ tail = n
  /\ n' = 0 /\ hn' = 0
  /\ phase' = "idle" /\ tail' = 0
  /\ UNCHANGED <<disk, logd, hblock, block, cache, pin, outstanding,
                 committing, due, waiting, pc, hist>>
-----------------------------------------------------------------------------
Committer(p) ==
  WriteLog(p) \/ WriteHead(p) \/ Install(p) \/ ClearHead(p) \/ CommitDone(p)

Recovery == ReadHead \/ Reinstall \/ RecoveryDone

Next ==
  \/ \E p \in Procs :
       \/ BeginOp(p) \/ EndOp(p) \/ Committer(p)
       \/ CallSync(p) \/ SyncTest(p) \/ SyncLoop(p) \/ KillWake(p)
  \/ \E p \in Procs, b \in Blocks, v \in Values : LogWrite(p, b, v)
  \/ \E b \in Blocks : FillCache(b) \/ Evict(b)
  \/ Crash
  \/ Recovery

Spec == Init /\ [][Next]_vars

-----------------------------------------------------------------------------
(* The home blocks d overlaid with the k log blocks l of a header h.       *)
Overlay(d, l, k, h) ==
  [b \in Blocks |-> IF \E i \in 1 .. k : h[i] = b
                      THEN l[CHOOSE i \in 1 .. k : h[i] = b]
                      ELSE d[b]]

(* The disk a crash would leave, once recovery has run.                    *)
Durable == Overlay(disk, logd, hn, hblock)

View == [b \in Blocks |-> IF Up THEN Bread(b) ELSE Durable[b]]

(* The log implements an atomic disk: the writes of a system call become   *)
(* durable together and only when no call is half way, and a crash at any  *)
(* point of a commit or of a recovery loses or keeps them all.             *)
A == INSTANCE AtomicDisk WITH
       durable <- Durable, view <- View,
       open <- {p \in Procs : pc[p] \in {"in", "panic"}}
ImplementsAtomicDisk == A!Spec

(* The log blocks begin_op() set aside for the open calls, not yet used:   *)
(* the k-th of a call p stands for the k-th block p writes.                *)
Reserved ==
  {s \in Procs \X (1 .. MAXOPBLOCKS) :
     pc[s[1]] = "in" /\ s[2] > Cardinality(used[s[1]])}

(* The blocks in the log and those the open calls may still add fit in it: *)
(* what begin_op() reserves is enough, though it counts calls, not blocks, *)
(* and calls that have ended keep their blocks in the log.  log_write()    *)
(* never finds the log full, nor itself outside a transaction, and         *)
(* end_op() never meets a commit under way.                                *)
SpaceReserved ==
  /\ n + Cardinality(Reserved) <= LOGBLOCKS
  /\ \A p \in Procs : pc[p] # "panic"

(* When sys_sync() returns, every call that had ended when it began can be *)
(* lost by no crash, though it was only in the log of other calls.         *)
SyncDurable ==
  [][\A p \in Procs :
       pc[p] \in {"sync", "syncwait"} /\ pc'[p] = "out" /\ phase' # "boot"
         => debt[p] = {}]_vars

(* A process waits on the log only while a call is open or a commit runs,  *)
(* whose end will wake it up (unless the kernel has panicked).             *)
NeverStuck ==
  waiting # {} => \E p \in Procs : pc[p] \in {"in", "commit", "panic"}

=============================================================================
