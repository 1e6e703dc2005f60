-------------------------------- MODULE Pipe --------------------------------
(***************************************************************************)
(* One pipe (kernel/pipe.c), used by several processes through             *)
(* descriptors that fork() duplicates and close() drops (the reference     *)
(* counts of kernel/file.c).                                               *)
(*                                                                         *)
(* pi->lock is explicit: a call holds it over several steps, one for each  *)
(* byte, and only kill() gets in between.  A wakeup() on one of the        *)
(* pipe's channels is one step: its caller holds pi->lock, so nobody       *)
(* registers on the channel while it visits the process table, and the     *)
(* order in which it meets a process's own sleep() is kept (SleepLock.tla  *)
(* has the visits one by one).  nread and nwrite are unsigned ints that    *)
(* wrap around; 2^32 is the constant CounterMod, so that they do wrap.     *)
(***************************************************************************)
EXTENDS Integers, Sequences

CONSTANTS Procs,       \* the processes
          NoProc,      \* a null process pointer
          Bytes,       \* the values of a byte
          PipeSize,    \* PIPESIZE
          CounterMod,  \* 2^32, the modulus of uint
          MaxN         \* the largest n of a read() or write()

ASSUME PipeAssumption ==
  /\ NoProc \notin Procs
  /\ Bytes # {}
  /\ PipeSize \in Nat \ {0}
  /\ CounterMod \in Nat
  /\ CounterMod > PipeSize
  /\ CounterMod % PipeSize = 0
  /\ MaxN \in Nat

VARIABLES lock,       \* which process holds pi->lock, or NoProc
          data,       \* pi->data
          nread,      \* pi->nread
          nwrite,     \* pi->nwrite
          readopen,   \* pi->readopen
          writeopen,  \* pi->writeopen
          freed,      \* pi has been given to kfree()
          rfds,       \* the processes that hold a reference to the read file
          wfds,       \* the processes that hold one to the write file
          chan,       \* p->chan: the address of nread or of nwrite, or 0
          state,      \* p->state, RUNNING written RUNNABLE
          killed,     \* the processes with p->killed set
          n, i,       \* the variables of pipewrite() and piperead()
          ch,         \* the byte piperead() copied out last
          pc          \* where each process is

pipe == <<data, nread, nwrite, readopen, writeopen, freed, ch>>
fds == <<rfds, wfds>>
vars == <<lock, pipe, fds, chan, state, killed, n, i, pc>>

States == {"RUNNABLE", "SLEEPING"}
Chans == {"0", "nread", "nwrite"}
Reading == {"rlock", "read", "rsleep", "copy"}
Writing == {"wlock", "write", "wsleep"}
PCs == Reading \cup Writing \cup {"idle", "closer", "closew"}

TypeOK ==
  /\ lock \in Procs \cup {NoProc}
  /\ data \in [0 .. PipeSize - 1 -> Bytes]
  /\ nread \in 0 .. CounterMod - 1
  /\ nwrite \in 0 .. CounterMod - 1
  /\ readopen \in BOOLEAN
  /\ writeopen \in BOOLEAN
  /\ freed \in BOOLEAN
  /\ rfds \in SUBSET Procs
  /\ wfds \in SUBSET Procs
  /\ chan \in [Procs -> Chans]
  /\ state \in [Procs -> States]
  /\ killed \in SUBSET Procs
  /\ n \in [Procs -> 0 .. MaxN]
  /\ i \in [Procs -> 0 .. MaxN]
  /\ ch \in Bytes
  /\ pc \in [Procs -> PCs]

\* pipealloc(): the process that called pipe() holds both files.  The page
\* kalloc() returned is filled with one junk byte.
Init ==
  /\ lock = NoProc
  /\ \E junk \in Bytes : data = [k \in 0 .. PipeSize - 1 |-> junk] /\ ch = junk
  /\ nread = 0
  /\ nwrite = 0
  /\ readopen = TRUE
  /\ writeopen = TRUE
  /\ freed = FALSE
  /\ \E p \in Procs : rfds = {p} /\ wfds = {p}
  /\ chan = [p \in Procs |-> "0"]
  /\ state = [p \in Procs |-> "RUNNABLE"]
  /\ killed = {}
  /\ n = [p \in Procs |-> 0]
  /\ i = [p \in Procs |-> 0]
  /\ pc = [p \in Procs |-> "idle"]

Goto(p, from, to) == pc[p] = from /\ pc' = [pc EXCEPT ![p] = to]

Empty == nread = nwrite

\* Wrong on purpose: the sum is not reduced to the width of a uint.
FullUnwrapped == nwrite = nread + PipeSize

Full == nwrite = (nread + PipeSize) % CounterMod

\* wakeup(c): clears the channel of everyone registered on it, and makes
\* those of them that are asleep runnable.
Wakeup(c) ==
  /\ chan' = [p \in Procs |-> IF chan[p] = c THEN "0" ELSE chan[p]]
  /\ state' = [p \in Procs |-> IF chan[p] = c THEN "RUNNABLE" ELSE state[p]]

\* A call returns to user space (its locals are forgotten).
Return(p) ==
  /\ pc' = [pc EXCEPT ![p] = "idle"]
  /\ n' = [n EXCEPT ![p] = 0]
  /\ i' = [i EXCEPT ![p] = 0]
-----------------------------------------------------------------------------
\* A process calls write(fd, addr, m): filewrite(), pipewrite().
CallWrite(p, m) ==
  /\ Goto(p, "idle", "wlock")
  /\ p \in wfds \ killed
  /\ n' = [n EXCEPT ![p] = m]
  /\ UNCHANGED <<lock, pipe, fds, chan, state, killed, i>>

\* acquire(&pi->lock) in pipewrite(), on entry and after sleep() returns.
WriteLock(p) ==
  /\ Goto(p, "wlock", "write")
  /\ state[p] = "RUNNABLE"
  /\ lock = NoProc
  /\ lock' = p
  /\ UNCHANGED <<pipe, fds, chan, state, killed, n, i>>

\* Nobody can read, or the process was killed: release and return -1.
WriteAbort(p) ==
  /\ pc[p] = "write"
  /\ i[p] < n[p]
  /\ ~readopen \/ p \in killed
  /\ lock' = NoProc
  /\ Return(p)
  /\ UNCHANGED <<pipe, fds, chan, state, killed>>

CanWrite(p) ==
  /\ pc[p] = "write"
  /\ i[p] < n[p]
  /\ readopen
  /\ p \notin killed

\* Wrong on purpose: a full pipe that does not wake its readers.
WriteFullSilent(p) ==
  /\ CanWrite(p)
  /\ Full
  /\ chan' = [chan EXCEPT ![p] = "nwrite"]
  /\ lock' = NoProc
  /\ pc' = [pc EXCEPT ![p] = "wsleep"]
  /\ UNCHANGED <<pipe, fds, state, killed, n, i>>

\* The pipe is full: wake the readers, sleep_prepare(&pi->nwrite), release.
WriteFull(p) ==
  /\ CanWrite(p)
  /\ Full
  /\ chan' = [q \in Procs |-> CASE q = p -> "nwrite"
                                [] q # p /\ chan[q] = "nread" -> "0"
                                [] OTHER -> chan[q]]
  /\ state' = [q \in Procs |->
                 IF chan[q] = "nread" THEN "RUNNABLE" ELSE state[q]]
  /\ lock' = NoProc
  /\ pc' = [pc EXCEPT ![p] = "wsleep"]
  /\ UNCHANGED <<pipe, fds, killed, n, i>>

\* copyin() one byte b of the user's buffer into the ring.
WriteByte(p, b) ==
  /\ CanWrite(p)
  /\ ~Full
  /\ data' = [data EXCEPT ![nwrite % PipeSize] = b]
  /\ nwrite' = (nwrite + 1) % CounterMod
  /\ i' = [i EXCEPT ![p] = @ + 1]
  /\ UNCHANGED <<lock, nread, readopen, writeopen, freed, ch, fds, chan,
                 state, killed, n, pc>>

\* copyin() fails: wake the readers, release, return i, or -1 for i == 0.
WriteFault(p) ==
  /\ CanWrite(p)
  /\ ~Full
  /\ Wakeup("nread")
  /\ lock' = NoProc
  /\ Return(p)
  /\ UNCHANGED <<pipe, fds, killed>>

\* Everything is written: wake the readers, release, return n.
WriteDone(p) ==
  /\ pc[p] = "write"
  /\ i[p] = n[p]
  /\ Wakeup("nread")
  /\ lock' = NoProc
  /\ Return(p)
  /\ UNCHANGED <<pipe, fds, killed>>
-----------------------------------------------------------------------------
\* A process calls read(fd, addr, m): fileread(), piperead().
CallRead(p, m) ==
  /\ Goto(p, "idle", "rlock")
  /\ p \in rfds \ killed
  /\ n' = [n EXCEPT ![p] = m]
  /\ UNCHANGED <<lock, pipe, fds, chan, state, killed, i>>

\* acquire(&pi->lock) in piperead(), on entry and after sleep() returns.
ReadLock(p) ==
  /\ Goto(p, "rlock", "read")
  /\ state[p] = "RUNNABLE"
  /\ lock = NoProc
  /\ lock' = p
  /\ UNCHANGED <<pipe, fds, chan, state, killed, n, i>>

\* Nothing to read and the process was killed: release and return -1.
ReadAbort(p) ==
  /\ pc[p] = "read"
  /\ Empty /\ writeopen
  /\ p \in killed
  /\ lock' = NoProc
  /\ Return(p)
  /\ UNCHANGED <<pipe, fds, chan, state, killed>>

\* Nothing to read: sleep_prepare(&pi->nread), release.
ReadWait(p) ==
  /\ Goto(p, "read", "rsleep")
  /\ Empty /\ writeopen
  /\ p \notin killed
  /\ chan' = [chan EXCEPT ![p] = "nread"]
  /\ lock' = NoProc
  /\ UNCHANGED <<pipe, fds, state, killed, n, i>>

\* Wrong on purpose: the condition is not tested again after sleep().
ReadStartUntested(p) ==
  /\ Goto(p, "read", "copy")
  /\ UNCHANGED <<lock, pipe, fds, chan, state, killed, n, i>>

\* The loop that waits is left.
ReadStart(p) ==
  /\ Goto(p, "read", "copy")
  /\ ~(Empty /\ writeopen)
  /\ UNCHANGED <<lock, pipe, fds, chan, state, killed, n, i>>

\* copyout() the oldest byte of the ring to the user's buffer.
ReadByte(p) ==
  /\ pc[p] = "copy"
  /\ i[p] < n[p]
  /\ ~Empty
  /\ ch' = data[nread % PipeSize]
  /\ nread' = (nread + 1) % CounterMod
  /\ i' = [i EXCEPT ![p] = @ + 1]
  /\ UNCHANGED <<lock, data, nwrite, readopen, writeopen, freed, fds, chan,
                 state, killed, n, pc>>

\* copyout() fails: the byte stays in the pipe; wake the writers, release,
\* return i, or -1 for i == 0.
ReadFault(p) ==
  /\ pc[p] = "copy"
  /\ i[p] < n[p]
  /\ ~Empty
  /\ Wakeup("nwrite")
  /\ lock' = NoProc
  /\ Return(p)
  /\ UNCHANGED <<pipe, fds, killed>>

\* Wrong on purpose: piperead() without its wakeup().
ReadDoneSilent(p) ==
  /\ pc[p] = "copy"
  /\ i[p] = n[p] \/ Empty
  /\ lock' = NoProc
  /\ Return(p)
  /\ UNCHANGED <<pipe, fds, chan, state, killed>>

\* Enough is read, or the pipe is empty: wake the writers, release, return i.
ReadDone(p) ==
  /\ pc[p] = "copy"
  /\ i[p] = n[p] \/ Empty
  /\ Wakeup("nwrite")
  /\ lock' = NoProc
  /\ Return(p)
  /\ UNCHANGED <<pipe, fds, killed>>

\* sleep(), in either call: sleep unless the channel was woken up meanwhile.
Sleep(p) ==
  /\ \/ Goto(p, "wsleep", "wlock")
     \/ Goto(p, "rsleep", "rlock")
  /\ state' = [state EXCEPT ![p] = IF chan[p] # "0" THEN "SLEEPING" ELSE @]
  /\ UNCHANGED <<lock, pipe, fds, chan, killed, n, i>>
-----------------------------------------------------------------------------
\* close() or exit() drops p's reference to the read file; fileclose() goes
\* on to pipeclose() if it was the last one.
DropRead(p) ==
  /\ pc[p] = "idle"
  /\ p \in rfds
  /\ rfds' = rfds \ {p}
  /\ pc' = [pc EXCEPT ![p] = IF rfds = {p} THEN "closer" ELSE "idle"]
  /\ UNCHANGED <<lock, pipe, wfds, chan, state, killed, n, i>>

\* The same for the write file.
DropWrite(p) ==
  /\ pc[p] = "idle"
  /\ p \in wfds
  /\ wfds' = wfds \ {p}
  /\ pc' = [pc EXCEPT ![p] = IF wfds = {p} THEN "closew" ELSE "idle"]
  /\ UNCHANGED <<lock, pipe, rfds, chan, state, killed, n, i>>

\* pipeclose(pi, 0)
PipeCloseRead(p) ==
  /\ Goto(p, "closer", "idle")
  /\ lock = NoProc
  /\ readopen' = FALSE
  /\ Wakeup("nwrite")
  /\ freed' = (freed \/ ~writeopen)
  /\ UNCHANGED <<lock, data, nread, nwrite, writeopen, ch, fds, killed, n, i>>

\* Wrong on purpose: the page is freed as soon as one end is closed.
PipeCloseWriteFrees(p) ==
  /\ Goto(p, "closew", "idle")
  /\ lock = NoProc
  /\ writeopen' = FALSE
  /\ Wakeup("nread")
  /\ freed' = TRUE
  /\ UNCHANGED <<lock, data, nread, nwrite, readopen, ch, fds, killed, n, i>>

\* Wrong on purpose: a reader that waits is not told of the last close().
PipeCloseWriteSilent(p) ==
  /\ Goto(p, "closew", "idle")
  /\ lock = NoProc
  /\ writeopen' = FALSE
  /\ freed' = (freed \/ ~readopen)
  /\ UNCHANGED <<lock, data, nread, nwrite, readopen, ch, fds, chan, state,
                 killed, n, i>>

\* pipeclose(pi, 1)
PipeCloseWrite(p) ==
  /\ Goto(p, "closew", "idle")
  /\ lock = NoProc
  /\ writeopen' = FALSE
  /\ Wakeup("nread")
  /\ freed' = (freed \/ ~readopen)
  /\ UNCHANGED <<lock, data, nread, nwrite, readopen, ch, fds, killed, n, i>>

\* fork(): filedup() of the parent's files for a new process q.
Fork(p, q) ==
  /\ pc[p] = "idle" /\ p \in (rfds \cup wfds) \ killed
  /\ pc[q] = "idle" /\ q \notin rfds \cup wfds \cup killed
  /\ rfds' = IF p \in rfds THEN rfds \cup {q} ELSE rfds
  /\ wfds' = IF p \in wfds THEN wfds \cup {q} ELSE wfds
  /\ UNCHANGED <<lock, pipe, chan, state, killed, n, i, pc>>

\* kkill(): the flag is set, and the process is woken if it is asleep; its
\* p->chan stays as it is.
Kill(p) ==
  /\ p \notin killed
  /\ killed' = killed \cup {p}
  /\ state' = [state EXCEPT ![p] = "RUNNABLE"]
  /\ UNCHANGED <<lock, pipe, fds, chan, n, i, pc>>
-----------------------------------------------------------------------------
\* The steps of the kernel for p once it is in a call.
Step(p) ==
  \/ WriteLock(p) \/ WriteAbort(p) \/ WriteFull(p) \/ WriteFault(p)
  \/ \E b \in Bytes : WriteByte(p, b)
  \/ WriteDone(p)
  \/ ReadLock(p) \/ ReadAbort(p) \/ ReadWait(p) \/ ReadStart(p)
  \/ ReadByte(p) \/ ReadFault(p) \/ ReadDone(p)
  \/ Sleep(p)
  \/ PipeCloseRead(p) \/ PipeCloseWrite(p)

\* What user programs do.
User(p) ==
  \/ \E m \in 0 .. MaxN : CallWrite(p, m) \/ CallRead(p, m)
  \/ DropRead(p) \/ DropWrite(p)
  \/ \E q \in Procs : Fork(p, q)
  \/ Kill(p)

Next == \E p \in Procs : Step(p) \/ User(p)

Spec == Init /\ [][Next]_vars

\* The steps that begin with acquire(&pi->lock).
Acquire(p) ==
  WriteLock(p) \/ ReadLock(p) \/ PipeCloseRead(p) \/ PipeCloseWrite(p)

(* A process in the kernel keeps running unless it sleeps, and a spinning  *)
(* acquire() gets a lock that is free again and again.  A killed process   *)
(* exits when it is back from the call, and exit() closes its files.       *)
(* Programs need not call, close, fork or kill.                            *)
Fairness ==
  \A p \in Procs :
    /\ WF_vars(Step(p))
    /\ SF_vars(Acquire(p))
    /\ WF_vars(p \in killed /\ (DropRead(p) \/ DropWrite(p)))

FairSpec == Spec /\ Fairness
-----------------------------------------------------------------------------
Waits(p, c) == chan[p] = c /\ (pc[p] \in {"rsleep", "wsleep"}
                                 \/ state[p] = "SLEEPING")

\* What is in the ring, oldest byte first.
Size == (nwrite - nread) % CounterMod
Queue == [k \in 1 .. Size |-> data[(nread + k - 1) % PipeSize]]

(* The ring with its wrapping counters, the calls of all processes, kills, *)
(* copy failures and closes implement the bounded queue of Channel: no     *)
(* byte is lost, duplicated, overwritten or reordered, not even when nread *)
(* and nwrite wrap around 2^32.                                            *)
C == INSTANCE Channel WITH Capacity <- PipeSize, queue <- Queue,
                           received <- ch
ImplementsChannel == C!Spec

(* The page of the pipe is freed by the second pipeclose() only, when no   *)
(* process is in a call on the pipe or has yet to close its last end.      *)
NoUseAfterFree ==
  freed => lock = NoProc /\ \A p \in Procs : pc[p] = "idle"

(* A read() of n > 0 bytes copies nothing only at the end of the stream:   *)
(* a reader that leaves the waiting loop of piperead() after another one   *)
(* has taken the bytes it was woken for does not return 0, the end of      *)
(* file, while there are writers.                                          *)
EofOnlyAtEnd ==
  \A p \in Procs :
    pc[p] = "copy" /\ i[p] = 0 /\ n[p] > 0 /\ Empty => ~writeopen

(* A reader that is registered on &pi->nread and asleep, or about to be,   *)
(* has a reason to be: the pipe is empty and open for writing, or a writer *)
(* has the lock and calls wakeup() before it gives it up.                  *)
ReaderHasReason(p) ==
  Waits(p, "nread") => \/ Empty /\ writeopen
                       \/ \E w \in Procs : pc[w] = "write"

(* The wakeups of pipewrite() and pipeclose() reach every reader, provided *)
(* that nobody has been killed in a pipewrite() (see ReadersNotForgotten). *)
ReadersWoken == killed = {} => \A p \in Procs : ReaderHasReason(p)

(* The same with kills: a reader that waits always has a reason to.        *)
ReadersNotForgotten == \A p \in Procs : ReaderHasReason(p)

(* A writer that is registered on &pi->nwrite and asleep, or about to be,  *)
(* waits for a full pipe that can still be read, or a reader has the lock  *)
(* and calls wakeup() before it gives it up; kills do not change that.     *)
WritersNotForgotten ==
  \A p \in Procs :
    Waits(p, "nwrite") => \/ Full /\ readopen
                          \/ \E r \in Procs : pc[r] = "copy"

(* Once the last process at one end of the pipe has closed it, every call  *)
(* at the other end returns: the close reaches readers and writers that    *)
(* sleep, or are about to.                                                 *)
CallsReturn ==
  \A p \in Procs :
    (\/ ~writeopen /\ pc[p] \in Reading
     \/ ~readopen /\ pc[p] \in Writing) ~> (pc[p] = "idle")
=============================================================================
