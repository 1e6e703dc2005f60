------------------------------ MODULE BufCache ------------------------------
(***************************************************************************)
(* The buffer cache (kernel/bio.c) under its callers: file system calls    *)
(* that change blocks inside a transaction, reads outside of one, and the  *)
(* commit of the log, which copies blocks through the same cache.          *)
(*                                                                         *)
(* A step is one critical section of bcache.lock, or what a process does   *)
(* while it holds the sleep-lock of a buffer.  Crashes are in module Log.  *)
(***************************************************************************)
EXTENDS Integers, Sequences, FiniteSets, FiniteSetsExt, SequencesExt

CONSTANTS Users,         \* the processes that use the cache
          NoUser,
          Homes,         \* the blocks of the file system
          LogArea,       \* log.start and the blocks of the log after it
          NoBlock,
          Values,        \* contents of a block
          NBUF,
          MAXOPBLOCKS,   \* blocks that begin_op() reserves for a call
          OpLimit        \* blocks that a call really writes

LOGBLOCKS == Len(LogArea) - 1
Blocks == Homes \cup Range(LogArea)
Bufs == 1 .. NBUF

\* The sizes for which bget() always finds a buffer: one for every block that
\* a transaction can pin, and one for every process.
CacheSized ==
  /\ IsFiniteSet(Users) /\ NoUser \notin Users
  /\ LogArea \in Seq(Range(LogArea))
  /\ \A i, j \in DOMAIN LogArea : LogArea[i] = LogArea[j] => i = j
  /\ Homes \cap Range(LogArea) = {} /\ NoBlock \notin Blocks /\ Values # {}
  /\ MAXOPBLOCKS \in 1 .. LOGBLOCKS /\ OpLimit \in 0 .. MAXOPBLOCKS
  /\ NBUF \in Nat
  /\ NBUF >= LOGBLOCKS - (MAXOPBLOCKS - OpLimit) + Cardinality(Users)

ASSUME CacheAssumption == CacheSized

VARIABLES buf,      \* each buffer: block, valid, refcnt, lock and data
          lru,      \* the list of buffers, the most recently used first
          bdev,     \* the contents of the disk
          th,       \* each process: in a transaction?, pc, buffers held
          log,      \* the in-memory header: its blocks, in order
          commit,   \* who commits, the part of commit() and its tail
          panic,
          latest    \* history: the value last put in each block

cacheVars == <<buf, lru, bdev, th, log, commit, panic, latest>>

NoCommit == [by |-> NoUser, part |-> "none", tail |-> 1, written |-> FALSE]

\* binit() puts every buffer at the head of the list.
CacheInit ==
  /\ buf = [i \in Bufs |->
              [block |-> NoBlock, valid |-> FALSE, refcnt |-> 0,
               lock |-> NoUser, data |-> CHOOSE v \in Values : TRUE]]
  /\ lru = [k \in Bufs |-> NBUF + 1 - k]
  /\ bdev = [b \in Blocks |-> CHOOSE v \in Values : TRUE]
  /\ th = [p \in Users |-> [op |-> FALSE, wrote |-> 0, pc |-> "run", at |-> 0,
                            hold |-> <<>>]]
  /\ log = <<>> /\ commit = NoCommit /\ panic = FALSE
  /\ latest = bdev
-----------------------------------------------------------------------------
\* Wrong on purpose: the old contents stay valid.
RecycleValid(i, b) == [buf EXCEPT ![i].block = b, ![i].refcnt = 1]

Recycle(i, b) ==
  [buf EXCEPT ![i].block = b, ![i].valid = FALSE, ![i].refcnt = 1]

\* bget() up to acquiresleep(): the buffer of the block, or the unused one
\* that was used least recently.
Bget(p, b) ==
  LET hit == {i \in Bufs : buf[i].block = b}
      unused == {k \in Bufs : buf[lru[k]].refcnt = 0}
      i == IF hit # {} THEN CHOOSE j \in hit : TRUE ELSE lru[Max(unused)]
  IN
  /\ IF hit \cup unused = {}
       THEN panic' = TRUE /\ UNCHANGED <<buf, th>>
       ELSE /\ buf' = IF hit # {} THEN [buf EXCEPT ![i].refcnt = @ + 1]
                                  ELSE Recycle(i, b)
            /\ th' = [th EXCEPT ![p].pc = "lock", ![p].at = i]
            /\ UNCHANGED panic
  /\ UNCHANGED <<lru, bdev, log, commit, latest>>

\* acquiresleep(), and bread() fills a buffer that is not valid.
Lock(p) ==
  LET i == th[p].at IN
  /\ th[p].pc = "lock" /\ buf[i].lock = NoUser
  /\ buf' = [buf EXCEPT ![i].lock = p, ![i].valid = TRUE,
               ![i].data = IF buf[i].valid THEN @ ELSE bdev[buf[i].block]]
  /\ th' = [th EXCEPT ![p].pc = "run", ![p].hold = Append(@, i)]
  /\ UNCHANGED <<lru, bdev, log, commit, panic, latest>>

\* The list s with buffer i moved to its head.
ToHead(s, i) ==
  [k \in Bufs |-> IF k = 1 THEN i
                  ELSE IF \E j \in k .. NBUF : s[j] = i THEN s[k - 1] ELSE s[k]]

\* brelse(): first releasesleep(), then the count and the list.  rest is what
\* p still holds.
Unlock(p, i, rest) ==
  /\ buf' = [buf EXCEPT ![i].lock = NoUser]
  /\ th' = [th EXCEPT ![p].pc = "put", ![p].at = i, ![p].hold = rest]
  /\ UNCHANGED <<lru, bdev, log, commit, panic, latest>>

Put(p) ==
  LET i == th[p].at IN
  /\ th[p].pc = "put"
  /\ buf' = [buf EXCEPT ![i].refcnt = @ - 1]
  /\ lru' = IF buf[i].refcnt = 1 THEN ToHead(lru, i) ELSE lru
  /\ th' = [th EXCEPT ![p].pc = "run"]
  /\ UNCHANGED <<bdev, log, commit, panic, latest>>

\* bpin() and bunpin(); bwrite() of the contents v.
Pin(i, n) == [buf EXCEPT ![i].refcnt = @ + n]
Bwrite(i, v) == bdev' = [bdev EXCEPT ![buf[i].block] = v]
-----------------------------------------------------------------------------
\* A file system call, or a read without a transaction, takes one block.
Caller(p) == th[p].pc = "run" /\ commit.by # p
Bread(p, b) == Caller(p) /\ th[p].hold = <<>> /\ Bget(p, b)
Brelse(p) ==
  Caller(p) /\ th[p].hold # <<>> /\ Unlock(p, th[p].hold[1], Tail(th[p].hold))

\* begin_op(), when it does not wait.
BeginOp(p) ==
  LET outstanding == Cardinality({q \in Users : th[q].op}) IN
  /\ Caller(p) /\ th[p].hold = <<>> /\ ~th[p].op /\ commit.by = NoUser
  /\ Len(log) + (outstanding + 1) * MAXOPBLOCKS <= LOGBLOCKS
  /\ th' = [th EXCEPT ![p].op = TRUE, ![p].wrote = 0]
  /\ UNCHANGED <<buf, lru, bdev, log, commit, panic, latest>>

\* The caller changes the block and calls log_write(), which pins it.
LogWrite(p, v) ==
  LET i == th[p].hold[1] IN
  /\ Caller(p) /\ th[p].op /\ th[p].hold # <<>> /\ th[p].wrote < OpLimit
  /\ LET absorbed == buf[i].block \in Range(log) IN
     /\ log' = IF absorbed THEN log ELSE Append(log, buf[i].block)
     /\ buf' = [Pin(i, IF absorbed THEN 0 ELSE 1) EXCEPT ![i].data = v]
  /\ latest' = [latest EXCEPT ![buf[i].block] = v]
  /\ th' = [th EXCEPT ![p].wrote = @ + 1]
  /\ UNCHANGED <<lru, bdev, commit, panic>>

\* end_op(): the last one commits.
EndOp(p) ==
  /\ Caller(p) /\ th[p].op /\ th[p].hold = <<>>
  /\ th' = [th EXCEPT ![p].op = FALSE]
  /\ commit' = IF log # <<>> /\ \A q \in Users \ {p} : ~th[q].op
                 THEN [NoCommit EXCEPT !.by = p, !.part = "log"] ELSE commit
  /\ UNCHANGED <<buf, lru, bdev, log, panic, latest>>
-----------------------------------------------------------------------------
\* commit(): for every block of the log, write_log() and then
\* install_trans() read the block of the log and the home block, in this
\* order; write_head() reads the header.
Committer(p) == commit.by = p /\ th[p].pc = "run"
Wanted == IF commit.part \in {"log", "install"}
            THEN <<LogArea[commit.tail + 1], log[commit.tail]>> ELSE <<LogArea[1]>>

CommitRead(p) ==
  /\ Committer(p) /\ ~commit.written /\ Len(th[p].hold) < Len(Wanted)
  /\ Bget(p, Wanted[Len(th[p].hold) + 1])

\* memmove() and bwrite(); install_trans() also unpins.  What is left of the
\* iteration is to release its buffers.
CommitWrite(p) ==
  LET h == th[p].hold
      to == IF commit.part = "install" THEN h[2] ELSE h[1]
      v == buf[IF commit.part = "log" THEN h[2] ELSE h[1]].data
  IN
  /\ Committer(p) /\ ~commit.written /\ Len(h) = Len(Wanted)
  /\ Bwrite(to, v)
  /\ latest' = IF commit.part = "log" THEN [latest EXCEPT ![buf[to].block] = v]
               ELSE latest
  /\ buf' = [Pin(to, IF commit.part = "install" THEN -1 ELSE 0) EXCEPT ![to].data = v]
  /\ commit' = [commit EXCEPT !.written = TRUE]
  /\ UNCHANGED <<lru, th, log, panic>>

\* write_log() releases the home block first, install_trans() last.
CommitRelease(p) ==
  LET h == th[p].hold IN
  /\ Committer(p) /\ commit.written /\ h # <<>>
  /\ IF commit.part = "install" THEN Unlock(p, h[1], Tail(h))
                               ELSE Unlock(p, h[Len(h)], Front(h))

\* The next block, or the next part; at the end the log is empty.
CommitNext(p) ==
  LET more == commit.part \in {"log", "install"} /\ commit.tail < Len(log)
      after == [log |-> "head", head |-> "install", install |-> "clear"]
  IN
  /\ Committer(p) /\ commit.written /\ th[p].hold = <<>>
  /\ IF more THEN commit' = [commit EXCEPT !.tail = @ + 1, !.written = FALSE]
     ELSE IF commit.part = "clear" THEN commit' = NoCommit
     ELSE commit' = [commit EXCEPT !.part = after[@], !.tail = 1, !.written = FALSE]
  /\ log' = IF commit.part = "install" /\ ~more THEN <<>> ELSE log
  /\ UNCHANGED <<buf, lru, bdev, th, panic, latest>>
-----------------------------------------------------------------------------
CacheNext ==
  \E p \in Users :
    \/ Lock(p) \/ Put(p) \/ Brelse(p) \/ BeginOp(p) \/ EndOp(p)
    \/ \E b \in Homes : Bread(p, b)
    \/ \E v \in Values : LogWrite(p, v)
    \/ CommitRead(p) \/ CommitWrite(p) \/ CommitRelease(p) \/ CommitNext(p)

CacheSpec == CacheInit /\ [][CacheNext]_cacheVars
-----------------------------------------------------------------------------
(* Whoever holds a buffer sees what was last put in its block, be it from  *)
(* memory or from the disk, although buffers are recycled between a change *)
(* and its commit: one buffer per block, pinned while the log needs it.    *)
(* bget() always finds a buffer, even when a commit reads the log while    *)
(* every block of the transaction is pinned.                               *)
CacheCoherent ==
  /\ ~panic
  /\ \A i, j \in Bufs : buf[i].block = buf[j].block /\ buf[i].block # NoBlock => i = j
  /\ \A i \in Bufs : buf[i].lock # NoUser =>
       buf[i].valid /\ buf[i].refcnt > 0 /\ buf[i].data = latest[buf[i].block]
=============================================================================
