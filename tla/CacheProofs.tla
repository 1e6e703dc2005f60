---------------------------- MODULE CacheProofs ----------------------------
(***************************************************************************)
(* The sleep locks that buffers and inodes carry, and the buffer cache.    *)
(*                                                                         *)
(* The safety properties of SleepLock and its refinement of Mutex hold for *)
(* any set of processes.  None of them is inductive alone: they rest on    *)
(* what lk->lk, lk->locked and lk->pid say about where a process is.       *)
(*                                                                         *)
(* CacheCoherent of BufCache holds for any processes, blocks and values    *)
(* and for the sizes of CacheAssumption.  That a held buffer shows the     *)
(* latest contents needs that the reference counts are exact, that every   *)
(* block of the log keeps its buffer until install_trans() unpins it, and  *)
(* that every other block is up to date on the disk.  That bget() finds a  *)
(* buffer needs the room that begin_op() reserves in the log.              *)
(***************************************************************************)
EXTENDS SleepLock, BufCache, FiniteSetTheorems, SequenceTheorems,
        WellFoundedInduction, TLAPS

\* Inside a critical section of lk->lk, a process holds it.
SpinHeld == \A p \in Procs : pc[p] \in {"test", "wakeup"} => lk = p

\* lk->locked and lk->pid name the process in the critical section.
OwnerKnown ==
  /\ \A p \in Critical : locked /\ owner = p
  /\ ~locked => owner = NoProc

IInv == TypeOK /\ SpinHeld /\ OwnerKnown /\ NoLostWakeup /\ NoPanic
-----------------------------------------------------------------------------
\* The lock as initsleeplock() leaves it satisfies the invariant.
LEMMA InitIInv == Init => IInv
  BY DEF Init, IInv, TypeOK, SpinHeld, OwnerKnown, Critical, NoLostWakeup,
         NoPanic, States, PCs

\* Every step of acquiresleep(), releasesleep() and kkill() preserves it.
LEMMA NextIInv == IInv /\ [Next]_vars => IInv'
<1> SUFFICES ASSUME IInv, [Next]_vars PROVE IInv'
  OBVIOUS
<1> USE NoProcAssumption
        DEF IInv, TypeOK, SpinHeld, OwnerKnown, Critical, NoLostWakeup,
            NoPanic, States, PCs, Goto
<1>1. ASSUME NEW p \in Procs, CallAcquire(p) PROVE IInv'
  BY <1>1 DEF CallAcquire
<1>2. ASSUME NEW p \in Procs, LockSpin(p) PROVE IInv'
  BY <1>2 DEF LockSpin
<1>3. ASSUME NEW p \in Procs, SleepPrepare(p) PROVE IInv'
  BY <1>3 DEF SleepPrepare
<1>4. ASSUME NEW p \in Procs, TakeLock(p) PROVE IInv'
  BY <1>4 DEF TakeLock
<1>5. ASSUME NEW p \in Procs, Sleep(p) PROVE IInv'
  BY <1>5 DEF Sleep
<1>6. ASSUME NEW p \in Procs, Resume(p) PROVE IInv'
  BY <1>6 DEF Resume
<1>7. ASSUME NEW p \in Procs, CallRelease(p) PROVE IInv'
  BY <1>7 DEF CallRelease
<1>8. ASSUME NEW p \in Procs, ReleaseSleep(p) PROVE IInv'
  <2> USE <1>8 DEF ReleaseSleep
  <2>1. owner = p
    OBVIOUS
  <2>2. TypeOK'
    OBVIOUS
  <2>3. SpinHeld'
    OBVIOUS
  <2>4. OwnerKnown'
    BY <2>1
  <2>5. NoLostWakeup' /\ NoPanic'
    OBVIOUS
  <2> QED
    BY <2>2, <2>3, <2>4, <2>5
<1>9. ASSUME NEW p \in Procs, NEW q \in Procs, WakeOne(p, q) PROVE IInv'
  BY <1>9 DEF WakeOne
<1>10. ASSUME NEW p \in Procs, EndRelease(p) PROVE IInv'
  BY <1>10 DEF EndRelease
<1>11. ASSUME NEW q \in Procs, KillWake(q) PROVE IInv'
  BY <1>11 DEF KillWake
<1>12. CASE UNCHANGED vars
  BY <1>12 DEF vars
<1> QED
  BY <1>1, <1>2, <1>3, <1>4, <1>5, <1>6, <1>7, <1>8, <1>9, <1>10, <1>11,
     <1>12 DEF Next, Step

\* The invariant holds in every reachable state.
LEMMA Invariant == Spec => []IInv
  BY InitIInv, NextIInv, PTL DEF Spec

(* The variables of the sleep lock keep their types. *)
THEOREM TypeCorrect == Spec => []TypeOK
<1>1. IInv => TypeOK
  BY DEF IInv
<1> QED
  BY <1>1, Invariant, PTL

(* No two processes are between acquiresleep() and releasesleep(). *)
THEOREM MutexSafe == Spec => []MutualExclusion
<1>1. IInv => MutualExclusion
  BY DEF IInv, OwnerKnown, MutualExclusion
<1> QED
  BY <1>1, Invariant, PTL

(* A registered waiter is asleep only while the lock is taken or a wakeup  *)
(* is on its way, in spite of the window between sleep_prepare() and       *)
(* sleep().                                                                *)
THEOREM WakeupsArrive == Spec => []NoLostWakeup
<1>1. IInv => NoLostWakeup
  BY DEF IInv
<1> QED
  BY <1>1, Invariant, PTL

(* The panics behind holdingsleep() in brelse() and iunlock() are dead     *)
(* code for a caller that did acquire the lock.                            *)
THEOREM PanicFree == Spec => []NoPanic
<1>1. IInv => NoPanic
  BY DEF IInv
<1> QED
  BY <1>1, Invariant, PTL
-----------------------------------------------------------------------------
\* Each step takes the mutex, gives it back, or leaves it alone.
LEMMA StepRefines == IInv /\ [Next]_vars => [M!Next]_owner
<1> SUFFICES ASSUME IInv, [Next]_vars PROVE M!Next \/ owner' = owner
  OBVIOUS
<1>1. ASSUME NEW p \in Procs, TakeLock(p) PROVE M!Take(p)
  BY <1>1 DEF TakeLock, IInv, OwnerKnown, M!Take
<1>2. ASSUME NEW p \in Procs, ReleaseSleep(p) PROVE M!Give(p)
  BY <1>2 DEF ReleaseSleep, Goto, IInv, OwnerKnown, Critical, M!Give
<1>3. CASE UNCHANGED vars
  BY <1>3 DEF vars
<1> QED
  BY <1>1, <1>2, <1>3
  DEF Next, Step, CallAcquire, LockSpin, SleepPrepare, Sleep, Resume,
      CallRelease, WakeOne, EndRelease, KillWake, M!Next

(* The sleep lock implements the abstract mutex, lk->pid being its holder. *)
THEOREM Refinement == Spec => ImplementsMutex
<1>1. Init => M!Init
  BY DEF Init, M!Init
<1> QED
  BY <1>1, Invariant, StepRefines, PTL DEF Spec, ImplementsMutex, M!Spec
-----------------------------------------------------------------------------
Parts == {"none", "log", "head", "install", "clear"}

BufRecs == [block : Blocks \cup {NoBlock}, valid : BOOLEAN, refcnt : Int,
            lock : Users \cup {NoUser}, data : Values]
ThRecs == [op : BOOLEAN, wrote : 0 .. OpLimit, pc : {"run", "lock", "put"},
           at : 0 .. NBUF, hold : Seq(Bufs)]
CommitRecs == [by : Users \cup {NoUser}, part : Parts, tail : Nat \ {0},
               written : BOOLEAN]

CacheTypeOK ==
  /\ buf \in [Bufs -> BufRecs]
  /\ lru \in [Bufs -> Bufs]
  /\ bdev \in [Blocks -> Values] /\ latest \in [Blocks -> Values]
  /\ th \in [Users -> ThRecs]
  /\ log \in Seq(Homes)
  /\ commit \in CommitRecs
  /\ panic \in BOOLEAN

\* The list has every buffer once.
ListWhole ==
  /\ \A k, l \in Bufs : lru[k] = lru[l] => k = l
  /\ \A i \in Bufs : \E k \in Bufs : lru[k] = i

\* Every block has at most one buffer.
OneBuffer ==
  \A i, j \in Bufs :
    buf[i].block = buf[j].block /\ buf[i].block # NoBlock => i = j

\* The buffers that p has a reference to, and who refers to i.
Refd(p) ==
  Range(th[p].hold) \cup (IF th[p].pc = "run" THEN {} ELSE {th[p].at})
Refs(i) == {p \in Users : i \in Refd(p)}

\* The blocks of the log whose buffers log_write() has pinned and
\* install_trans() has not unpinned yet.
FirstPinned ==
  IF commit.part # "install" THEN 1
  ELSE IF commit.written THEN commit.tail + 1 ELSE commit.tail
Pinned == {log[k] : k \in FirstPinned .. Len(log)}

\* The reference count is exact.
Counted ==
  \A i \in Bufs : buf[i].refcnt =
    Cardinality(Refs(i)) + (IF buf[i].block \in Pinned THEN 1 ELSE 0)

\* What p refers to has a block; what it holds it has locked, once.
HeldBy(p) ==
  /\ \A i \in Refd(p) : i \in Bufs /\ buf[i].block # NoBlock
  /\ \A k, l \in DOMAIN th[p].hold : th[p].hold[k] = th[p].hold[l] => k = l
  /\ th[p].pc # "run" => th[p].at \notin Range(th[p].hold)
  /\ \A i \in Bufs : buf[i].lock = p <=> i \in Range(th[p].hold)
Held == \A p \in Users : HeldBy(p)

\* A buffer that is locked or pinned is valid; what is valid is the latest.
Fresh ==
  /\ \A i \in Bufs : buf[i].lock # NoUser => buf[i].valid
  /\ \A i \in Bufs : buf[i].valid =>
       buf[i].block # NoBlock /\ buf[i].data = latest[buf[i].block]
  /\ \A c \in Pinned : \E i \in Bufs : buf[i].block = c /\ buf[i].valid
  /\ \A c \in Blocks \ Pinned : bdev[c] = latest[c]

\* A process that does not commit has one buffer, of the file system.
Calling(p) ==
  /\ Len(th[p].hold) <= 1
  /\ th[p].pc # "run" => th[p].hold = <<>>
  /\ \A i \in Refd(p) : buf[i].block \in Homes
CallerShape == \A p \in Users : commit.by # p => Calling(p)

\* One that commits has buffers of the blocks of this iteration.
Committing(p) ==
  /\ Len(th[p].hold) <= Len(Wanted)
  /\ \A i \in Refd(p) : buf[i].block \in Range(Wanted)
  /\ ~commit.written =>
       /\ th[p].pc # "put"
       /\ \A k \in DOMAIN th[p].hold : buf[th[p].hold[k]].block = Wanted[k]
       /\ th[p].pc = "lock" =>
            /\ Len(th[p].hold) < Len(Wanted)
            /\ buf[th[p].at].block = Wanted[Len(th[p].hold) + 1]
  /\ commit.written => th[p].pc # "lock"
CommitterShape == \A p \in Users : commit.by = p => Committing(p)

\* The transaction, and how far its commit is.
CommitState ==
  /\ \A k, l \in DOMAIN log : log[k] = log[l] => k = l
  /\ commit.by = NoUser => commit = NoCommit
  /\ commit.by # NoUser =>
       commit.part # "none" /\ \A q \in Users : ~th[q].op
  /\ commit.part \in {"log", "install"} => commit.tail <= Len(log)
  /\ commit.part = "head" => Len(log) > 0
  /\ commit.part = "clear" => log = <<>>

\* What write_log() has copied is in the log.
IsCopied(k) ==
  \/ commit.part \in {"head", "install"}
  \/ commit.part = "log" /\ k < commit.tail
  \/ commit.part = "log" /\ k = commit.tail /\ commit.written
Copied ==
  \A k \in DOMAIN log : IsCopied(k) => latest[LogArea[k + 1]] = latest[log[k]]

\* The blocks that are reserved for the open calls, and the room in the log.
Reserved ==
  {x \in Users \X (1 .. MAXOPBLOCKS) : th[x[1]].op /\ x[2] > th[x[1]].wrote}
Room ==
  /\ Len(log) + Cardinality(Reserved) <= LOGBLOCKS
  /\ Len(log) <= LOGBLOCKS - (MAXOPBLOCKS - OpLimit)

CacheInv ==
  /\ CacheTypeOK /\ ListWhole /\ OneBuffer /\ Counted /\ Held /\ Fresh
  /\ CallerShape /\ CommitterShape /\ CommitState /\ Copied /\ Room /\ ~panic
-----------------------------------------------------------------------------
\* The areas of the disk and the sizes.
LEMMA Sizes ==
  ASSUME CacheSized
  PROVE  /\ LOGBLOCKS \in Nat /\ DOMAIN LogArea = 1 .. LOGBLOCKS + 1
         /\ \A k \in 1 .. LOGBLOCKS + 1 : LogArea[k] \in Blocks \ Homes
         /\ MAXOPBLOCKS \in Nat /\ OpLimit \in Nat /\ NBUF \in Nat
         /\ Cardinality(Users) \in Nat
<1>1. Len(LogArea) \in Nat /\ DOMAIN LogArea = 1 .. Len(LogArea)
  BY DEF CacheSized
<1>2. LOGBLOCKS \in Nat
  BY <1>1 DEF CacheSized, LOGBLOCKS
<1>3. \A k \in DOMAIN LogArea : LogArea[k] \in Range(LogArea)
  BY DEF Range
<1>4. Cardinality(Users) \in Nat
  BY FS_CardinalityType DEF CacheSized
<1> QED
  BY <1>1, <1>2, <1>3, <1>4 DEF CacheSized, LOGBLOCKS, Blocks

\* The contents of the variables' fields.
LEMMA Fields ==
  ASSUME CacheTypeOK
  PROVE  /\ \A i \in Bufs :
              /\ buf[i].block \in Blocks \cup {NoBlock}
              /\ buf[i].valid \in BOOLEAN /\ buf[i].refcnt \in Int
              /\ buf[i].lock \in Users \cup {NoUser}
              /\ buf[i].data \in Values
         /\ \A p \in Users :
              /\ th[p].op \in BOOLEAN /\ th[p].wrote \in 0 .. OpLimit
              /\ th[p].pc \in {"run", "lock", "put"}
              /\ th[p].at \in 0 .. NBUF
              /\ th[p].hold \in Seq(Bufs)
              /\ Len(th[p].hold) \in Nat
              /\ DOMAIN th[p].hold = 1 .. Len(th[p].hold)
              /\ \A k \in 1 .. Len(th[p].hold) : th[p].hold[k] \in Bufs
         /\ Len(log) \in Nat /\ DOMAIN log = 1 .. Len(log)
         /\ \A k \in 1 .. Len(log) : log[k] \in Homes
         /\ commit.by \in Users \cup {NoUser} /\ commit.part \in Parts
         /\ commit.tail \in Nat \ {0} /\ commit.written \in BOOLEAN
  BY DEF CacheTypeOK, BufRecs, ThRecs, CommitRecs

\* What the updates of a buffer and of a process leave of their types.
LEMMA SetLock ==
  ASSUME NEW f \in [Bufs -> BufRecs], NEW i \in Bufs,
         NEW x \in Users \cup {NoUser}
  PROVE  [f EXCEPT ![i].lock = x] \in [Bufs -> BufRecs]
<1>1. [f[i] EXCEPT !.lock = x] \in BufRecs
  BY DEF BufRecs
<1> QED
  BY <1>1

LEMMA SetCount ==
  ASSUME NEW f \in [Bufs -> BufRecs], NEW i \in Bufs, NEW n \in Int
  PROVE  [f EXCEPT ![i].refcnt = n] \in [Bufs -> BufRecs]
<1>1. [f[i] EXCEPT !.refcnt = n] \in BufRecs
  BY DEF BufRecs
<1> QED
  BY <1>1

LEMMA SetData ==
  ASSUME NEW f \in [Bufs -> BufRecs], NEW i \in Bufs, NEW n \in Int,
         NEW v \in Values
  PROVE  [f EXCEPT ![i].refcnt = n, ![i].data = v] \in [Bufs -> BufRecs]
<1>1. [f[i] EXCEPT !.refcnt = n, !.data = v] \in BufRecs
  BY DEF BufRecs
<1> QED
  BY <1>1

LEMMA SetLocked ==
  ASSUME NEW f \in [Bufs -> BufRecs], NEW i \in Bufs,
         NEW x \in Users \cup {NoUser}, NEW v \in Values
  PROVE  [f EXCEPT ![i].lock = x, ![i].valid = TRUE, ![i].data = v]
           \in [Bufs -> BufRecs]
<1>1. [f[i] EXCEPT !.lock = x, !.valid = TRUE, !.data = v] \in BufRecs
  BY DEF BufRecs
<1> QED
  BY <1>1

LEMMA SetBlock ==
  ASSUME NEW f \in [Bufs -> BufRecs], NEW i \in Bufs, NEW n \in Int,
         NEW c \in Blocks
  PROVE  [f EXCEPT ![i].block = c, ![i].valid = FALSE, ![i].refcnt = n]
           \in [Bufs -> BufRecs]
<1>1. [f[i] EXCEPT !.block = c, !.valid = FALSE, !.refcnt = n] \in BufRecs
  BY DEF BufRecs
<1> QED
  BY <1>1

\* The same for a process.
LEMMA ThUpdate ==
  ASSUME NEW f \in [Users -> ThRecs], NEW p \in Users,
         NEW k \in {"run", "lock", "put"}, NEW i \in 0 .. NBUF,
         NEW h \in Seq(Bufs)
  PROVE  /\ [f EXCEPT ![p].pc = k, ![p].at = i, ![p].hold = h]
              \in [Users -> ThRecs]
         /\ [f EXCEPT ![p].pc = k, ![p].at = i] \in [Users -> ThRecs]
         /\ [f EXCEPT ![p].pc = k, ![p].hold = h] \in [Users -> ThRecs]
<1>1. /\ [f[p] EXCEPT !.pc = k, !.at = i, !.hold = h] \in ThRecs
      /\ [f[p] EXCEPT !.pc = k, !.at = i] \in ThRecs
      /\ [f[p] EXCEPT !.pc = k, !.hold = h] \in ThRecs
  BY DEF ThRecs
<1> QED
  BY <1>1

\* The blocks of an iteration of commit().
LEMMA WantedBlocks ==
  ASSUME CacheSized, CacheTypeOK, CommitState, Room, commit.by \in Users
  PROVE  /\ Wanted \in Seq(Blocks) /\ Len(Wanted) \in {1, 2}
         /\ DOMAIN Wanted = 1 .. Len(Wanted)
         /\ Wanted[1] \in Blocks \ Homes
         /\ Len(Wanted) = 2 => /\ Wanted[2] = log[commit.tail]
                               /\ commit.tail \in DOMAIN log
                               /\ commit.tail <= LOGBLOCKS
                               /\ Wanted[1] = LogArea[commit.tail + 1]
         /\ Len(Wanted) = 2 <=> commit.part \in {"log", "install"}
<1> USE Sizes, Fields
<1>1. CASE commit.part \in {"log", "install"}
  <2>1. commit.tail \in 1 .. Len(log) /\ Len(log) <= LOGBLOCKS
    BY <1>1 DEF CommitState, Room, CacheSized
  <2>2. /\ LogArea[commit.tail + 1] \in Blocks \ Homes
        /\ log[commit.tail] \in Homes
    BY <2>1
  <2>3. log[commit.tail] \in Blocks
    BY <2>2 DEF Blocks
  <2>4. Wanted = <<LogArea[commit.tail + 1], log[commit.tail]>>
    BY <1>1 DEF Wanted
  <2> QED
    BY <1>1, <2>1, <2>2, <2>3, <2>4
<1>2. CASE commit.part \notin {"log", "install"}
  <2>1. LogArea[1] \in Blocks \ Homes
    OBVIOUS
  <2>2. Wanted = <<LogArea[1]>>
    BY <1>2 DEF Wanted
  <2> QED
    BY <1>2, <2>1, <2>2
<1> QED
  BY <1>1, <1>2

\* References are countable.
LEMMA RefsFinite ==
  ASSUME CacheSized, NEW i
  PROVE  IsFiniteSet(Refs(i)) /\ Cardinality(Refs(i)) \in Nat
  BY FS_Subset, FS_CardinalityType DEF Refs, CacheSized

\* A buffer without references is not pinned, not locked and nobody's.
LEMMA Unreferenced ==
  ASSUME CacheSized, CacheTypeOK, Counted, Held, NEW i \in Bufs,
         buf[i].refcnt = 0
  PROVE  /\ Refs(i) = {} /\ buf[i].block \notin Pinned
         /\ \A p \in Users : i \notin Refd(p)
         /\ buf[i].lock = NoUser
<1>1. Cardinality(Refs(i)) = 0 /\ buf[i].block \notin Pinned
  BY RefsFinite DEF Counted
<1>2. Refs(i) = {}
  BY <1>1, RefsFinite, FS_EmptySet
<1>3. \A p \in Users : i \notin Refd(p)
  BY <1>2 DEF Refs
<1>4. buf[i].lock = NoUser
  BY <1>3, Fields DEF Held, HeldBy, Refd
<1> QED
  BY <1>1, <1>2, <1>3, <1>4

\* Some element of a set of positions is the last.
LEMMA MaxInSet ==
  ASSUME NEW n \in Nat, NEW S \in SUBSET (1 .. n), S # {}
  PROVE  Max(S) \in S
<1>1. PICK R : R = OpToRel(<, Nat)
  OBVIOUS
<1>2. IsWellFoundedOn(R, Nat)
  BY <1>1, NatLessThanWellFounded
<1>3. PICK T : T = {n - k : k \in S}
  OBVIOUS
<1>4. T \subseteq Nat /\ T # {}
  <2>1. \A k \in S : k \in Int /\ k <= n
    OBVIOUS
  <2>2. \A k \in S : n - k \in Nat
    BY <2>1
  <2> QED
    BY <1>3, <2>2
<1>5. PICK x \in T : \A y \in T : ~(<<y, x>> \in R)
  BY <1>2, <1>4, WFMin
<1>6. PICK k \in S : x = n - k
  BY <1>3
<1>7. \A j \in S : k >= j
  <2> SUFFICES ASSUME NEW j \in S, j > k PROVE FALSE
    OBVIOUS
  <2>1. PICK y : y = n - j
    OBVIOUS
  <2>2. y \in T /\ y \in Nat /\ x \in Nat /\ y < x
    BY <1>3, <1>4, <1>6, <2>1
  <2>3. <<y, x>> \in R
    BY <1>1, <2>2 DEF OpToRel
  <2> QED
    BY <1>5, <2>2, <2>3
<1> QED
  BY <1>7 DEF Max

\* A process refers to at most one buffer whose block is not in the log.
LEMMA OneOutside ==
  ASSUME CacheSized, CacheInv, NEW p \in Users,
         NEW i \in Refd(p), NEW j \in Refd(p),
         buf[i].block \notin Range(log), buf[j].block \notin Range(log)
  PROVE  i = j
<1> USE Fields, Sizes DEF CacheInv
<1>0. i \in Bufs /\ j \in Bufs /\ buf[i].block # NoBlock
  BY DEF Held, HeldBy
<1>1. CASE commit.by # p
  <2>1. Len(th[p].hold) <= 1 /\ (th[p].pc # "run" => Len(th[p].hold) = 0)
    BY <1>1 DEF CallerShape, Calling
  <2>2. CASE th[p].pc = "run"
    <3>1. i \in Range(th[p].hold) /\ j \in Range(th[p].hold)
      BY <2>2 DEF Refd
    <3> QED
      BY <2>1, <3>1 DEF Range
  <2>3. CASE th[p].pc # "run"
    <3>1. Range(th[p].hold) = {}
      BY <2>1, <2>3 DEF Range
    <3> QED
      BY <2>3, <3>1 DEF Refd
  <2> QED
    BY <2>2, <2>3
<1>2. CASE commit.by = p
  <2>1. buf[i].block \in Range(Wanted) /\ buf[j].block \in Range(Wanted)
    BY <1>2 DEF CommitterShape, Committing
  <2>2. Len(Wanted) = 2 => Wanted[2] \in Range(log)
    BY <1>2, WantedBlocks DEF Range
  <2>3. \A c \in Range(Wanted) \ Range(log) : c = Wanted[1]
    <3>1. DOMAIN Wanted = 1 .. Len(Wanted) /\ Len(Wanted) \in {1, 2}
      BY <1>2, WantedBlocks
    <3> QED
      BY <2>2, <3>1 DEF Range
  <2> QED
    BY <1>0, <2>1, <2>3 DEF OneBuffer
<1> QED
  BY <1>1, <1>2

\* The size of a set of positions.
LEMMA UpTo == \A n \in Nat : IsFiniteSet(1 .. n) /\ Cardinality(1 .. n) = n
<1> SUFFICES ASSUME NEW n \in Nat
             PROVE  IsFiniteSet(1 .. n) /\ Cardinality(1 .. n) = n
  OBVIOUS
<1>1. /\ IsFiniteSet(1 .. n)
      /\ Cardinality(1 .. n) = IF 1 > n THEN 0 ELSE n - 1 + 1
  BY FS_Interval
<1> QED
  BY <1>1

\* The numbers after m, up to n.
LEMMA After ==
  ASSUME NEW m \in Nat, NEW n \in Nat, m <= n
  PROVE  /\ IsFiniteSet((m + 1) .. n)
         /\ Cardinality((m + 1) .. n) = n - m
<1>1. m + 1 \in Int /\ n \in Int
  OBVIOUS
<1>2. IsFiniteSet((m + 1) .. n)
  BY <1>1, FS_Interval
<1>3. Cardinality((m + 1) .. n) = IF m + 1 > n THEN 0 ELSE n - (m + 1) + 1
  BY <1>1, FS_Interval
<1>4. CASE m + 1 > n
  <2>1. n = m
    BY <1>4
  <2> QED
    BY <1>2, <1>3, <1>4, <2>1
<1>5. CASE ~(m + 1 > n)
  <2>1. n - (m + 1) + 1 = n - m
    OBVIOUS
  <2> QED
    BY <1>2, <1>3, <1>5, <2>1
<1> QED
  BY <1>4, <1>5

\* A set whose elements choose different partners in T is no larger than T.
LEMMA ChoiceBound ==
  ASSUME NEW S, NEW T, IsFiniteSet(T), NEW R,
         \A x \in S : \E y \in T : <<x, y>> \in R,
         \A x, z \in S : \A y \in T :
           <<x, y>> \in R /\ <<z, y>> \in R => x = z
  PROVE  IsFiniteSet(S) /\ Cardinality(S) <= Cardinality(T)
<1>1. PICK f : f = [x \in S |-> CHOOSE y \in T : <<x, y>> \in R]
  OBVIOUS
<1>2. \A x \in S : f[x] \in T /\ <<x, f[x]>> \in R
  BY <1>1
<1>3. f \in [S -> T]
  BY <1>1, <1>2
<1>4. f \in Injection(S, T)
  BY <1>2, <1>3 DEF Injection, IsInjective
<1> QED
  BY <1>4, FS_Injection

\* bget() finds a buffer for a process that refers to none.
LEMMA BufferFound ==
  ASSUME CacheSized, CacheInv, NEW p \in Users, Refd(p) = {}
  PROVE  \E i \in Bufs : buf[i].refcnt = 0
<1> USE Fields, Sizes DEF CacheInv
<1> SUFFICES ASSUME \A i \in Bufs : buf[i].refcnt # 0 PROVE FALSE
  OBVIOUS
<1>1. PICK I : I = {i \in Bufs : buf[i].block \in Range(log)}
  OBVIOUS
<1>2. IsFiniteSet(I) /\ Cardinality(I) <= Len(log)
  <2>1. PICK R : R = {x \in I \X (1 .. Len(log)) :
                        log[x[2]] = buf[x[1]].block}
    OBVIOUS
  <2>2. PICK K : K = 1 .. Len(log)
    OBVIOUS
  <2>3. IsFiniteSet(K) /\ Cardinality(K) = Len(log)
    BY <2>2, UpTo
  <2>4. \A i \in I : \E k \in K : <<i, k>> \in R
    BY <1>1, <2>1, <2>2 DEF Range
  <2>5. \A i \in I : buf[i].block # NoBlock
    <3>1. \A k \in 1 .. Len(log) : log[k] # NoBlock
      BY DEF CacheSized, Blocks
    <3> QED
      BY <1>1, <3>1 DEF Range
  <2>6. \A i, j \in I : \A k \in K : <<i, k>> \in R /\ <<j, k>> \in R => i = j
    BY <1>1, <2>1, <2>5 DEF OneBuffer
  <2> QED
    <3>1. IsFiniteSet(I) /\ Cardinality(I) <= Cardinality(K)
      BY ONLY <2>3, <2>4, <2>6, ChoiceBound
    <3> QED
      BY <2>3, <3>1
<1>3. PICK O : O = Bufs \ I
  OBVIOUS
<1>4. PICK Q : Q = Users \ {p}
  OBVIOUS
<1>5. IsFiniteSet(Q) /\ Cardinality(Q) = Cardinality(Users) - 1
  BY <1>4, FS_RemoveElement DEF CacheSized
<1>6. IsFiniteSet(O) /\ Cardinality(O) <= Cardinality(Q)
  <2>1. PICK R : R = {x \in O \X Q : x[1] \in Refd(x[2])}
    OBVIOUS
  <2>2. ASSUME NEW i \in O PROVE \E q \in Q : <<i, q>> \in R
    <3>1. i \in Bufs /\ buf[i].block \notin Range(log)
      BY <1>1, <1>3
    <3>2. buf[i].block \notin Pinned
      <4>1. \A k \in FirstPinned .. Len(log) : k \in 1 .. Len(log)
        BY DEF FirstPinned
      <4> QED
        BY <3>1, <4>1 DEF Pinned, Range
    <3>3. Cardinality(Refs(i)) # 0
      BY <3>1, <3>2, RefsFinite DEF Counted
    <3>4. Refs(i) # {}
      BY <3>3, FS_EmptySet
    <3>5. PICK q \in Users : i \in Refd(q)
      BY <3>4 DEF Refs
    <3> QED
      BY <1>4, <2>1, <3>5
  <2>3. ASSUME NEW i \in O, NEW j \in O, NEW q \in Q,
               <<i, q>> \in R, <<j, q>> \in R
        PROVE  i = j
    <3>1. i \in Refd(q) /\ j \in Refd(q) /\ q \in Users
      BY <1>4, <2>1, <2>3
    <3>2. buf[i].block \notin Range(log) /\ buf[j].block \notin Range(log)
      BY <1>1, <1>3
    <3> QED
      BY <3>1, <3>2, OneOutside
  <2> QED
    BY <1>5, <2>2, <2>3, ChoiceBound
<1>7. Bufs = I \cup O /\ I \cap O = {}
  BY <1>1, <1>3
<1>8. Cardinality(Bufs) = Cardinality(I) + Cardinality(O)
  <2>1. Cardinality(I \cap O) = 0
    BY <1>7, FS_EmptySet
  <2>2. Cardinality(I) \in Nat /\ Cardinality(O) \in Nat
    BY <1>2, <1>6, FS_CardinalityType
  <2>3. Cardinality(I \cup O) =
          Cardinality(I) + Cardinality(O) - Cardinality(I \cap O)
    BY <1>2, <1>6, FS_Union
  <2> QED
    BY <1>7, <2>1, <2>2, <2>3
<1>9. Cardinality(Bufs) = NBUF
  BY UpTo DEF Bufs
<1>10. Cardinality(I) \in Nat /\ Cardinality(O) \in Nat
  BY <1>2, <1>6, FS_CardinalityType
<1> QED
  BY <1>2, <1>5, <1>6, <1>8, <1>9, <1>10 DEF Room, CacheSized

\* What the references become when only p changes its own.
LEMMA RefsStep ==
  ASSUME CacheSized, NEW p \in Users,
         \A q \in Users \ {p} : Refd(q)' = Refd(q)
  PROVE  /\ Refd(p)' = Refd(p) => \A i : Refs(i)' = Refs(i)
         /\ \A j : Refd(p)' = Refd(p) \cup {j} /\ j \notin Refd(p) =>
              /\ \A i : i # j => Refs(i)' = Refs(i)
              /\ Cardinality(Refs(j)') = Cardinality(Refs(j)) + 1
         /\ \A j : Refd(p)' = Refd(p) \ {j} /\ j \in Refd(p) =>
              /\ \A i : i # j => Refs(i)' = Refs(i)
              /\ Cardinality(Refs(j)') = Cardinality(Refs(j)) - 1
<1>0. \A i : Refs(i)' = {q \in Users : i \in Refd(q)'}
  BY DEF Refs
<1>1. ASSUME Refd(p)' = Refd(p), NEW i PROVE Refs(i)' = Refs(i)
  <2>1. \A q \in Users : Refd(q)' = Refd(q)
    BY <1>1
  <2> QED
    BY <1>0, <2>1 DEF Refs
<1>2. ASSUME NEW j, Refd(p)' = Refd(p) \cup {j}, j \notin Refd(p)
      PROVE  /\ \A i : i # j => Refs(i)' = Refs(i)
             /\ Cardinality(Refs(j)') = Cardinality(Refs(j)) + 1
  <2>1. ASSUME NEW i, i # j PROVE Refs(i)' = Refs(i)
    <3>1. \A q \in Users : i \in Refd(q)' <=> i \in Refd(q)
      BY <1>2, <2>1
    <3> QED
      BY <1>0, <3>1 DEF Refs
  <2>2. Refs(j)' = Refs(j) \cup {p} /\ p \notin Refs(j)
    <3>1. \A q \in Users : j \in Refd(q)' <=> (j \in Refd(q) \/ q = p)
      BY <1>2
    <3> QED
      BY <1>0, <1>2, <3>1 DEF Refs
  <2> QED
    BY <2>1, <2>2, RefsFinite, FS_AddElement
<1>3. ASSUME NEW j, Refd(p)' = Refd(p) \ {j}, j \in Refd(p)
      PROVE  /\ \A i : i # j => Refs(i)' = Refs(i)
             /\ Cardinality(Refs(j)') = Cardinality(Refs(j)) - 1
  <2>1. ASSUME NEW i, i # j PROVE Refs(i)' = Refs(i)
    <3>1. \A q \in Users : i \in Refd(q)' <=> i \in Refd(q)
      BY <1>3, <2>1
    <3> QED
      BY <1>0, <3>1 DEF Refs
  <2>2. Refs(j)' = Refs(j) \ {p} /\ p \in Refs(j)
    <3>1. \A q \in Users : j \in Refd(q)' <=> (j \in Refd(q) /\ q # p)
      BY <1>3
    <3> QED
      BY <1>0, <1>3, <3>1 DEF Refs
  <2> QED
    BY <2>1, <2>2, RefsFinite, FS_RemoveElement
<1> QED
  BY <1>1, <1>2, <1>3
-----------------------------------------------------------------------------
\* Nothing is said about references but through pc, at and hold.
LEMMA SameRefs ==
  ASSUME CacheSized, NEW p \in Users,
         \A q \in Users : /\ th'[q].hold = th[q].hold /\ th'[q].pc = th[q].pc
                          /\ th'[q].at = th[q].at
  PROVE  (\A q \in Users : Refd(q)' = Refd(q)) /\ (\A i : Refs(i)' = Refs(i))
<1>1. \A q \in Users : Refd(q)' = Refd(q)
  BY DEF Refd
<1> QED
  BY <1>1, RefsStep

\* Room is countable.
LEMMA ReservedFinite ==
  ASSUME CacheSized
  PROVE  IsFiniteSet(Reserved) /\ Cardinality(Reserved) \in Nat
<1>1. IsFiniteSet(Users \X (1 .. MAXOPBLOCKS))
  BY UpTo, Sizes, FS_Product DEF CacheSized
<1>2. Reserved \subseteq Users \X (1 .. MAXOPBLOCKS)
  BY DEF Reserved
<1> QED
  BY <1>1, <1>2, FS_Subset, FS_CardinalityType

\* The state of a new cache.
LEMMA InitCache ==
  ASSUME CacheSized, CacheInit
  PROVE  CacheInv
<1>0. PICK v \in Values : v = CHOOSE w \in Values : TRUE
  BY DEF CacheSized
<1>1. /\ \A i \in Bufs : buf[i] = [block |-> NoBlock, valid |-> FALSE,
                                   refcnt |-> 0, lock |-> NoUser, data |-> v]
      /\ \A q \in Users : th[q] = [op |-> FALSE, wrote |-> 0, pc |-> "run",
                                   at |-> 0, hold |-> <<>>]
      /\ log = <<>> /\ Len(log) = 0
      /\ commit = [by |-> NoUser, part |-> "none", tail |-> 1,
                   written |-> FALSE]
      /\ panic = FALSE /\ latest = bdev
  BY <1>0 DEF CacheInit, NoCommit
<1>2. CacheTypeOK
  <2>1. buf \in [Bufs -> BufRecs]
    BY <1>0 DEF CacheInit, BufRecs
  <2>2. lru \in [Bufs -> Bufs]
    BY Sizes DEF CacheInit, Bufs
  <2>3. bdev \in [Blocks -> Values] /\ latest \in [Blocks -> Values]
    BY <1>0 DEF CacheInit
  <2>4. PICK e \in Seq(Bufs) : e = <<>>
    BY EmptySeq
  <2>5. th \in [Users -> ThRecs]
    <3>1. th = [q \in Users |-> [op |-> FALSE, wrote |-> 0, pc |-> "run",
                                 at |-> 0, hold |-> e]]
      BY <2>4 DEF CacheInit
    <3>2. 0 \in 0 .. OpLimit /\ 0 \in 0 .. NBUF
      BY Sizes
    <3> QED
      BY <3>1, <3>2 DEF ThRecs
  <2>6. log \in Seq(Homes) /\ panic \in BOOLEAN
    BY <1>1, EmptySeq
  <2>7. commit \in CommitRecs
    BY <1>1 DEF Parts, CommitRecs
  <2> QED
    BY <2>1, <2>2, <2>3, <2>5, <2>6, <2>7
       DEF CacheTypeOK, BufRecs, ThRecs, CommitRecs
<1>3. ListWhole
  <2>1. \A k \in Bufs : lru[k] = NBUF + 1 - k
    BY DEF CacheInit
  <2>2. \A i \in Bufs : NBUF + 1 - i \in Bufs /\ lru[NBUF + 1 - i] = i
    BY <2>1, Sizes DEF Bufs
  <2>3. \A k, l \in Bufs : lru[k] = lru[l] => k = l
    BY <2>1, Sizes DEF Bufs
  <2> QED
    BY <2>2, <2>3 DEF ListWhole
<1>4. \A q \in Users : Refd(q) = {}
  BY <1>1 DEF Refd, Range
<1>5. Pinned = {}
  BY <1>1 DEF Pinned, FirstPinned
<1>6. Counted
  <2>1. \A i : Refs(i) = {}
    BY <1>4 DEF Refs
  <2> QED
    <3>1. \A i : Cardinality(Refs(i)) = 0
      BY <2>1, FS_EmptySet
    <3>2. \A i \in Bufs : buf[i].refcnt = 0
      BY <1>1
    <3> QED
      BY <1>5, <3>1, <3>2 DEF Counted
<1>7. Held /\ Fresh /\ OneBuffer
  <2>1. Held
    BY <1>1, <1>4 DEF Held, HeldBy, Range, CacheSized
  <2>2. Fresh
    BY <1>1, <1>5 DEF Fresh
  <2> QED
    BY <1>1, <2>1, <2>2 DEF OneBuffer
<1>8. CallerShape /\ CommitterShape /\ CommitState /\ Copied
  BY <1>1, <1>4 DEF CallerShape, Calling, CommitterShape, Committing,
                    CommitState, Copied,
     IsCopied, CacheSized, NoCommit
<1>9. Room
  <2>1. Reserved = {}
    BY <1>1 DEF Reserved
  <2>2. Cardinality(Reserved) = 0
    BY <2>1, FS_EmptySet
  <2> QED
    BY <1>1, <2>2, Sizes DEF Room, CacheSized
<1> QED
  BY <1>1, <1>2, <1>3, <1>6, <1>7, <1>8, <1>9 DEF CacheInv

\* begin_op() reserves room in the log.
LEMMA BeginOpInv ==
  ASSUME CacheSized, CacheInv, NEW p \in Users, BeginOp(p)
  PROVE  CacheInv'
<1> USE DEF CacheInv
<1>1. /\ th' = [th EXCEPT ![p].op = TRUE, ![p].wrote = 0]
      /\ UNCHANGED <<buf, lru, bdev, log, commit, panic, latest>>
      /\ commit.by = NoUser
  BY DEF BeginOp
<1>2. \A q \in Users : /\ th'[q].hold = th[q].hold /\ th'[q].pc = th[q].pc
                       /\ th'[q].at = th[q].at
  BY <1>1 DEF CacheTypeOK, BufRecs, ThRecs, CommitRecs
<1>3. CacheTypeOK'
  <2>1. 0 \in 0 .. OpLimit
    BY Sizes
  <2>2. th' \in [Users -> ThRecs]
    BY <1>1, <2>1 DEF CacheTypeOK, ThRecs
  <2> QED
    BY <1>1, <2>2 DEF CacheTypeOK, BufRecs, ThRecs, CommitRecs
<1>4. (\A q \in Users : Refd(q)' = Refd(q)) /\ (\A i : Refs(i)' = Refs(i))
  BY <1>2, SameRefs
<1>5. Pinned' = Pinned /\ Wanted' = Wanted
  BY <1>1 DEF Pinned, FirstPinned, Wanted
<1>6. Counted' /\ Held' /\ Fresh' /\ OneBuffer' /\ ListWhole'
  <2>1. Counted'
    BY <1>1, <1>4, <1>5 DEF Counted
  <2>2. Held'
    <3>1. buf' = buf
      BY <1>1
    <3> QED
      BY <3>1, <1>2, <1>4 DEF Held, HeldBy
  <2> QED
    BY <1>1, <1>5, <2>1, <2>2 DEF Fresh, OneBuffer, ListWhole
<1>7. CallerShape' /\ CommitterShape'
  <2>1. CallerShape'
    BY <1>1, <1>2, <1>4 DEF CallerShape, Calling
  <2>2. CommitterShape'
    BY <1>1, CacheSized DEF CommitterShape, Committing, CacheSized
  <2> QED
    BY <2>1, <2>2
<1>8. CommitState' /\ Copied'
  BY <1>1 DEF CommitState, Copied, IsCopied
<1>9. Room'
  <2>1. PICK O : O = {q \in Users : th[q].op}
    OBVIOUS
  <2>2. PICK W : W = O \cup {p}
    OBVIOUS
  <2>3. IsFiniteSet(O) /\ Cardinality(O) \in Nat
    BY <2>1, FS_Subset, FS_CardinalityType DEF CacheSized
  <2>4. IsFiniteSet(W) /\ Cardinality(W) = Cardinality(O) + 1
    <3>1. p \notin O
      BY <2>1 DEF BeginOp
    <3> QED
      BY <2>2, <2>3, <3>1, FS_AddElement
  <2>5. PICK X : X = W \X (1 .. MAXOPBLOCKS)
    OBVIOUS
  <2>6. IsFiniteSet(X) /\ Cardinality(X) = (Cardinality(O) + 1) * MAXOPBLOCKS
    <3>1. /\ IsFiniteSet(1 .. MAXOPBLOCKS)
          /\ Cardinality(1 .. MAXOPBLOCKS) = MAXOPBLOCKS
      BY UpTo, Sizes
    <3> QED
      BY <2>4, <2>5, <3>1, FS_Product
  <2>7. Reserved' \subseteq X
    <3>1. \A q \in Users : th'[q].op => q \in W
      BY <1>1, <2>1, <2>2 DEF CacheTypeOK, BufRecs, ThRecs, CommitRecs
    <3> QED
      BY <2>5, <3>1 DEF Reserved
  <2>8. /\ Cardinality(Reserved') <= Cardinality(X)
        /\ Cardinality(Reserved') \in Nat
    BY <2>6, <2>7, FS_Subset, FS_CardinalityType
  <2>9. Len(log) + (Cardinality(O) + 1) * MAXOPBLOCKS <= LOGBLOCKS
    BY <2>1 DEF BeginOp
  <2> QED
    <3>1. Cardinality(O) + 1 >= 1 /\ MAXOPBLOCKS >= 1
      BY <2>3, Sizes DEF CacheSized
    <3> QED
      BY <1>1, <2>3, <2>6, <2>8, <2>9, Sizes, Fields DEF Room
<1> QED
  BY <1>1, <1>3, <1>6, <1>7, <1>8, <1>9

\* end_op() of the last call begins the commit.
LEMMA EndOpInv ==
  ASSUME CacheSized, CacheInv, NEW p \in Users, EndOp(p)
  PROVE  CacheInv'
<1> USE DEF CacheInv
<1>1. /\ th' = [th EXCEPT ![p].op = FALSE]
      /\ UNCHANGED <<buf, lru, bdev, log, panic, latest>>
      /\ th[p].op /\ th[p].pc = "run" /\ th[p].hold = <<>>
  BY DEF EndOp, Caller
<1>2. commit = NoCommit
  BY <1>1 DEF CommitState
<1>3. \/ commit' = commit
      \/ /\ commit' = [by |-> p, part |-> "log", tail |-> 1,
                       written |-> FALSE]
         /\ log # <<>> /\ \A q \in Users \ {p} : ~th[q].op
  BY <1>2 DEF EndOp, NoCommit
<1>4. \A q \in Users : /\ th'[q].hold = th[q].hold /\ th'[q].pc = th[q].pc
                       /\ th'[q].at = th[q].at
  BY <1>1 DEF CacheTypeOK, BufRecs, ThRecs, CommitRecs
<1>5. CacheTypeOK'
  <2>1. commit' \in CommitRecs
    <3>1. CASE commit' = commit
      BY <3>1 DEF CacheTypeOK, BufRecs, ThRecs, CommitRecs
    <3>2. CASE commit' # commit
      <4>1. commit' = [by |-> p, part |-> "log", tail |-> 1,
                       written |-> FALSE]
        BY <1>3, <3>2
      <4>2. "log" \in Parts
        BY DEF Parts
      <4> QED
        BY <4>1, <4>2 DEF CommitRecs
    <3> QED
      BY <3>1, <3>2
  <2> QED
    BY <1>1, <2>1 DEF CacheTypeOK, BufRecs, ThRecs, CommitRecs
<1>6. (\A q \in Users : Refd(q)' = Refd(q)) /\ (\A i : Refs(i)' = Refs(i))
  BY <1>4, SameRefs
<1>7. Pinned' = Pinned
  BY <1>1, <1>2, <1>3 DEF Pinned, FirstPinned, NoCommit
<1>8. Counted' /\ Held' /\ Fresh' /\ OneBuffer' /\ ListWhole'
  BY <1>1, <1>4, <1>6, <1>7
     DEF Counted, Held, HeldBy, Fresh, OneBuffer, ListWhole
<1>9. Refd(p) = {}
  BY <1>1 DEF Refd, Range
<1>10. CallerShape'
  BY <1>1, <1>2, <1>3, <1>4, <1>6
     DEF CallerShape, Calling, NoCommit, CacheSized
<1>11. CommitterShape'
  <2>1. CASE commit' = commit
    BY <1>2, <2>1 DEF CommitterShape, Committing, NoCommit, CacheSized
  <2>2. CASE commit' # commit
    <3>1. /\ commit'.by = p /\ commit'.part = "log" /\ ~commit'.written
          /\ DOMAIN th'[p].hold = {} /\ Len(th'[p].hold) = 0
          /\ Refd(p)' = {} /\ th'[p].pc = "run"
      BY <1>1, <1>3, <1>4, <1>6, <1>9, <2>2
    <3>2. Wanted' = <<LogArea[commit'.tail + 1], log'[commit'.tail]>>
      BY <3>1 DEF Wanted
    <3>3. Len(Wanted') = 2
      BY <3>2
    <3> QED
      BY <3>1, <3>3 DEF CommitterShape, Committing
  <2> QED
    BY <2>1, <2>2
<1>12. CommitState'
  <2>1. \A q \in Users : th'[q].op => th[q].op /\ q # p
    BY <1>1 DEF CacheTypeOK, BufRecs, ThRecs, CommitRecs
  <2> QED
    BY <1>1, <1>2, <1>3, <2>1
       DEF CommitState, NoCommit, CacheSized
<1>13. Copied'
  BY <1>1, <1>2, <1>3, Fields DEF Copied, IsCopied, NoCommit
<1>14. Room'
  <2>1. Reserved' \subseteq Reserved
    BY <1>1 DEF Reserved, CacheTypeOK, BufRecs, ThRecs
  <2>2. /\ Cardinality(Reserved') <= Cardinality(Reserved)
        /\ Cardinality(Reserved') \in Nat
    BY <2>1, ReservedFinite, FS_Subset, FS_CardinalityType
  <2> QED
    BY <1>1, <2>2, ReservedFinite, Sizes, Fields DEF Room
<1> QED
  BY <1>1, <1>5, <1>8, <1>10, <1>11, <1>12, <1>13, <1>14

\* releasesleep() of a buffer that p holds.
LEMMA UnlockInv ==
  ASSUME CacheSized, CacheInv, NEW p \in Users, NEW i \in Bufs,
         NEW rest \in Seq(Bufs), Unlock(p, i, rest), th[p].pc = "run",
         i \in Range(th[p].hold), Range(rest) = Range(th[p].hold) \ {i},
         \A k, l \in DOMAIN rest : rest[k] = rest[l] => k = l,
         Len(rest) = Len(th[p].hold) - 1, commit.by = p => commit.written
  PROVE  CacheInv'
<1> USE DEF CacheInv
<1>1. /\ buf' = [buf EXCEPT ![i].lock = NoUser]
      /\ th' = [th EXCEPT ![p].pc = "put", ![p].at = i, ![p].hold = rest]
      /\ lru' = lru /\ bdev' = bdev /\ log' = log /\ commit' = commit
      /\ panic' = panic /\ latest' = latest
  BY DEF Unlock
<1>2. /\ \A q \in Users \ {p} : th'[q] = th[q]
      /\ \A q \in Users : th'[q].op = th[q].op /\ th'[q].wrote = th[q].wrote
      /\ th'[p].pc = "put" /\ th'[p].at = i /\ th'[p].hold = rest
  BY <1>1 DEF CacheTypeOK, BufRecs, ThRecs, CommitRecs
<1>3. /\ \A j \in Bufs : /\ buf'[j].block = buf[j].block
                         /\ buf'[j].valid = buf[j].valid
                         /\ buf'[j].refcnt = buf[j].refcnt
                         /\ buf'[j].data = buf[j].data
                         /\ j # i => buf'[j].lock = buf[j].lock
      /\ buf'[i].lock = NoUser
  BY <1>1 DEF CacheTypeOK, BufRecs, ThRecs, CommitRecs
<1>4. CacheTypeOK'
  <2>1. i \in 0 .. NBUF
    BY Sizes DEF Bufs
  <2>2. th' \in [Users -> ThRecs]
    BY <1>1, <2>1, ThUpdate DEF CacheTypeOK
  <2>3. buf' \in [Bufs -> BufRecs]
    BY <1>1, SetLock DEF CacheTypeOK
  <2> QED
    BY <1>1, <2>2, <2>3 DEF CacheTypeOK, BufRecs, ThRecs, CommitRecs
<1>5. \A q \in Users : Refd(q)' = Refd(q)
  <2>1. Refd(p)' = Refd(p)
    BY <1>2 DEF Refd
  <2>2. \A q \in Users \ {p} : Refd(q)' = Refd(q)
    BY <1>2 DEF Refd
  <2> QED
    BY <2>1, <2>2
<1>6. \A j : Refs(j)' = Refs(j)
  BY <1>5, RefsStep
<1>7. Pinned' = Pinned /\ Wanted' = Wanted
  BY <1>1 DEF Pinned, FirstPinned, Wanted
<1>8. Counted' /\ OneBuffer' /\ ListWhole'
  <2>1. Counted'
    BY <1>3, <1>6, <1>7 DEF Counted
  <2> QED
    BY <1>1, <1>3, <2>1 DEF OneBuffer, ListWhole
<1>9. Held'
  <2> SUFFICES ASSUME NEW q \in Users PROVE HeldBy(q)'
    BY DEF Held, HeldBy
  <2>1. \A j \in Refd(q)' : j \in Bufs /\ buf'[j].block # NoBlock
    BY <1>3, <1>5 DEF Held, HeldBy
  <2>2. CASE q = p
    <3>1. \A j \in Bufs : buf'[j].lock = p <=> j \in Range(rest)
      BY <1>3 DEF Held, HeldBy, CacheSized
    <3> QED
      BY <1>2, <2>1, <2>2, <3>1 DEF HeldBy
  <2>3. CASE q # p
    <3>1. i \notin Range(th[q].hold) /\ buf[i].lock = p
      BY <2>3 DEF Held, HeldBy
    <3>2. \A j \in Bufs : buf'[j].lock = q <=> j \in Range(th[q].hold)
      BY <1>3, <2>3, <3>1 DEF Held, HeldBy, CacheSized
    <3> QED
      BY <1>2, <2>1, <2>3, <3>2 DEF Held, HeldBy
  <2> QED
    BY <2>2, <2>3
<1>10. Fresh'
  BY <1>1, <1>3, <1>7 DEF Fresh
<1>11. CallerShape'
  <2> SUFFICES ASSUME NEW q \in Users, commit.by # q PROVE Calling(q)'
    BY <1>1 DEF CallerShape, Calling
  <2>1. \A j \in Refd(q)' : buf'[j].block \in Homes
    BY <1>3, <1>5 DEF CallerShape, Calling, Held, HeldBy
  <2>2. CASE q = p
    <3>1. Len(rest) = 0
      <4>1. PICK m \in Nat : m = Len(th[p].hold)
        BY Fields
      <4>2. PICK n \in Nat : n = Len(rest)
        OBVIOUS
      <4>3. m <= 1 /\ n = m - 1
        BY <2>2, <4>1, <4>2 DEF CallerShape, Calling
      <4>4. n = 0
        BY <4>3
      <4> QED
        BY <4>2, <4>4
    <3>2. rest = <<>>
      BY <3>1, EmptySeq
    <3> QED
      BY <1>2, <2>1, <2>2, <3>1, <3>2 DEF Calling
  <2>3. CASE q # p
    BY <1>2, <2>1, <2>3 DEF CallerShape, Calling
  <2> QED
    BY <2>2, <2>3
<1>12. CommitterShape'
  <2> SUFFICES ASSUME NEW q \in Users, commit.by = q PROVE Committing(q)'
    BY <1>1 DEF CommitterShape, Committing
  <2>1. \A j \in Refd(q)' : buf'[j].block \in Range(Wanted)
    BY <1>3, <1>5 DEF CommitterShape, Committing, Held, HeldBy
  <2>2. CASE q = p
    <3>1. Len(rest) <= Len(Wanted)
      <4>1. Len(rest) \in Nat /\ Len(th[p].hold) \in Nat
        BY Fields
      <4>2. Len(th[p].hold) <= Len(Wanted) /\ Len(Wanted) \in Nat
        BY <2>2, WantedBlocks DEF CommitterShape, Committing
      <4> QED
        BY <4>1, <4>2
    <3> QED
      BY <1>1, <1>2, <1>7, <2>1, <2>2, <3>1 DEF Committing
  <2>3. CASE q # p
    <3>1. \A k \in DOMAIN th[q].hold : th[q].hold[k] \in Bufs
      BY Fields
    <3>2. th[q].pc = "lock" => th[q].at \in Bufs
      BY DEF Held, HeldBy, Refd
    <3> QED
      <4>1. th'[q] = th[q] /\ commit' = commit /\ Wanted' = Wanted
        BY <1>1, <1>2, <1>7, <2>3
      <4>2. \A j \in Bufs : buf'[j].block = buf[j].block
        BY <1>3
      <4> QED
        BY <2>1, <3>1, <3>2, <4>1, <4>2 DEF CommitterShape, Committing
  <2> QED
    BY <2>2, <2>3
<1>13. CommitState' /\ Copied' /\ Room'
  <2>1. Reserved' = Reserved
    BY <1>2 DEF Reserved
  <2> QED
    BY <1>1, <1>2, <2>1 DEF CommitState, Copied, IsCopied, Room
<1> QED
  BY <1>1, <1>4, <1>8, <1>9, <1>10, <1>11, <1>12, <1>13

\* The second part of brelse(): the count, and the list.
LEMMA PutInv ==
  ASSUME CacheSized, CacheInv, NEW p \in Users, Put(p)
  PROVE  CacheInv'
<1> USE DEF CacheInv
<1>0. PICK i : i = th[p].at
  OBVIOUS
<1>1. /\ buf' = [buf EXCEPT ![i].refcnt = @ - 1]
      /\ th' = [th EXCEPT ![p].pc = "run"]
      /\ lru' = lru \/ lru' = ToHead(lru, i)
      /\ bdev' = bdev /\ log' = log /\ commit' = commit
      /\ panic' = panic /\ latest' = latest
      /\ th[p].pc = "put"
  BY <1>0 DEF Put
<1>2. i \in Bufs /\ i \in Refd(p) /\ i \notin Range(th[p].hold)
  BY <1>0, <1>1 DEF Held, HeldBy, Refd
<1>3. /\ \A q \in Users \ {p} : th'[q] = th[q]
      /\ \A q \in Users : /\ th'[q].op = th[q].op
                          /\ th'[q].wrote = th[q].wrote
                          /\ th'[q].hold = th[q].hold /\ th'[q].at = th[q].at
      /\ th'[p].pc = "run"
  BY <1>1 DEF CacheTypeOK, BufRecs, ThRecs, CommitRecs
<1>4. /\ \A j \in Bufs : /\ buf'[j].block = buf[j].block
                         /\ buf'[j].valid = buf[j].valid
                         /\ buf'[j].lock = buf[j].lock
                         /\ buf'[j].data = buf[j].data
                         /\ j # i => buf'[j].refcnt = buf[j].refcnt
      /\ buf'[i].refcnt = buf[i].refcnt - 1
  BY <1>1, <1>2 DEF CacheTypeOK, BufRecs, ThRecs, CommitRecs
<1>5. /\ lru' \in [Bufs -> Bufs] /\ ListWhole'
  <2>1. CASE lru' = lru
    BY <2>1 DEF CacheTypeOK, BufRecs, ThRecs, ListWhole
  <2>2. CASE lru' = ToHead(lru, i)
    <3>1. \A k \in Bufs : lru[k] \in Bufs
      BY DEF CacheTypeOK, BufRecs, ThRecs, CommitRecs
    <3>2. PICK m \in Bufs : lru[m] = i
      BY <1>2 DEF ListWhole
    <3>3. \A k \in Bufs : (\E j \in k .. NBUF : lru[j] = i) <=> k <= m
      <4> SUFFICES ASSUME NEW k \in Bufs
                   PROVE  (\E j \in k .. NBUF : lru[j] = i) <=> k <= m
        OBVIOUS
      <4>1. \A j \in k .. NBUF : j \in Bufs
        BY Sizes DEF Bufs
      <4>2. ASSUME NEW j \in k .. NBUF, lru[j] = i PROVE k <= m
        BY <3>2, <4>1, <4>2 DEF ListWhole
      <4>3. k <= m => m \in k .. NBUF
        BY <3>2, Sizes DEF Bufs
      <4> QED
        BY <3>2, <4>2, <4>3
    <3>4. \A k \in Bufs : lru'[k] = IF k = 1 THEN i
                                    ELSE IF k <= m THEN lru[k - 1] ELSE lru[k]
      BY <2>2, <3>3 DEF ToHead
    <3>5. \A k \in Bufs : k # 1 => k - 1 \in Bufs
      BY Sizes DEF Bufs
    <3>6. lru' \in [Bufs -> Bufs]
      BY <1>2, <2>2, <3>1, <3>4, <3>5 DEF ToHead
    <3>7. \A k, l \in Bufs : lru'[k] = lru'[l] => k = l
      <4>1. \A k, l \in Bufs : lru[k] = lru[l] => k = l
        BY DEF ListWhole
      <4>2. \A k \in Bufs : k \in Int /\ k >= 1
        BY Sizes DEF Bufs
      <4> SUFFICES ASSUME NEW k \in Bufs, NEW l \in Bufs, lru'[k] = lru'[l],
                          k < l
                   PROVE  FALSE
        BY <4>2
      <4>3. l # 1 /\ l - 1 \in Bufs
        BY <3>5, <4>2
      <4>4. CASE k = 1
        BY <3>2, <3>4, <4>1, <4>2, <4>3, <4>4
      <4>5. CASE k # 1
        <5>1. k - 1 \in Bufs
          BY <3>5, <4>5
        <5> QED
          BY <3>4, <4>1, <4>2, <4>3, <4>5, <5>1
      <4> QED
        BY <4>4, <4>5
    <3>8. ASSUME NEW j \in Bufs PROVE \E k \in Bufs : lru'[k] = j
      <4>1. PICK n \in Bufs : lru[n] = j
        BY DEF ListWhole
      <4>2. CASE n = m
        BY <3>2, <3>4, <4>1, <4>2, Sizes DEF Bufs
      <4>3. CASE n < m
        <5>1. n + 1 \in Bufs /\ n + 1 # 1 /\ n + 1 <= m /\ (n + 1) - 1 = n
          BY <3>2, <4>3, Sizes DEF Bufs
        <5> QED
          BY <3>4, <4>1, <5>1
      <4>4. CASE n > m
        BY <3>2, <3>4, <4>1, <4>4, Sizes DEF Bufs
      <4> QED
        BY <4>2, <4>3, <4>4, Sizes DEF Bufs
    <3> QED
      BY <3>6, <3>7, <3>8 DEF ListWhole
  <2> QED
    BY <1>1, <2>1, <2>2
<1>6. CacheTypeOK'
  <2>1. th' \in [Users -> ThRecs]
    BY <1>1 DEF CacheTypeOK, BufRecs, ThRecs, CommitRecs
  <2>2. buf' \in [Bufs -> BufRecs]
    <3>1. buf[i].refcnt - 1 \in Int
      BY <1>2, Fields
    <3> QED
      BY <1>1, <1>2, <3>1, SetCount DEF CacheTypeOK
  <2> QED
    BY <1>1, <1>5, <2>1, <2>2 DEF CacheTypeOK
<1>7. /\ Refd(p)' = Refd(p) \ {i}
      /\ \A q \in Users \ {p} : Refd(q)' = Refd(q)
  <2>1. Refd(p)' = Range(th[p].hold) /\ Refd(p) = Range(th[p].hold) \cup {i}
    BY <1>0, <1>1, <1>3 DEF Refd
  <2>2. \A q \in Users \ {p} : Refd(q)' = Refd(q)
    BY <1>3 DEF Refd
  <2> QED
    BY <1>2, <2>1, <2>2
<1>8. Pinned' = Pinned /\ Wanted' = Wanted
  BY <1>1 DEF Pinned, FirstPinned, Wanted
<1>9. Counted'
  <2>1. /\ \A j : j # i => Refs(j)' = Refs(j)
        /\ Cardinality(Refs(i)') = Cardinality(Refs(i)) - 1
    BY <1>2, <1>7, RefsStep
  <2> SUFFICES ASSUME NEW j \in Bufs
               PROVE  buf'[j].refcnt = Cardinality(Refs(j)')
                        + (IF buf'[j].block \in Pinned THEN 1 ELSE 0)
    BY <1>8 DEF Counted
  <2>2. CASE j = i
    BY <1>4, <2>1, <2>2, RefsFinite DEF Counted
  <2>3. CASE j # i
    BY <1>4, <2>1, <2>3 DEF Counted
  <2> QED
    BY <2>2, <2>3
<1>10. Held' /\ Fresh' /\ OneBuffer'
  <2>1. Held'
    <3> SUFFICES ASSUME NEW q \in Users PROVE HeldBy(q)'
      BY DEF Held, HeldBy
    <3>1. \A j \in Refd(q)' : j \in Bufs /\ buf'[j].block # NoBlock
      BY <1>4, <1>7 DEF Held, HeldBy
    <3> QED
      BY <1>3, <1>4, <3>1 DEF Held, HeldBy
  <2> QED
    BY <1>1, <1>4, <1>8, <2>1 DEF Fresh, OneBuffer
<1>11. CallerShape'
  <2> SUFFICES ASSUME NEW q \in Users, commit.by # q PROVE Calling(q)'
    BY <1>1 DEF CallerShape, Calling
  <2>1. \A j \in Refd(q)' : buf'[j].block \in Homes
    BY <1>4, <1>7 DEF CallerShape, Calling, Held, HeldBy
  <2> QED
    BY <1>3, <2>1 DEF CallerShape, Calling
<1>12. CommitterShape'
  <2> SUFFICES ASSUME NEW q \in Users, commit.by = q PROVE Committing(q)'
    BY <1>1 DEF CommitterShape, Committing
  <2>1. \A j \in Refd(q)' : buf'[j].block \in Range(Wanted)
    BY <1>4, <1>7 DEF CommitterShape, Committing, Held, HeldBy
  <2>2. CASE q = p
    BY <1>1, <1>3, <1>8, <2>1, <2>2 DEF CommitterShape, Committing
  <2>3. CASE q # p
    <3>1. \A k \in DOMAIN th[q].hold : th[q].hold[k] \in Bufs
      BY Fields
    <3>2. th[q].pc = "lock" => th[q].at \in Bufs
      BY DEF Held, HeldBy, Refd
    <3> QED
      BY <1>1, <1>3, <1>4, <1>8, <2>1, <2>3, <3>1, <3>2
         DEF CommitterShape, Committing
  <2> QED
    BY <2>2, <2>3
<1>13. CommitState' /\ Copied' /\ Room'
  <2>1. Reserved' = Reserved
    BY <1>3 DEF Reserved
  <2> QED
    BY <1>1, <1>3, <2>1 DEF CommitState, Copied, IsCopied, Room
<1> QED
  BY <1>1, <1>5, <1>6, <1>9, <1>10, <1>11, <1>12, <1>13

\* acquiresleep(), and bread() of a buffer that is not valid.
LEMMA LockInv ==
  ASSUME CacheSized, CacheInv, NEW p \in Users, Lock(p)
  PROVE  CacheInv'
<1> USE DEF CacheInv
<1>0. PICK i : i = th[p].at
  OBVIOUS
<1>1. PICK v : v = IF buf[i].valid THEN buf[i].data ELSE bdev[buf[i].block]
  OBVIOUS
<1>2. PICK h : h = Append(th[p].hold, i)
  OBVIOUS
<1>3. /\ th[p].pc = "lock" /\ buf[i].lock = NoUser
      /\ buf' = [buf EXCEPT ![i].lock = p, ![i].valid = TRUE, ![i].data = v]
      /\ th' = [th EXCEPT ![p].pc = "run", ![p].hold = h]
      /\ lru' = lru /\ bdev' = bdev /\ log' = log /\ commit' = commit
      /\ panic' = panic /\ latest' = latest
  BY <1>0, <1>1, <1>2 DEF Lock
<1>4. i \in Bufs /\ i \in Refd(p) /\ i \notin Range(th[p].hold)
  BY <1>0, <1>3 DEF Held, HeldBy, Refd
<1>5. PICK n \in Nat : n = Len(th[p].hold)
  BY Fields
<1>6. /\ h \in Seq(Bufs) /\ Len(h) = n + 1 /\ h[n + 1] = i
      /\ DOMAIN h = 1 .. n + 1 /\ DOMAIN th[p].hold = 1 .. n
      /\ \A k \in 1 .. n : h[k] = th[p].hold[k]
  <2>1. th[p].hold \in Seq(Bufs)
    BY Fields
  <2>2. h \in Seq(Bufs) /\ Len(h) = n + 1 /\ h[n + 1] = i
        /\ \A k \in 1 .. n : h[k] = th[p].hold[k]
    BY <1>2, <1>4, <1>5, <2>1, AppendProperties
  <2> QED
    BY <1>5, <2>1, <2>2
<1>7. Range(h) = Range(th[p].hold) \cup {i}
  BY <1>5, <1>6 DEF Range
<1>8. buf[i].block \in Blocks /\ v \in Values /\ v = latest[buf[i].block]
  <2>1. buf[i].block \in Blocks
    BY <1>4, Fields DEF Held, HeldBy
  <2>2. CASE buf[i].valid
    BY <1>1, <1>4, <2>2, Fields DEF Fresh
  <2>3. CASE ~buf[i].valid
    <3>1. buf[i].block \notin Pinned
      BY <1>4, <2>1, <2>3 DEF Fresh, OneBuffer, CacheSized
    <3> QED
      BY <1>1, <2>1, <2>3, <3>1 DEF Fresh, CacheTypeOK
  <2> QED
    BY <2>1, <2>2, <2>3
<1>9. /\ \A q \in Users \ {p} : th'[q] = th[q]
      /\ \A q \in Users : /\ th'[q].op = th[q].op
                          /\ th'[q].wrote = th[q].wrote
                          /\ th'[q].at = th[q].at
      /\ th'[p].pc = "run" /\ th'[p].hold = h
  BY <1>3 DEF CacheTypeOK, ThRecs
<1>10. /\ \A j \in Bufs : /\ buf'[j].block = buf[j].block
                          /\ buf'[j].refcnt = buf[j].refcnt
                          /\ j # i => buf'[j] = buf[j]
       /\ buf'[i].lock = p /\ buf'[i].valid = TRUE /\ buf'[i].data = v
  BY <1>3, <1>4 DEF CacheTypeOK, BufRecs
<1>11. CacheTypeOK'
  <2>1. th' \in [Users -> ThRecs]
    <3>1. \A x \in 0 .. NBUF : [th EXCEPT ![p].pc = "run", ![p].hold = h]
                                 \in [Users -> ThRecs]
      BY <1>6, ThUpdate DEF CacheTypeOK
    <3>2. 0 \in 0 .. NBUF
      BY Sizes
    <3> QED
      BY <1>3, <3>1, <3>2
  <2>2. buf' \in [Bufs -> BufRecs]
    <3>1. [buf EXCEPT ![i].lock = p, ![i].valid = TRUE, ![i].data = v]
            \in [Bufs -> BufRecs]
      BY <1>4, <1>8, SetLocked DEF CacheTypeOK
    <3> QED
      BY <1>3, <3>1
  <2> QED
    BY <1>3, <2>1, <2>2 DEF CacheTypeOK
<1>12. \A q \in Users : Refd(q)' = Refd(q)
  <2>1. Refd(p)' = Range(h) /\ Refd(p) = Range(th[p].hold) \cup {i}
    BY <1>0, <1>3, <1>9 DEF Refd
  <2>2. \A q \in Users \ {p} : Refd(q)' = Refd(q)
    BY <1>9 DEF Refd
  <2> QED
    BY <1>7, <2>1, <2>2
<1>13. \A j : Refs(j)' = Refs(j)
  BY <1>12, RefsStep
<1>14. Pinned' = Pinned /\ Wanted' = Wanted
  BY <1>3 DEF Pinned, FirstPinned, Wanted
<1>15. Counted' /\ OneBuffer' /\ ListWhole'
  <2>1. Counted'
    BY <1>10, <1>13, <1>14 DEF Counted
  <2>2. OneBuffer'
    BY <1>10 DEF OneBuffer
  <2>3. ListWhole'
    BY <1>3 DEF ListWhole
  <2> QED
    BY <2>1, <2>2, <2>3
<1>16. Held'
  <2> SUFFICES ASSUME NEW q \in Users PROVE HeldBy(q)'
    BY DEF Held
  <2>1. \A j \in Refd(q)' : j \in Bufs /\ buf'[j].block # NoBlock
    BY <1>10, <1>12 DEF Held, HeldBy
  <2>2. CASE q = p
    <3>1. \A j \in Bufs : buf'[j].lock = p <=> j \in Range(h)
      BY <1>7, <1>10 DEF Held, HeldBy
    <3>2. \A k, l \in DOMAIN h : h[k] = h[l] => k = l
      <4>1. \A k \in 1 .. n : h[k] \in Range(th[p].hold)
        BY <1>6 DEF Range
      <4>2. \A k \in 1 .. n : h[k] # h[n + 1]
        BY <1>4, <1>6, <4>1
      <4>3. \A k, l \in 1 .. n : h[k] = h[l] => k = l
        BY <1>6 DEF Held, HeldBy
      <4> QED
        BY <1>6, <4>2, <4>3
    <3> QED
      BY <1>9, <2>1, <2>2, <3>1, <3>2 DEF HeldBy
  <2>3. CASE q # p
    <3>1. i \notin Range(th[q].hold)
      BY <1>3, <1>4, <2>3 DEF Held, HeldBy, CacheSized
    <3>2. \A j \in Bufs : buf'[j].lock = q <=> j \in Range(th[q].hold)
      BY <1>10, <2>3, <3>1 DEF Held, HeldBy
    <3> QED
      BY <1>9, <2>1, <2>3, <3>2 DEF Held, HeldBy
  <2> QED
    BY <2>2, <2>3
<1>17. Fresh'
  <2>1. \A j \in Bufs : buf'[j].lock # NoUser => buf'[j].valid
    BY <1>10 DEF Fresh
  <2>2. \A j \in Bufs : buf'[j].valid =>
          buf'[j].block # NoBlock /\ buf'[j].data = latest[buf'[j].block]
    BY <1>4, <1>8, <1>10 DEF Fresh, CacheSized
  <2>3. \A c \in Pinned : \E j \in Bufs : buf'[j].block = c /\ buf'[j].valid
    BY <1>10 DEF Fresh
  <2> QED
    BY <1>3, <1>14, <2>1, <2>2, <2>3 DEF Fresh
<1>18. CallerShape'
  <2> SUFFICES ASSUME NEW q \in Users, commit.by # q PROVE Calling(q)'
    BY <1>3 DEF CallerShape
  <2>1. \A j \in Refd(q)' : buf'[j].block \in Homes
    BY <1>10, <1>12 DEF CallerShape, Calling, Held, HeldBy
  <2>2. CASE q = p
    <3>1. n = 0
      <4>1. th[p].hold = <<>>
        BY <1>3, <2>2 DEF CallerShape, Calling
      <4> QED
        BY <1>5, <4>1
    <3> QED
      <4>1. Len(h) <= 1
        BY <1>6, <3>1
      <4> QED
        BY <1>9, <2>1, <2>2, <4>1 DEF Calling
  <2>3. CASE q # p
    BY <1>9, <2>1, <2>3 DEF CallerShape, Calling
  <2> QED
    BY <2>2, <2>3
<1>19. CommitterShape'
  <2> SUFFICES ASSUME NEW q \in Users, commit.by = q PROVE Committing(q)'
    BY <1>3 DEF CommitterShape
  <2>1. \A j \in Refd(q)' : buf'[j].block \in Range(Wanted)
    BY <1>10, <1>12 DEF CommitterShape, Committing, Held, HeldBy
  <2>a. Committing(q)
    BY DEF CommitterShape
  <2>b. \A j \in Bufs : buf'[j].block = buf[j].block
    BY <1>10
  <2>c. commit' = commit /\ Wanted' = Wanted
    BY <1>3, <1>14
  <2>2. CASE q = p
    <3>1. ~commit.written /\ n < Len(Wanted) /\ buf[i].block = Wanted[n + 1]
      BY <1>0, <1>3, <1>5, <2>2, <2>a DEF Committing
    <3>2. PICK w \in Nat : w = Len(Wanted)
      BY <2>2, WantedBlocks
    <3>3. n + 1 <= Len(Wanted)
      BY <1>5, <3>1, <3>2
    <3>4. \A k \in 1 .. n : buf[th[p].hold[k]].block = Wanted[k]
      BY <1>6, <2>2, <2>a, <3>1 DEF Committing
    <3>5. \A k \in 1 .. n + 1 : h[k] \in Bufs
      BY <1>6
    <3>6. \A k \in 1 .. n + 1 : buf'[h[k]].block = Wanted[k]
      BY <1>6, <2>b, <3>1, <3>4, <3>5
    <3> QED
      BY <1>6, <1>9, <2>1, <2>2, <2>c, <3>1, <3>3, <3>6 DEF Committing
  <2>3. CASE q # p
    <3>1. \A k \in DOMAIN th[q].hold : th[q].hold[k] \in Bufs
      BY Fields
    <3>2. th[q].pc = "lock" => th[q].at \in Bufs
      BY DEF Held, HeldBy, Refd
    <3>3. th'[q] = th[q]
      BY <1>9, <2>3
    <3> QED
      BY <2>1, <2>a, <2>b, <2>c, <3>1, <3>2, <3>3 DEF Committing
  <2> QED
    BY <2>2, <2>3
<1>20. CommitState' /\ Copied' /\ Room'
  <2>1. Reserved' = Reserved
    BY <1>9 DEF Reserved
  <2> QED
    BY <1>3, <1>9, <2>1 DEF CommitState, Copied, IsCopied, Room
<1> QED
  BY <1>3, <1>11, <1>15, <1>16, <1>17, <1>18, <1>19, <1>20

\* bget() takes buffer i: the one of block c or, if there is none, one that
\* nobody refers to.
Takes(p, c, i) ==
  /\ th' = [th EXCEPT ![p].pc = "lock", ![p].at = i]
  /\ panic' = panic
  /\ \/ buf[i].block = c /\ buf' = [buf EXCEPT ![i].refcnt = @ + 1]
     \/ /\ \A j \in Bufs : buf[j].block # c
        /\ buf[i].refcnt = 0
        /\ buf' = [buf EXCEPT ![i].block = c, ![i].valid = FALSE,
                              ![i].refcnt = 1]

\* There is always one.
LEMMA BgetTakes ==
  ASSUME CacheSized, CacheInv, NEW p \in Users, NEW c \in Blocks,
         Bget(p, c),
         Refd(p) = {} \/ \E i \in Bufs : buf[i].block = c
  PROVE  \E i \in Bufs : Takes(p, c, i)
<1> USE DEF CacheInv
<1>1. PICK hit : hit = {i \in Bufs : buf[i].block = c}
  OBVIOUS
<1>2. PICK unused : unused = {k \in Bufs : buf[lru[k]].refcnt = 0}
  OBVIOUS
<1>3. hit \cup unused # {}
  <2>1. CASE Refd(p) = {}
    <3>1. PICK i \in Bufs : buf[i].refcnt = 0
      BY <2>1, BufferFound
    <3>2. PICK k \in Bufs : lru[k] = i
      BY DEF ListWhole
    <3> QED
      BY <1>2, <3>1, <3>2
  <2>2. CASE \E i \in Bufs : buf[i].block = c
    BY <1>1, <2>2
  <2> QED
    BY <2>1, <2>2
<1>4. PICK i : i = IF hit # {} THEN CHOOSE j \in hit : TRUE
                   ELSE lru[Max(unused)]
  OBVIOUS
<1>5. /\ th' = [th EXCEPT ![p].pc = "lock", ![p].at = i]
      /\ panic' = panic
      /\ buf' = IF hit # {} THEN [buf EXCEPT ![i].refcnt = @ + 1]
                ELSE Recycle(i, c)
  BY <1>1, <1>2, <1>3, <1>4 DEF Bget
<1>6. CASE hit # {}
  <2>1. i \in hit
    BY <1>4, <1>6
  <2> QED
    BY <1>1, <1>5, <1>6, <2>1 DEF Takes
<1>7. CASE hit = {}
  <2>1. Max(unused) \in unused
    BY <1>2, <1>3, <1>7, MaxInSet, Sizes DEF Bufs
  <2>2. i \in Bufs /\ buf[i].refcnt = 0
    BY <1>2, <1>4, <1>7, <2>1 DEF CacheTypeOK
  <2> QED
    BY <1>1, <1>5, <1>7, <2>2 DEF Recycle, Takes
<1> QED
  BY <1>6, <1>7

\* bget() of the block that p wants.
LEMMA BgetInv ==
  ASSUME CacheSized, CacheInv, NEW p \in Users, NEW c \in Blocks,
         Bget(p, c), th[p].pc = "run", \A i \in Refd(p) : buf[i].block # c,
         Refd(p) = {} \/ \E i \in Bufs : buf[i].block = c,
         commit.by # p => c \in Homes /\ th[p].hold = <<>>,
         commit.by = p => /\ ~commit.written
                          /\ Len(th[p].hold) < Len(Wanted)
                          /\ c = Wanted[Len(th[p].hold) + 1]
  PROVE  CacheInv'
<1> USE DEF CacheInv
<1>0. PICK i \in Bufs : Takes(p, c, i)
  BY BgetTakes
<1>1. /\ th' = [th EXCEPT ![p].pc = "lock", ![p].at = i]
      /\ panic' = panic
      /\ \/ buf[i].block = c /\ buf' = [buf EXCEPT ![i].refcnt = @ + 1]
         \/ /\ \A j \in Bufs : buf[j].block # c
            /\ buf[i].refcnt = 0
            /\ buf' = [buf EXCEPT ![i].block = c, ![i].valid = FALSE,
                                  ![i].refcnt = 1]
  BY <1>0 DEF Takes
<1>2. /\ lru' = lru /\ bdev' = bdev /\ log' = log /\ commit' = commit
      /\ latest' = latest
  BY DEF Bget
<1>3. c # NoBlock
  BY DEF CacheSized
<1>4. /\ \A q \in Users \ {p} : th'[q] = th[q]
      /\ \A q \in Users : /\ th'[q].op = th[q].op
                          /\ th'[q].wrote = th[q].wrote
                          /\ th'[q].hold = th[q].hold
      /\ th'[p].pc = "lock" /\ th'[p].at = i
  BY <1>1 DEF CacheTypeOK, ThRecs
<1>5. /\ \A j \in Bufs : j # i => buf'[j] = buf[j]
      /\ buf'[i].block = c /\ buf'[i].lock = buf[i].lock
      /\ buf'[i].data = buf[i].data
      /\ buf'[i].valid => buf[i].valid /\ buf[i].block = c
  <2>1. CASE buf[i].block = c
    <3>1. buf' = [buf EXCEPT ![i].refcnt = @ + 1]
      BY <1>1, <2>1
    <3> QED
      BY <2>1, <3>1 DEF CacheTypeOK, BufRecs
  <2>2. CASE buf[i].block # c
    <3>1. buf' = [buf EXCEPT ![i].block = c, ![i].valid = FALSE,
                             ![i].refcnt = 1]
      BY <1>1, <2>2
    <3> QED
      BY <3>1 DEF CacheTypeOK, BufRecs
  <2> QED
    BY <2>1, <2>2
<1>6. i \notin Refd(p)
  <2>1. CASE buf[i].block = c
    BY <2>1
  <2>2. CASE buf[i].block # c
    BY <1>1, <2>2, Unreferenced
  <2> QED
    BY <2>1, <2>2
<1>7. \A q \in Users : \A j \in Refd(q) :
        j \in Bufs /\ buf'[j].block = buf[j].block
  <2> SUFFICES ASSUME NEW q \in Users, NEW j \in Refd(q)
               PROVE  j \in Bufs /\ buf'[j].block = buf[j].block
    OBVIOUS
  <2>1. j \in Bufs
    BY DEF Held, HeldBy
  <2>2. CASE j = i
    <3>1. buf[i].block = c
      BY <1>1, <2>2, Unreferenced
    <3> QED
      BY <1>5, <2>1, <2>2, <3>1
  <2>3. CASE j # i
    BY <1>5, <2>1, <2>3
  <2> QED
    BY <2>2, <2>3
<1>8. CacheTypeOK'
  <2>1. th' \in [Users -> ThRecs]
    <3>1. i \in 0 .. NBUF
      BY Sizes DEF Bufs
    <3>2. PICK h \in Seq(Bufs) : h = <<>>
      BY EmptySeq
    <3>3. [th EXCEPT ![p].pc = "lock", ![p].at = i] \in [Users -> ThRecs]
      BY <3>1, <3>2, ThUpdate DEF CacheTypeOK
    <3> QED
      BY <1>1, <3>3
  <2>2. buf' \in [Bufs -> BufRecs]
    <3>1. PICK n \in Int : n = buf[i].refcnt + 1
      BY Fields
    <3>2. [buf EXCEPT ![i].refcnt = n] \in [Bufs -> BufRecs]
      BY <3>1, SetCount DEF CacheTypeOK
    <3>3. PICK m \in Int : m = 1
      OBVIOUS
    <3>4. [buf EXCEPT ![i].block = c, ![i].valid = FALSE, ![i].refcnt = m]
            \in [Bufs -> BufRecs]
      BY SetBlock DEF CacheTypeOK
    <3> QED
      BY <1>1, <3>1, <3>2, <3>3, <3>4
  <2> QED
    BY <1>1, <1>2, <2>1, <2>2 DEF CacheTypeOK
<1>9. /\ Refd(p)' = Refd(p) \cup {i}
      /\ \A q \in Users \ {p} : Refd(q)' = Refd(q)
  <2>1. Refd(p)' = Range(th[p].hold) \cup {i} /\ Refd(p) = Range(th[p].hold)
    BY <1>4 DEF Refd
  <2>2. \A q \in Users \ {p} : Refd(q)' = Refd(q)
    BY <1>4 DEF Refd
  <2> QED
    BY <2>1, <2>2
<1>10. Pinned' = Pinned /\ Wanted' = Wanted
  BY <1>2 DEF Pinned, FirstPinned, Wanted
<1>11. Counted'
  <2>1. /\ \A j : j # i => Refs(j)' = Refs(j)
        /\ Cardinality(Refs(i)') = Cardinality(Refs(i)) + 1
    BY <1>6, <1>9, RefsStep
  <2> SUFFICES ASSUME NEW j \in Bufs
               PROVE  buf'[j].refcnt = Cardinality(Refs(j)')
                        + (IF buf'[j].block \in Pinned THEN 1 ELSE 0)
    BY <1>10 DEF Counted
  <2>2. CASE j = i
    <3>1. CASE buf[i].block = c
      <4>1. buf'[i].refcnt = buf[i].refcnt + 1
        BY <1>1, <3>1 DEF CacheTypeOK, BufRecs
      <4>2. buf'[i].block = buf[i].block
        BY <1>5, <3>1
      <4> QED
        BY <2>1, <2>2, <4>1, <4>2, RefsFinite DEF Counted
    <3>2. CASE buf[i].block # c
      <4>1. buf'[i].refcnt = 1
        BY <1>1, <3>2 DEF CacheTypeOK, BufRecs
      <4>2. Cardinality(Refs(i)) = 0
        BY <1>1, <3>2, Unreferenced, FS_EmptySet
      <4>3. c \notin Pinned
        BY <1>1, <3>2 DEF Fresh
      <4> QED
        BY <1>5, <2>1, <2>2, <4>1, <4>2, <4>3
    <3> QED
      BY <3>1, <3>2
  <2>3. CASE j # i
    BY <1>5, <2>1, <2>3 DEF Counted
  <2> QED
    BY <2>2, <2>3
<1>12. ListWhole'
  BY <1>2 DEF ListWhole
<1>13. OneBuffer'
  <2>1. \A j \in Bufs : j # i => buf[j].block # c
    BY <1>1, <1>3 DEF OneBuffer
  <2> QED
    BY <1>5, <2>1 DEF OneBuffer
<1>14. Held'
  <2> SUFFICES ASSUME NEW q \in Users PROVE HeldBy(q)'
    BY DEF Held
  <2>1. \A j \in Refd(q)' : j \in Bufs /\ buf'[j].block # NoBlock
    <3>1. \A j \in Refd(q) : j \in Bufs /\ buf'[j].block # NoBlock
      BY <1>7 DEF Held, HeldBy
    <3> QED
      BY <1>3, <1>5, <1>9, <3>1
  <2>2. \A j \in Bufs : buf'[j].lock = q <=> j \in Range(th[q].hold)
    BY <1>5 DEF Held, HeldBy
  <2>3. CASE q = p
    <3>1. i \notin Range(th[p].hold)
      BY <1>6 DEF Refd
    <3> QED
      BY <1>4, <2>1, <2>2, <2>3, <3>1 DEF Held, HeldBy
  <2>4. CASE q # p
    BY <1>4, <2>1, <2>2, <2>4 DEF Held, HeldBy
  <2> QED
    BY <2>3, <2>4
<1>15. Fresh'
  <2>1. \A j \in Bufs : buf'[j].lock # NoUser => buf'[j].valid
    <3> SUFFICES ASSUME NEW j \in Bufs, buf'[j].lock # NoUser
                 PROVE  buf'[j].valid
      OBVIOUS
    <3>1. CASE j # i
      BY <1>5, <3>1 DEF Fresh
    <3>2. CASE j = i
      <4>1. buf[i].lock # NoUser
        BY <1>5, <3>2
      <4>2. buf' = [buf EXCEPT ![i].refcnt = @ + 1]
        BY <1>1, <4>1, Unreferenced
      <4>3. buf'[i].valid = buf[i].valid
        BY <4>2 DEF CacheTypeOK, BufRecs
      <4> QED
        BY <3>2, <4>1, <4>3 DEF Fresh
    <3> QED
      BY <3>1, <3>2
  <2>2. \A j \in Bufs : buf'[j].valid =>
          buf'[j].block # NoBlock /\ buf'[j].data = latest[buf'[j].block]
    BY <1>3, <1>5 DEF Fresh
  <2>3. ASSUME NEW x \in Pinned
        PROVE  \E j \in Bufs : buf'[j].block = x /\ buf'[j].valid
    <3>1. PICK j \in Bufs : buf[j].block = x /\ buf[j].valid
      BY DEF Fresh
    <3>2. CASE j # i
      BY <1>5, <3>1, <3>2
    <3>3. CASE j = i
      <4>1. buf[i].refcnt # 0
        BY <3>1, <3>3, Unreferenced
      <4>2. buf' = [buf EXCEPT ![i].refcnt = @ + 1]
        BY <1>1, <4>1
      <4>3. buf'[i].valid = buf[i].valid /\ buf'[i].block = buf[i].block
        BY <4>2 DEF CacheTypeOK, BufRecs
      <4> QED
        BY <3>1, <3>3, <4>3
    <3> QED
      BY <3>2, <3>3
  <2> QED
    BY <1>2, <1>10, <2>1, <2>2, <2>3 DEF Fresh
<1>16. CallerShape'
  <2> SUFFICES ASSUME NEW q \in Users, commit.by # q PROVE Calling(q)'
    BY <1>2 DEF CallerShape
  <2>0. Calling(q)
    BY DEF CallerShape
  <2>1. \A j \in Refd(q) : buf'[j].block \in Homes
    BY <1>7, <2>0 DEF Calling
  <2>2. CASE q = p
    <3>1. \A j \in Refd(q)' : buf'[j].block \in Homes
      BY <1>5, <1>9, <2>1, <2>2
    <3>2. th[p].hold = <<>>
      BY <2>2
    <3> QED
      BY <1>4, <2>0, <2>2, <3>1, <3>2 DEF Calling
  <2>3. CASE q # p
    BY <1>4, <1>9, <2>0, <2>1, <2>3 DEF Calling
  <2> QED
    BY <2>2, <2>3
<1>17. CommitterShape'
  <2> SUFFICES ASSUME NEW q \in Users, commit.by = q PROVE Committing(q)'
    BY <1>2 DEF CommitterShape
  <2>0. Committing(q)
    BY DEF CommitterShape
  <2>1. \A j \in Refd(q) : buf'[j].block \in Range(Wanted)
    BY <1>7, <2>0 DEF Committing
  <2>2. commit' = commit /\ Wanted' = Wanted
    BY <1>2, <1>10
  <2>3. \A k \in DOMAIN th[q].hold : th[q].hold[k] \in Refd(q)
    BY DEF Refd, Range
  <2>4. ~commit.written =>
           \A k \in DOMAIN th[q].hold : buf'[th[q].hold[k]].block = Wanted[k]
    BY <1>7, <2>0, <2>3 DEF Committing
  <2>5. CASE q = p
    <3>1. /\ ~commit.written /\ Len(th[p].hold) < Len(Wanted)
          /\ c = Wanted[Len(th[p].hold) + 1]
      BY <2>5
    <3>2. c \in Range(Wanted)
      <4>1. PICK n \in Nat : n = Len(th[p].hold)
        BY Fields
      <4>2. PICK w \in Nat : w = Len(Wanted) /\ DOMAIN Wanted = 1 .. w
        BY <2>5, WantedBlocks
      <4>3. n + 1 \in DOMAIN Wanted
        BY <3>1, <4>1, <4>2
      <4> QED
        BY <3>1, <4>1, <4>3 DEF Range
    <3>3. \A j \in Refd(q)' : buf'[j].block \in Range(Wanted)
      BY <1>5, <1>9, <2>1, <2>5, <3>2
    <3> QED
      BY <1>4, <1>5, <2>0, <2>2, <2>4, <2>5, <3>1, <3>3 DEF Committing
  <2>6. CASE q # p
    <3>1. th'[q] = th[q] /\ Refd(q)' = Refd(q)
      BY <1>4, <1>9, <2>6
    <3>2. th[q].pc = "lock" => buf'[th[q].at].block = buf[th[q].at].block
      BY <1>7 DEF Refd
    <3> QED
      BY <2>0, <2>1, <2>2, <2>4, <3>1, <3>2 DEF Committing
  <2> QED
    BY <2>5, <2>6
<1>18. CommitState' /\ Copied' /\ Room'
  <2>1. Reserved' = Reserved
    BY <1>4 DEF Reserved
  <2> QED
    BY <1>2, <1>4, <2>1 DEF CommitState, Copied, IsCopied, Room
<1> QED
  BY <1>1, <1>8, <1>11, <1>12, <1>13, <1>14, <1>15, <1>16, <1>17, <1>18

\* A call changes a block it holds, and log_write() pins it.
LEMMA LogWriteInv ==
  ASSUME CacheSized, CacheInv, NEW p \in Users, NEW v \in Values,
         LogWrite(p, v)
  PROVE  CacheInv'
<1> USE DEF CacheInv
<1>0. PICK i : i = th[p].hold[1]
  OBVIOUS
<1>1. PICK c : c = buf[i].block
  OBVIOUS
<1>2. PICK n : n = IF c \in Range(log) THEN buf[i].refcnt
                   ELSE buf[i].refcnt + 1
  OBVIOUS
<1>3. /\ th[p].op /\ th[p].hold # <<>> /\ th[p].wrote < OpLimit
      /\ commit.by # p /\ th[p].pc = "run"
      /\ log' = IF c \in Range(log) THEN log ELSE Append(log, c)
      /\ latest' = [latest EXCEPT ![c] = v]
      /\ th' = [th EXCEPT ![p].wrote = @ + 1]
      /\ lru' = lru /\ bdev' = bdev /\ commit' = commit /\ panic' = panic
  BY <1>0, <1>1 DEF LogWrite, Caller
<1>4. commit = NoCommit /\ commit.part = "none" /\ commit.by = NoUser
  BY <1>3, Fields DEF CommitState, NoCommit
<1>5. i \in Range(th[p].hold) /\ i \in Bufs /\ i \in Refd(p)
  <2>1. th[p].hold \in Seq(Bufs)
    BY Fields
  <2>2. 1 \in DOMAIN th[p].hold /\ th[p].hold[1] \in Bufs
    BY <1>3, <2>1
  <2> QED
    BY <1>0, <2>2 DEF Range, Refd
<1>6. /\ buf[i].lock = p /\ buf[i].valid /\ c \in Homes /\ c \in Blocks
      /\ buf[i].refcnt \in Int /\ n \in Int
  BY <1>1, <1>2, <1>3, <1>5, Fields
     DEF Held, HeldBy, Fresh, CacheSized, CallerShape, Calling, Blocks
<1>7. buf' = [buf EXCEPT ![i].refcnt = n, ![i].data = v]
  <2>1. CASE c \in Range(log)
    <3>1. buf' = [[buf EXCEPT ![i].refcnt = @ + 0] EXCEPT ![i].data = v]
      BY <1>0, <1>1, <2>1 DEF LogWrite, Pin
    <3>2. buf[i].refcnt + 0 = n
      BY <1>2, <1>6, <2>1
    <3>3. [buf EXCEPT ![i].refcnt = @ + 0] = [buf EXCEPT ![i].refcnt = n]
      BY <3>2
    <3>4. buf' = [[buf EXCEPT ![i].refcnt = n] EXCEPT ![i].data = v]
      BY <3>1, <3>3
    <3> QED
      BY <1>5, <3>4 DEF CacheTypeOK, BufRecs
  <2>2. CASE c \notin Range(log)
    <3>1. buf' = [[buf EXCEPT ![i].refcnt = @ + 1] EXCEPT ![i].data = v]
      BY <1>0, <1>1, <2>2 DEF LogWrite, Pin
    <3> QED
      BY <1>2, <1>5, <1>6, <2>2, <3>1 DEF CacheTypeOK, BufRecs
  <2> QED
    BY <2>1, <2>2
<1>8. /\ \A j \in Bufs : /\ buf'[j].block = buf[j].block
                         /\ buf'[j].valid = buf[j].valid
                         /\ buf'[j].lock = buf[j].lock
                         /\ j # i => buf'[j] = buf[j]
      /\ buf'[i].refcnt = n /\ buf'[i].data = v
  BY <1>5, <1>7 DEF CacheTypeOK, BufRecs
<1>9. \A q \in Users : /\ th'[q].hold = th[q].hold /\ th'[q].pc = th[q].pc
                       /\ th'[q].at = th[q].at /\ th'[q].op = th[q].op
                       /\ q # p => th'[q] = th[q]
                       /\ q = p => th'[q].wrote = th[q].wrote + 1
  BY <1>3 DEF CacheTypeOK, ThRecs
<1>10. PICK m \in Nat : m = Len(log) /\ DOMAIN log = 1 .. m
  BY Fields
<1>11. /\ log' \in Seq(Homes) /\ Range(log') = Range(log) \cup {c}
       /\ \A k, l \in DOMAIN log' : log'[k] = log'[l] => k = l
       /\ Len(log') = IF c \in Range(log) THEN m ELSE m + 1
  <2>1. log \in Seq(Homes)
    BY DEF CacheTypeOK
  <2>2. CASE c \in Range(log)
    BY <1>3, <1>10, <2>1, <2>2 DEF CommitState
  <2>3. CASE c \notin Range(log)
    <3>1. /\ log' \in Seq(Homes) /\ Len(log') = m + 1 /\ log'[m + 1] = c
          /\ \A k \in 1 .. m : log'[k] = log[k]
      BY <1>3, <1>6, <1>10, <2>1, <2>3, AppendProperties
    <3>2. DOMAIN log' = 1 .. m + 1
      BY <3>1
    <3>3. Range(log') = Range(log) \cup {c}
      BY <1>10, <3>1, <3>2 DEF Range
    <3>4. \A k \in 1 .. m : log'[k] # c
      BY <1>10, <2>3, <3>1 DEF Range
    <3>5. \A k, l \in 1 .. m : log'[k] = log'[l] => k = l
      BY <1>10, <3>1 DEF CommitState
    <3>6. \A k, l \in 1 .. m + 1 : log'[k] = log'[l] => k = l
      BY <3>1, <3>4, <3>5
    <3> QED
      BY <2>3, <3>1, <3>2, <3>3, <3>6
  <2> QED
    BY <2>2, <2>3
<1>12. CacheTypeOK'
  <2>1. th' \in [Users -> ThRecs]
    <3>1. PICK w \in 0 .. OpLimit : w = th[p].wrote + 1
      BY <1>3, Fields, Sizes
    <3>2. [th[p] EXCEPT !.wrote = w] \in ThRecs
      BY DEF CacheTypeOK, ThRecs
    <3> QED
      BY <1>3, <3>1, <3>2 DEF CacheTypeOK
  <2>2. buf' \in [Bufs -> BufRecs]
    BY <1>5, <1>6, <1>7, SetData DEF CacheTypeOK
  <2>3. latest' \in [Blocks -> Values]
    BY <1>3 DEF CacheTypeOK
  <2> QED
    BY <1>3, <1>11, <2>1, <2>2, <2>3 DEF CacheTypeOK
<1>13. (\A q \in Users : Refd(q)' = Refd(q)) /\ (\A j : Refs(j)' = Refs(j))
  BY <1>9, SameRefs
<1>14. Pinned = Range(log) /\ Pinned' = Range(log')
  <2>1. FirstPinned = 1 /\ FirstPinned' = 1
    BY <1>3, <1>4 DEF FirstPinned
  <2>2. DOMAIN log' = 1 .. Len(log')
    BY <1>11
  <2> QED
    BY <1>10, <2>1, <2>2 DEF Pinned, Range
<1>15. Counted'
  <2> SUFFICES ASSUME NEW j \in Bufs
               PROVE  buf'[j].refcnt = Cardinality(Refs(j))
                        + (IF buf'[j].block \in Pinned' THEN 1 ELSE 0)
    BY <1>13 DEF Counted
  <2>1. CASE j = i
    <3>1. buf[i].refcnt =
            Cardinality(Refs(i)) + (IF c \in Pinned THEN 1 ELSE 0)
      BY <1>1, <1>5 DEF Counted
    <3>2. c \in Pinned'
      BY <1>11, <1>14
    <3>3. n = Cardinality(Refs(i)) + 1
      BY <1>2, <1>14, <3>1, RefsFinite
    <3> QED
      BY <1>1, <1>8, <2>1, <3>2, <3>3
  <2>2. CASE j # i
    <3>1. buf[j].block # c
      BY <1>1, <1>5, <1>6, <2>2 DEF OneBuffer, CacheSized
    <3>2. buf[j].block \in Pinned' <=> buf[j].block \in Pinned
      BY <1>11, <1>14, <3>1
    <3> QED
      BY <1>8, <2>2, <3>2 DEF Counted
  <2> QED
    BY <2>1, <2>2
<1>16. ListWhole' /\ OneBuffer'
  <2>1. ListWhole'
    BY <1>3 DEF ListWhole
  <2>2. OneBuffer'
    BY <1>8 DEF OneBuffer
  <2> QED
    BY <2>1, <2>2
<1>17. Held'
  <2> SUFFICES ASSUME NEW q \in Users PROVE HeldBy(q)'
    BY DEF Held
  <2>1. \A j \in Refd(q)' : j \in Bufs /\ buf'[j].block # NoBlock
    BY <1>8, <1>13 DEF Held, HeldBy
  <2>2. \A j \in Bufs : buf'[j].lock = q <=> j \in Range(th[q].hold)
    BY <1>8 DEF Held, HeldBy
  <2> QED
    BY <1>9, <2>1, <2>2 DEF Held, HeldBy
<1>18. Fresh'
  <2>1. \A j \in Bufs : buf'[j].lock # NoUser => buf'[j].valid
    BY <1>8 DEF Fresh
  <2>2. ASSUME NEW j \in Bufs, buf'[j].valid
        PROVE  /\ buf'[j].block # NoBlock
               /\ buf'[j].data = latest'[buf'[j].block]
    <3>1. /\ buf[j].valid /\ buf'[j].block = buf[j].block
          /\ buf[j].block # NoBlock
      BY <1>8, <2>2 DEF Fresh
    <3>2. CASE j = i
      BY <1>1, <1>3, <1>6, <1>8, <3>1, <3>2 DEF CacheTypeOK
    <3>3. CASE j # i
      <4>1. buf[j].block # c
        BY <1>1, <1>5, <3>1, <3>3 DEF OneBuffer
      <4>2. latest'[buf[j].block] = latest[buf[j].block]
        BY <1>3, <3>1, <4>1, Fields DEF CacheTypeOK
      <4> QED
        BY <1>8, <3>1, <3>3, <4>2 DEF Fresh
    <3> QED
      BY <3>2, <3>3
  <2>3. \A x \in Pinned' : \E j \in Bufs : buf'[j].block = x /\ buf'[j].valid
    <3>1. \A x \in Pinned : \E j \in Bufs : buf'[j].block = x /\ buf'[j].valid
      BY <1>8 DEF Fresh
    <3>2. buf'[i].block = c /\ buf'[i].valid
      BY <1>1, <1>5, <1>6, <1>8
    <3> QED
      BY <1>5, <1>11, <1>14, <3>1, <3>2
  <2>4. \A x \in Blocks \ Pinned' : bdev'[x] = latest'[x]
    <3>1. \A x \in Blocks \ Pinned' : x \notin Pinned /\ x # c
      BY <1>11, <1>14
    <3> QED
      BY <1>3, <3>1 DEF Fresh, CacheTypeOK
  <2> QED
    BY <2>1, <2>2, <2>3, <2>4 DEF Fresh
<1>19. CallerShape' /\ CommitterShape'
  <2>1. CommitterShape'
    BY <1>3, <1>4 DEF CommitterShape, CacheSized
  <2>2. ASSUME NEW q \in Users PROVE Calling(q)'
    <3>1. \A j \in Refd(q)' : buf'[j].block \in Homes
      BY <1>4, <1>8, <1>13
         DEF CallerShape, Calling, Held, HeldBy, CacheSized
    <3> QED
      BY <1>4, <1>9, <3>1 DEF CallerShape, Calling, CacheSized
  <2> QED
    BY <2>1, <2>2 DEF CallerShape
<1>20. CommitState' /\ Copied'
  <2>1. CommitState'
    BY <1>3, <1>4, <1>11 DEF CommitState
  <2> QED
    BY <1>3, <1>4, <2>1 DEF Copied, IsCopied
<1>21. Room'
  <2>1. PICK x : x = <<p, th[p].wrote + 1>>
    OBVIOUS
  <2>2. th[p].wrote \in Nat /\ th[p].wrote + 1 \in 1 .. MAXOPBLOCKS
    <3>1. PICK w : w = th[p].wrote
      OBVIOUS
    <3>2. w \in 0 .. OpLimit
      BY <3>1, Fields
    <3>3. w \in Nat /\ w < OpLimit
      BY <1>3, <3>1, <3>2, Sizes
    <3>4. OpLimit <= MAXOPBLOCKS /\ OpLimit \in Nat /\ MAXOPBLOCKS \in Nat
      <4>1. OpLimit \in 0 .. MAXOPBLOCKS
        BY DEF CacheSized
      <4> QED
        BY <4>1, Sizes
    <3>5. w + 1 \in 1 .. MAXOPBLOCKS
      BY <3>3, <3>4
    <3> QED
      BY <3>1, <3>3, <3>5
  <2>3. x \in Reserved
    BY <1>3, <2>1, <2>2 DEF Reserved
  <2>4. Reserved' = Reserved \ {x}
    <3>1. ASSUME NEW y \in Users \X (1 .. MAXOPBLOCKS)
          PROVE  th'[y[1]].op /\ y[2] > th'[y[1]].wrote
                   <=> th[y[1]].op /\ y[2] > th[y[1]].wrote /\ y # x
      <4>1. CASE y[1] = p
        <5>1. y # x <=> y[2] # th[p].wrote + 1
          BY <2>1, <4>1
        <5>2. th'[p].op = th[p].op /\ th'[p].wrote = th[p].wrote + 1
          BY <1>9
        <5> QED
          BY <2>2, <4>1, <5>1, <5>2
      <4>2. CASE y[1] # p
        <5>1. y[1] \in Users /\ th'[y[1]] = th[y[1]] /\ y # x
          BY <1>9, <2>1, <4>2
        <5> QED
          BY <5>1
      <4> QED
        BY <4>1, <4>2
    <3> QED
      BY <3>1 DEF Reserved
  <2>5. /\ Cardinality(Reserved') = Cardinality(Reserved) - 1
        /\ IsFiniteSet(Reserved')
    BY <2>3, <2>4, ReservedFinite, FS_RemoveElement
  <2>6. Len(log') + Cardinality(Reserved') <= LOGBLOCKS
    BY <1>10, <1>11, <2>5, ReservedFinite, Sizes DEF Room
  <2>7. MAXOPBLOCKS - OpLimit <= Cardinality(Reserved')
    <3>1. PICK K : K = (OpLimit + 1) .. MAXOPBLOCKS
      OBVIOUS
    <3>2. IsFiniteSet(K) /\ Cardinality(K) = MAXOPBLOCKS - OpLimit
      <4>1. OpLimit <= MAXOPBLOCKS /\ OpLimit \in Nat /\ MAXOPBLOCKS \in Nat
        <5>1. OpLimit \in 0 .. MAXOPBLOCKS
          BY DEF CacheSized
        <5> QED
          BY <5>1, Sizes
      <4> QED
        BY <3>1, <4>1, After
    <3>3. PICK R : R = {z \in K \X Reserved' : z[2] = <<p, z[1]>>}
      OBVIOUS
    <3>4. ASSUME NEW k \in K PROVE \E y \in Reserved' : <<k, y>> \in R
      <4>1. k \in 1 .. MAXOPBLOCKS /\ k > OpLimit
        BY <3>1, Sizes
      <4>2. th'[p].op /\ k > th'[p].wrote
        BY <1>3, <1>9, <4>1, Fields, Sizes
      <4>3. <<p, k>> \in Reserved'
        BY <4>1, <4>2 DEF Reserved
      <4> QED
        BY <3>3, <4>3
    <3>5. \A k, l \in K : \A y \in Reserved' :
            <<k, y>> \in R /\ <<l, y>> \in R => k = l
      BY <3>3
    <3>6. Cardinality(K) <= Cardinality(Reserved')
      BY <2>5, <3>4, <3>5, ChoiceBound
    <3> QED
      BY <3>2, <3>6
  <2>8. Cardinality(Reserved') \in Nat
    BY <2>5, FS_CardinalityType
  <2> QED
    BY <1>10, <1>11, <2>6, <2>7, <2>8, Sizes DEF Room
<1> QED
  BY <1>3, <1>12, <1>15, <1>16, <1>17, <1>18, <1>19, <1>20, <1>21


\* commit() writes block d with the contents v through buffer t: in the log,
\* a copy of the block in the cache; in its place, a copy of the log.
Writes(p, t, v) ==
  /\ t \in Range(th[p].hold)
  /\ buf' = [Pin(t, IF commit.part = "install" THEN -1 ELSE 0)
               EXCEPT ![t].data = v]
  /\ bdev' = [bdev EXCEPT ![buf[t].block] = v]
  /\ latest' = [latest EXCEPT ![buf[t].block] = v]
  /\ commit.part = "log" => /\ buf[t].block = LogArea[commit.tail + 1]
                            /\ v = latest[log[commit.tail]]
  /\ commit.part = "install" => buf[t].block = log[commit.tail]
  /\ commit.part # "install" => buf[t].block \notin Homes
  /\ commit.part # "log" => latest' = latest /\ v = latest[buf[t].block]

LEMMA CommitWrites ==
  ASSUME CacheSized, CacheInv, NEW p \in Users, CommitWrite(p)
  PROVE  \E t \in Bufs, v \in Values : Writes(p, t, v)
<1> USE DEF CacheInv
<1>1. /\ commit.by = p /\ th[p].pc = "run" /\ ~commit.written
      /\ Len(th[p].hold) = Len(Wanted)
  BY DEF CommitWrite, Committer
<1>2. /\ commit.by # NoUser
      /\ commit.part \in {"log", "head", "install", "clear"}
  BY <1>1, Fields DEF CommitState, CacheSized, Parts
<1>3. /\ \A k \in DOMAIN th[p].hold : buf[th[p].hold[k]].block = Wanted[k]
      /\ DOMAIN th[p].hold = 1 .. Len(Wanted)
  BY <1>1, Fields DEF CommitterShape, Committing
<1>4. ASSUME NEW k \in 1 .. Len(Wanted)
      PROVE  /\ th[p].hold[k] \in Range(th[p].hold) /\ th[p].hold[k] \in Bufs
             /\ buf[th[p].hold[k]].block = Wanted[k]
             /\ buf[th[p].hold[k]].data \in Values
             /\ buf[th[p].hold[k]].data = latest[Wanted[k]]
  <2>1. PICK i : i = th[p].hold[k]
    OBVIOUS
  <2>2. i \in Range(th[p].hold) /\ i \in Bufs /\ buf[i].block = Wanted[k]
    BY <1>1, <1>3, <2>1, Fields DEF Range
  <2>3. buf[i].lock = p
    BY <2>2 DEF Held, HeldBy
  <2>4. buf[i].valid
    BY <2>2, <2>3 DEF Fresh, CacheSized
  <2>5. buf[i].data = latest[Wanted[k]] /\ buf[i].data \in Values
    BY <2>2, <2>4, Fields DEF Fresh
  <2> QED
    BY <2>1, <2>2, <2>5
<1>5. /\ Wanted[1] \in Blocks \ Homes /\ Len(Wanted) \in {1, 2}
      /\ Len(Wanted) = 2 => /\ Wanted[2] = log[commit.tail]
                            /\ commit.tail \in DOMAIN log
                            /\ Wanted[1] = LogArea[commit.tail + 1]
      /\ Len(Wanted) = 2 <=> commit.part \in {"log", "install"}
  BY <1>1, WantedBlocks
<1>6. 1 \in 1 .. Len(Wanted)
  BY <1>5
<1>7. CASE commit.part = "log"
  <2>0. Len(Wanted) = 2
    BY <1>5, <1>7
  <2>1. 2 \in 1 .. Len(Wanted)
    BY <2>0
  <2>2. PICK t \in Bufs : t = th[p].hold[1]
    BY <1>4, <1>6
  <2>3. PICK v \in Values : v = buf[th[p].hold[2]].data
    BY <1>4, <2>1
  <2>4. /\ t \in Range(th[p].hold) /\ buf[t].block = LogArea[commit.tail + 1]
        /\ buf[t].block \notin Homes /\ v = latest[log[commit.tail]]
    BY <1>4, <1>5, <1>6, <1>7, <2>1, <2>2, <2>3
  <2>5. /\ buf' = [Pin(t, 0) EXCEPT ![t].data = v]
        /\ bdev' = [bdev EXCEPT ![buf[t].block] = v]
        /\ latest' = [latest EXCEPT ![buf[t].block] = v]
    BY <1>7, <2>2, <2>3 DEF CommitWrite, Bwrite
  <2> QED
    BY <1>7, <2>4, <2>5 DEF Writes
<1>8. CASE commit.part = "install"
  <2>0. Len(Wanted) = 2
    BY <1>5, <1>8
  <2>1. 2 \in 1 .. Len(Wanted)
    BY <2>0
  <2>2. PICK t \in Bufs : t = th[p].hold[2]
    BY <1>4, <2>1
  <2>3. PICK v \in Values : v = buf[th[p].hold[1]].data
    BY <1>4, <1>6
  <2>4. /\ t \in Range(th[p].hold) /\ buf[t].block = log[commit.tail]
        /\ v = latest[LogArea[commit.tail + 1]]
    BY <1>4, <1>5, <1>6, <1>8, <2>1, <2>2, <2>3
  <2>5. v = latest[buf[t].block]
    BY <1>5, <1>8, <2>4 DEF Copied, IsCopied
  <2>6. /\ buf' = [Pin(t, -1) EXCEPT ![t].data = v]
        /\ bdev' = [bdev EXCEPT ![buf[t].block] = v] /\ latest' = latest
    BY <1>8, <2>2, <2>3 DEF CommitWrite, Bwrite
  <2>7. latest = [latest EXCEPT ![buf[t].block] = v]
    BY <2>5 DEF CacheTypeOK
  <2> QED
    BY <1>8, <2>4, <2>5, <2>6, <2>7 DEF Writes
<1>9. CASE commit.part \in {"head", "clear"}
  <2>2. PICK t \in Bufs : t = th[p].hold[1]
    BY <1>4, <1>6
  <2>3. PICK v \in Values : v = buf[t].data
    BY <1>4, <1>6, <2>2
  <2>4. /\ t \in Range(th[p].hold) /\ buf[t].block \notin Homes
        /\ v = latest[buf[t].block]
    BY <1>4, <1>5, <1>6, <2>2, <2>3
  <2>6. /\ buf' = [Pin(t, 0) EXCEPT ![t].data = v]
        /\ bdev' = [bdev EXCEPT ![buf[t].block] = v] /\ latest' = latest
    BY <1>9, <2>2, <2>3 DEF CommitWrite, Bwrite
  <2>7. latest = [latest EXCEPT ![buf[t].block] = v]
    BY <2>4 DEF CacheTypeOK
  <2> QED
    BY <1>9, <2>4, <2>6, <2>7 DEF Writes
<1> QED
  BY <1>2, <1>7, <1>8, <1>9

\* The blocks that stay pinned when commit() has written one.
LEMMA PinnedAfter ==
  ASSUME CacheSized, CacheInv, commit.by \in Users, ~commit.written,
         commit' = [commit EXCEPT !.written = TRUE], log' = log
  PROVE  Pinned' = IF commit.part = "install" THEN Pinned \ {log[commit.tail]}
                   ELSE Pinned
<1> USE DEF CacheInv
<1>1. /\ commit'.part = commit.part /\ commit'.tail = commit.tail
      /\ commit'.written
  BY DEF CacheTypeOK
<1>2. CASE commit.part = "install"
  <2>1. PICK m \in Nat : m = Len(log) /\ DOMAIN log = 1 .. m
    BY Fields
  <2>2. PICK k \in 1 .. m : k = commit.tail
    BY <1>2, <2>1, Fields DEF CommitState
  <2>3. Pinned = {log[l] : l \in k .. m}
    BY <1>2, <2>1, <2>2 DEF Pinned, FirstPinned
  <2>4. Pinned' = {log[l] : l \in (k + 1) .. m}
    BY <1>1, <1>2, <2>1, <2>2 DEF Pinned, FirstPinned
  <2>5. \A l \in (k + 1) .. m : log[l] # log[k]
    BY <2>1 DEF CommitState
  <2>6. \A l \in k .. m : l = k \/ l \in (k + 1) .. m
    OBVIOUS
  <2>7. \A l \in (k + 1) .. m : l \in k .. m
    OBVIOUS
  <2> QED
    BY <1>2, <2>2, <2>3, <2>4, <2>5, <2>6, <2>7
<1>3. CASE commit.part # "install"
  BY <1>1, <1>3 DEF Pinned, FirstPinned
<1> QED
  BY <1>2, <1>3


\* commit() has written a block.
LEMMA CommitWriteInv ==
  ASSUME CacheSized, CacheInv, NEW p \in Users, CommitWrite(p)
  PROVE  CacheInv'
<1> USE DEF CacheInv
<1>0. PICK t \in Bufs, v \in Values : Writes(p, t, v)
  BY CommitWrites
<1>1. PICK d : d = buf[t].block
  OBVIOUS
<1>2. PICK n : n = IF commit.part = "install" THEN buf[t].refcnt - 1
                   ELSE buf[t].refcnt
  OBVIOUS
<1>3. /\ commit.by = p /\ th[p].pc = "run" /\ ~commit.written
      /\ commit' = [commit EXCEPT !.written = TRUE]
      /\ lru' = lru /\ th' = th /\ log' = log /\ panic' = panic
  BY DEF CommitWrite, Committer
<1>4. /\ t \in Range(th[p].hold)
      /\ bdev' = [bdev EXCEPT ![d] = v] /\ latest' = [latest EXCEPT ![d] = v]
      /\ commit.part = "log" => /\ d = LogArea[commit.tail + 1]
                                /\ v = latest[log[commit.tail]]
      /\ commit.part = "install" => d = log[commit.tail]
      /\ commit.part # "install" => d \notin Homes
      /\ commit.part # "log" => latest' = latest /\ v = latest[d]
  BY <1>0, <1>1 DEF Writes
<1>5. buf[t].refcnt \in Int /\ n \in Int
  BY <1>2, Fields
<1>6. buf' = [buf EXCEPT ![t].refcnt = n, ![t].data = v]
  <2>1. PICK x \in Int : x = IF commit.part = "install" THEN -1 ELSE 0
    OBVIOUS
  <2>2. buf' = [[buf EXCEPT ![t].refcnt = @ + x] EXCEPT ![t].data = v]
    BY <1>0, <2>1 DEF Writes, Pin
  <2>3. buf[t].refcnt + x = n
    BY <1>2, <1>5, <2>1
  <2>4. [buf EXCEPT ![t].refcnt = @ + x] = [buf EXCEPT ![t].refcnt = n]
    BY <2>3
  <2>5. buf' = [[buf EXCEPT ![t].refcnt = n] EXCEPT ![t].data = v]
    BY <2>2, <2>4
  <2> QED
    BY <2>5 DEF CacheTypeOK, BufRecs
<1>7. /\ \A j \in Bufs : /\ buf'[j].block = buf[j].block
                         /\ buf'[j].valid = buf[j].valid
                         /\ buf'[j].lock = buf[j].lock
                         /\ j # t => buf'[j] = buf[j]
      /\ buf'[t].refcnt = n /\ buf'[t].data = v
  BY <1>6 DEF CacheTypeOK, BufRecs
<1>8. /\ t \in Refd(p) /\ d # NoBlock /\ d \in Blocks
      /\ \A j \in Bufs : j # t => buf[j].block # d
  <2>1. t \in Refd(p)
    BY <1>4 DEF Refd
  <2>2. d # NoBlock
    BY <1>1, <2>1 DEF Held, HeldBy
  <2> QED
    BY <1>1, <2>1, <2>2, Fields DEF OneBuffer
<1>9. /\ commit'.part = commit.part /\ commit'.tail = commit.tail
      /\ commit'.written /\ commit'.by = commit.by
  BY <1>3 DEF CacheTypeOK
<1>10. Pinned' = IF commit.part = "install" THEN Pinned \ {d} ELSE Pinned
  BY <1>3, <1>4, PinnedAfter
<1>11. Pinned \subseteq Homes
  <2>1. \A k \in FirstPinned .. Len(log) : k \in 1 .. Len(log)
    BY Fields DEF FirstPinned
  <2> QED
    BY <2>1, Fields DEF Pinned
<1>12. commit.part = "install" => d \in Pinned
  <2> HAVE commit.part = "install"
  <2>1. commit.tail \in FirstPinned .. Len(log)
    BY <1>3, Fields DEF FirstPinned, CommitState
  <2> QED
    BY <1>4, <2>1 DEF Pinned
<1>13. CacheTypeOK'
  <2>1. buf' \in [Bufs -> BufRecs]
    BY <1>5, <1>6, SetData DEF CacheTypeOK
  <2>2. latest' \in [Blocks -> Values] /\ bdev' \in [Blocks -> Values]
    BY <1>4 DEF CacheTypeOK
  <2> QED
    BY <1>3, <2>1, <2>2 DEF CacheTypeOK, CommitRecs
<1>14. (\A q \in Users : Refd(q)' = Refd(q)) /\ (\A j : Refs(j)' = Refs(j))
  BY <1>3, SameRefs
<1>15. Counted'
  <2> SUFFICES ASSUME NEW j \in Bufs
               PROVE  buf'[j].refcnt = Cardinality(Refs(j))
                        + (IF buf'[j].block \in Pinned' THEN 1 ELSE 0)
    BY <1>14 DEF Counted
  <2>1. CASE j = t
    <3>1. buf[t].refcnt =
            Cardinality(Refs(t)) + (IF d \in Pinned THEN 1 ELSE 0)
      BY <1>1 DEF Counted
    <3>2. d \notin Pinned'
      BY <1>4, <1>10, <1>11
    <3>3. n = Cardinality(Refs(t))
      BY <1>2, <1>4, <1>11, <1>12, <3>1, RefsFinite
    <3> QED
      BY <1>1, <1>7, <2>1, <3>2, <3>3, RefsFinite
  <2>2. CASE j # t
    <3>1. buf[j].block \in Pinned' <=> buf[j].block \in Pinned
      BY <1>8, <1>10, <2>2
    <3> QED
      BY <1>7, <2>2, <3>1 DEF Counted
  <2> QED
    BY <2>1, <2>2
<1>16. ListWhole' /\ OneBuffer'
  <2>1. ListWhole'
    BY <1>3 DEF ListWhole
  <2>2. OneBuffer'
    BY <1>7 DEF OneBuffer
  <2> QED
    BY <2>1, <2>2
<1>17. Held'
  <2> SUFFICES ASSUME NEW q \in Users PROVE HeldBy(q)'
    BY DEF Held
  <2>1. \A j \in Refd(q)' : j \in Bufs /\ buf'[j].block # NoBlock
    BY <1>7, <1>14 DEF Held, HeldBy
  <2>2. \A j \in Bufs : buf'[j].lock = q <=> j \in Range(th[q].hold)
    BY <1>7 DEF Held, HeldBy
  <2> QED
    BY <1>3, <2>1, <2>2 DEF Held, HeldBy
<1>18. Fresh'
  <2>1. \A j \in Bufs : buf'[j].lock # NoUser => buf'[j].valid
    BY <1>7 DEF Fresh
  <2>2. ASSUME NEW j \in Bufs, buf'[j].valid
        PROVE  /\ buf'[j].block # NoBlock
               /\ buf'[j].data = latest'[buf'[j].block]
    <3>1. /\ buf[j].valid /\ buf'[j].block = buf[j].block
          /\ buf[j].block # NoBlock
      BY <1>7, <2>2 DEF Fresh
    <3>2. CASE j = t
      BY <1>1, <1>4, <1>7, <1>8, <3>1, <3>2 DEF CacheTypeOK
    <3>3. CASE j # t
      <4>1. latest'[buf[j].block] = latest[buf[j].block]
        BY <1>4, <1>8, <3>1, <3>3, Fields DEF CacheTypeOK
      <4> QED
        BY <1>7, <3>1, <3>3, <4>1 DEF Fresh
    <3> QED
      BY <3>2, <3>3
  <2>3. \A x \in Pinned' : \E j \in Bufs : buf'[j].block = x /\ buf'[j].valid
    BY <1>7, <1>10 DEF Fresh
  <2>4. ASSUME NEW x \in Blocks \ Pinned' PROVE bdev'[x] = latest'[x]
    <3>1. CASE x = d
      BY <1>4, <1>8, <3>1 DEF CacheTypeOK
    <3>2. CASE x # d
      <4>1. x \in Blocks \ Pinned
        BY <1>10, <3>2
      <4> QED
        BY <1>4, <3>2, <4>1 DEF Fresh, CacheTypeOK
    <3> QED
      BY <3>1, <3>2
  <2> QED
    BY <2>1, <2>2, <2>3, <2>4 DEF Fresh
<1>19. Wanted' = Wanted
  BY <1>3, <1>9 DEF Wanted
<1>20. CallerShape' /\ CommitterShape'
  <2>1. ASSUME NEW q \in Users, commit'.by = q PROVE Committing(q)'
    <3>1. \A j \in Refd(q)' : buf'[j].block \in Range(Wanted)
      BY <1>7, <1>9, <1>14, <2>1
         DEF CommitterShape, Committing, Held, HeldBy
    <3>2. Len(th[q].hold) <= Len(Wanted)
      BY <1>9, <2>1 DEF CommitterShape, Committing
    <3>3. th'[q].pc = "run" /\ th' = th
      BY <1>3, <1>9, <2>1
    <3> QED
      BY <1>9, <1>19, <3>1, <3>2, <3>3 DEF Committing
  <2>2. ASSUME NEW q \in Users, commit'.by # q PROVE Calling(q)'
    <3>1. \A j \in Refd(q)' : buf'[j].block \in Homes
      BY <1>7, <1>9, <1>14, <2>2 DEF CallerShape, Calling, Held, HeldBy
    <3> QED
      BY <1>3, <1>9, <2>2, <3>1 DEF CallerShape, Calling
  <2> QED
    BY <2>1, <2>2 DEF CallerShape, CommitterShape
<1>21. CommitState' /\ Room'
  <2>1. CommitState'
    BY <1>3, <1>9 DEF CommitState, CacheSized
  <2>2. Room'
    BY <1>3 DEF Room, Reserved
  <2> QED
    BY <2>1, <2>2
<1>22. Copied'
  <2> SUFFICES ASSUME NEW k \in DOMAIN log, IsCopied(k)'
               PROVE  latest'[LogArea[k + 1]] = latest'[log[k]]
    BY <1>3 DEF Copied
  <2>1. CASE commit.part = "log"
    <3>1. k \in 1 .. Len(log) /\ Len(log) <= LOGBLOCKS
      BY Fields, Sizes DEF Room, CacheSized
    <3>2. commit.tail \in 1 .. Len(log)
      BY <2>1, Fields DEF CommitState
    <3>3. /\ log[k] \in Homes /\ log[k] \in Blocks /\ k + 1 \in DOMAIN LogArea
          /\ commit.tail + 1 \in DOMAIN LogArea /\ LogArea[k + 1] \in Blocks
      BY <3>1, <3>2, Fields, Sizes DEF Blocks
    <3>4. log[k] # d
      BY <1>4, <2>1, <3>3
    <3>5. latest'[log[k]] = latest[log[k]]
      BY <1>4, <3>3, <3>4 DEF CacheTypeOK
    <3>6. CASE k = commit.tail
      <4>1. latest'[d] = v
        BY <1>4, <1>8 DEF CacheTypeOK
      <4> QED
        BY <1>4, <2>1, <3>5, <3>6, <4>1
    <3>7. CASE k # commit.tail
      <4>1. IsCopied(k)
        BY <1>9, <2>1, <3>7 DEF IsCopied
      <4>2. LogArea[k + 1] # d
        <5>1. LogArea[k + 1] # LogArea[commit.tail + 1]
          <6>1. k + 1 # commit.tail + 1
            BY <3>1, <3>2, <3>7
          <6> QED
            BY <3>3, <6>1 DEF CacheSized
        <5> QED
          BY <1>4, <2>1, <5>1
      <4>3. latest'[LogArea[k + 1]] = latest[LogArea[k + 1]]
        BY <1>4, <3>3, <4>2 DEF CacheTypeOK
      <4> QED
        BY <3>5, <4>1, <4>3 DEF Copied
    <3> QED
      BY <3>6, <3>7
  <2>2. CASE commit.part # "log"
    BY <1>4, <1>9, <2>2 DEF Copied, IsCopied
  <2> QED
    BY <2>1, <2>2
<1> QED
  BY <1>3, <1>13, <1>15, <1>16, <1>17, <1>18, <1>20, <1>21, <1>22


\* What commit() does next keeps the blocks pinned that it has not installed.
Moves(p) ==
  /\ commit.written /\ Pinned' = Pinned
  /\ commit' \in CommitRecs
  /\ commit'.by \in {p, NoUser} /\ commit'.written = FALSE
  /\ commit'.by = NoUser => commit' = NoCommit
  /\ commit'.by # NoUser => commit'.part # "none"
  /\ commit'.part \in {"log", "install"} => commit'.tail <= Len(log')
  /\ commit'.part = "head" => Len(log') > 0
  /\ commit'.part = "clear" => log' = <<>>
  /\ log' = log \/ log' = <<>>
  /\ \A k \in DOMAIN log' : IsCopied(k)' => IsCopied(k)

LEMMA CommitMoves ==
  ASSUME CacheSized, CacheInv, NEW p \in Users, CommitNext(p)
  PROVE  Moves(p)
<1> USE DEF CacheInv
<1>1. commit.by = p /\ commit.written /\ commit.by # NoUser
  BY DEF CommitNext, Committer, CacheSized
<1>2. commit.part \in {"log", "head", "install", "clear"}
  BY <1>1, Fields DEF CommitState, Parts
<1>3. PICK m \in Nat : m = Len(log) /\ DOMAIN log = 1 .. m
  BY Fields
<1>4. PICK k \in Nat \ {0} : k = commit.tail
  BY Fields
<1>5. PICK a : a = [log |-> "head", head |-> "install", install |-> "clear"]
  OBVIOUS
<1>6. commit \in CommitRecs
  BY DEF CacheTypeOK
<1>7. CASE commit.part \in {"log", "install"} /\ k < m
  <2>1. /\ commit' = [commit EXCEPT !.tail = @ + 1, !.written = FALSE]
        /\ log' = log
    BY <1>3, <1>4, <1>7 DEF CommitNext
  <2>2. /\ commit'.by = p /\ commit'.part = commit.part
        /\ commit'.tail = k + 1 /\ commit'.written = FALSE
        /\ commit' \in CommitRecs
    <3>1. commit' = [commit EXCEPT !.tail = k + 1, !.written = FALSE]
      BY <1>4, <2>1
    <3>2. k + 1 \in Nat \ {0}
      OBVIOUS
    <3>3. commit' \in CommitRecs
      BY <1>6, <3>1, <3>2 DEF CommitRecs
    <3> QED
      BY <1>1, <1>6, <3>1, <3>3 DEF CommitRecs
  <2>3. Pinned' = Pinned
    <3>1. FirstPinned' = FirstPinned
      BY <1>1, <1>4, <2>2 DEF FirstPinned
    <3> QED
      BY <2>1, <3>1 DEF Pinned
  <2>4. ASSUME NEW l \in DOMAIN log, IsCopied(l)' PROVE IsCopied(l)
    <3>1. l \in Nat
      BY <1>3
    <3>2. CASE commit.part = "log"
      BY <1>1, <1>4, <2>2, <2>4, <3>1, <3>2 DEF IsCopied
    <3>3. CASE commit.part # "log"
      BY <2>2, <2>4, <3>3 DEF IsCopied
    <3> QED
      BY <3>2, <3>3
  <2>5. commit'.tail <= Len(log')
    BY <1>3, <1>7, <2>1, <2>2
  <2> QED
    BY <1>1, <1>7, <2>1, <2>2, <2>3, <2>4, <2>5 DEF Moves
<1>8. CASE commit.part = "log" /\ ~(k < m)
  <2>0. /\ log' = log
        /\ commit' = [commit EXCEPT !.part = a["log"], !.tail = 1,
                                    !.written = FALSE]
    BY <1>3, <1>4, <1>5, <1>8 DEF CommitNext
  <2>1. commit' = [commit EXCEPT !.part = "head", !.tail = 1,
                                 !.written = FALSE]
    BY <1>5, <2>0
  <2>2. /\ commit'.by = p /\ commit'.part = "head" /\ commit'.written = FALSE
        /\ commit' \in CommitRecs
    <3>0. "head" \in Parts /\ 1 \in Nat \ {0} /\ FALSE \in BOOLEAN
      BY DEF Parts
    <3>1. commit' \in CommitRecs
      BY <1>6, <2>1, <3>0 DEF CommitRecs
    <3> QED
      BY <1>1, <1>6, <2>1, <3>1 DEF CommitRecs
  <2>3. Pinned' = Pinned
    <3>1. FirstPinned' = 1 /\ FirstPinned = 1
      BY <1>8, <2>2 DEF FirstPinned
    <3> QED
      BY <2>0, <3>1 DEF Pinned
  <2>4. k = m /\ Len(log') > 0
    BY <1>3, <1>4, <1>8, <2>0 DEF CommitState
  <2>5. ASSUME NEW l \in DOMAIN log PROVE IsCopied(l)
    <3>1. l \in 1 .. m
      BY <1>3
    <3>2. l < k \/ l = k
      BY <2>4, <3>1
    <3> QED
      BY <1>1, <1>4, <1>8, <3>2 DEF IsCopied
  <2> QED
    BY <1>1, <2>0, <2>2, <2>3, <2>4, <2>5 DEF Moves
<1>9. CASE commit.part = "head"
  <2>0. /\ log' = log
        /\ commit' = [commit EXCEPT !.part = a["head"], !.tail = 1,
                                    !.written = FALSE]
    BY <1>5, <1>9 DEF CommitNext
  <2>1. commit' = [commit EXCEPT !.part = "install", !.tail = 1,
                                 !.written = FALSE]
    BY <1>5, <2>0
  <2>2. /\ commit'.by = p /\ commit'.part = "install" /\ commit'.tail = 1
        /\ commit'.written = FALSE
        /\ commit' \in CommitRecs
    <3>0. "install" \in Parts /\ 1 \in Nat \ {0} /\ FALSE \in BOOLEAN
      BY DEF Parts
    <3>1. commit' \in CommitRecs
      BY <1>6, <2>1, <3>0 DEF CommitRecs
    <3> QED
      BY <1>1, <1>6, <2>1, <3>1 DEF CommitRecs
  <2>3. Pinned' = Pinned
    <3>1. FirstPinned' = 1 /\ FirstPinned = 1
      BY <1>9, <2>2 DEF FirstPinned
    <3> QED
      BY <2>0, <3>1 DEF Pinned
  <2>4. commit'.tail <= Len(log')
    BY <1>3, <1>9, <2>0, <2>2 DEF CommitState
  <2>5. \A l \in DOMAIN log : IsCopied(l)
    BY <1>9 DEF IsCopied
  <2> QED
    BY <1>1, <2>0, <2>2, <2>3, <2>4, <2>5 DEF Moves
<1>10. CASE commit.part = "install" /\ ~(k < m)
  <2>0. /\ log' = <<>>
        /\ commit' = [commit EXCEPT !.part = a["install"], !.tail = 1,
                                    !.written = FALSE]
    BY <1>3, <1>4, <1>5, <1>10 DEF CommitNext
  <2>1. commit' = [commit EXCEPT !.part = "clear", !.tail = 1,
                                 !.written = FALSE]
    BY <1>5, <2>0
  <2>2. /\ commit'.by = p /\ commit'.part = "clear" /\ commit'.tail = 1
        /\ commit'.written = FALSE
        /\ commit' \in CommitRecs
    <3>0. "clear" \in Parts /\ 1 \in Nat \ {0} /\ FALSE \in BOOLEAN
      BY DEF Parts
    <3>1. commit' \in CommitRecs
      BY <1>6, <2>1, <3>0 DEF CommitRecs
    <3> QED
      BY <1>1, <1>6, <2>1, <3>1 DEF CommitRecs
  <2>3. Pinned' = {} /\ Pinned = {}
    <3>1. FirstPinned = k + 1 /\ FirstPinned' = 1 /\ Len(log') = 0
      BY <1>1, <1>4, <1>10, <2>0, <2>2 DEF FirstPinned
    <3>2. FirstPinned .. m = {}
      BY <1>10, <3>1
    <3>3. FirstPinned' .. Len(log') = {}
      BY <3>1
    <3> QED
      BY <1>3, <3>2, <3>3 DEF Pinned
  <2>4. DOMAIN log' = {}
    BY <2>0
  <2> QED
    BY <1>1, <2>0, <2>2, <2>3, <2>4 DEF Moves
<1>11. CASE commit.part = "clear"
  <2>1. commit' = NoCommit /\ log' = log /\ log = <<>>
    BY <1>11 DEF CommitNext, CommitState
  <2>2. Pinned' = Pinned
    <3>1. FirstPinned = 1 /\ FirstPinned' = 1
      BY <1>11, <2>1 DEF FirstPinned, NoCommit
    <3> QED
      BY <2>1, <3>1 DEF Pinned
  <2>3. DOMAIN log' = {}
    BY <2>1
  <2>4. /\ commit'.by = NoUser /\ commit'.part = "none"
        /\ commit'.written = FALSE
        /\ commit' \in CommitRecs
    BY <2>1 DEF NoCommit, Parts, CommitRecs
  <2> QED
    BY <1>1, <2>1, <2>2, <2>3, <2>4 DEF Moves
<1> QED
  BY <1>2, <1>7, <1>8, <1>9, <1>10, <1>11

\* commit() goes on with the next block or the next part.
LEMMA CommitNextInv ==
  ASSUME CacheSized, CacheInv, NEW p \in Users, CommitNext(p)
  PROVE  CacheInv'
<1> USE DEF CacheInv
<1>1. /\ commit.by = p /\ th[p].pc = "run" /\ th[p].hold = <<>>
      /\ buf' = buf /\ lru' = lru /\ bdev' = bdev /\ th' = th
      /\ panic' = panic /\ latest' = latest
  BY DEF CommitNext, Committer
<1>2. Moves(p)
  BY CommitMoves
<1>3. /\ (\A q \in Users : Refd(q)' = Refd(q)) /\ \A i : Refs(i)' = Refs(i)
      /\ Pinned' = Pinned
  BY <1>1, <1>2, SameRefs DEF Moves
<1>4. log' \in Seq(Homes)
  <2>1. log \in Seq(Homes) /\ <<>> \in Seq(Homes)
    BY EmptySeq DEF CacheTypeOK
  <2> QED
    BY <1>2, <2>1 DEF Moves
<1>5. CacheTypeOK'
  BY <1>1, <1>2, <1>4 DEF CacheTypeOK, Moves
<1>6. ListWhole' /\ OneBuffer' /\ Counted'
  <2>1. ListWhole'
    BY <1>1 DEF ListWhole
  <2>2. OneBuffer'
    BY <1>1 DEF OneBuffer
  <2>3. Counted'
    BY <1>1, <1>3 DEF Counted
  <2> QED
    BY <2>1, <2>2, <2>3
<1>7. Held' /\ Fresh'
  <2>1. Held'
    BY <1>1, <1>3 DEF Held, HeldBy
  <2>2. Fresh'
    BY <1>1, <1>3 DEF Fresh
  <2> QED
    BY <2>1, <2>2
<1>8. Refd(p) = {} /\ Len(th[p].hold) = 0 /\ DOMAIN th[p].hold = {}
  BY <1>1 DEF Refd, Range
<1>9. CallerShape'
  <2> SUFFICES ASSUME NEW q \in Users, commit'.by # q PROVE Calling(q)'
    BY DEF CallerShape
  <2>1. CASE q = p
    BY <1>1, <1>3, <1>8, <2>1 DEF Calling
  <2>2. CASE q # p
    BY <1>1, <1>3, <2>2 DEF Calling, CallerShape
  <2> QED
    BY <2>1, <2>2
<1>10. CommitState'
  <2>1. \A k, l \in DOMAIN log' : log'[k] = log'[l] => k = l
    BY <1>2 DEF CommitState, Moves
  <2>2. \A q \in Users : ~th'[q].op
    BY <1>1 DEF CommitState, CacheSized
  <2> QED
    BY <1>2, <2>1, <2>2 DEF CommitState, Moves
<1>11. Room'
  <2>1. Reserved' = Reserved
    BY <1>1 DEF Reserved
  <2>2. PICK m \in Nat : m = Len(log)
    BY Fields
  <2>3. Len(log') = m \/ Len(log') = 0
    BY <1>2, <2>2 DEF Moves
  <2>4. PICK x \in Nat : x = Cardinality(Reserved)
    BY ReservedFinite
  <2>5. /\ m + x <= LOGBLOCKS /\ m <= LOGBLOCKS - (MAXOPBLOCKS - OpLimit)
    BY <2>2, <2>4 DEF Room
  <2>6. LOGBLOCKS \in Nat /\ MAXOPBLOCKS \in Nat /\ OpLimit \in Nat
    BY Sizes
  <2>7. /\ 0 + x <= LOGBLOCKS /\ 0 <= LOGBLOCKS - (MAXOPBLOCKS - OpLimit)
    BY <2>5, <2>6
  <2> QED
    BY <2>1, <2>2, <2>3, <2>4, <2>5, <2>7 DEF Room
<1>12. CommitterShape'
  <2> SUFFICES ASSUME NEW q \in Users, commit'.by = q PROVE Committing(q)'
    BY DEF CommitterShape
  <2>1. q = p
    BY <1>2 DEF Moves, CacheSized
  <2>2. Len(Wanted') \in {1, 2}
    BY DEF Wanted
  <2> QED
    BY <1>1, <1>2, <1>3, <1>8, <2>1, <2>2 DEF Committing, Moves
<1>13. Copied'
  BY <1>1, <1>2 DEF Copied, Moves
<1> QED
  BY <1>1, <1>5, <1>6, <1>7, <1>9, <1>10, <1>11, <1>12, <1>13
-----------------------------------------------------------------------------
\* What is left of a list of buffers without its first or its last.
LEMMA WithoutFirst ==
  ASSUME NEW h \in Seq(Bufs), h # <<>>,
         \A k, l \in DOMAIN h : h[k] = h[l] => k = l
  PROVE  /\ Tail(h) \in Seq(Bufs) /\ Len(Tail(h)) = Len(h) - 1
         /\ Range(Tail(h)) = Range(h) \ {h[1]} /\ h[1] \in Range(h)
         /\ \A k, l \in DOMAIN Tail(h) : Tail(h)[k] = Tail(h)[l] => k = l
<1>1. PICK n \in Nat : n = Len(h) /\ DOMAIN h = 1 .. n
  OBVIOUS
<1>2. n > 0
  BY <1>1, EmptySeq
<1>3. PICK t : t = Tail(h)
  OBVIOUS
<1>4. /\ t \in Seq(Bufs) /\ Len(t) = n - 1
      /\ \A k \in 1 .. n - 1 : t[k] = h[k + 1]
  BY <1>1, <1>3, HeadTailProperties
<1>5. DOMAIN t = 1 .. n - 1
  BY <1>4
<1>6. \A k \in 1 .. n - 1 : k + 1 \in 1 .. n /\ k + 1 # 1
  BY <1>2
<1>7. \A k \in 1 .. n : k # 1 => k - 1 \in 1 .. n - 1 /\ (k - 1) + 1 = k
  BY <1>2
<1>8. ASSUME NEW k \in 1 .. n - 1, NEW l \in 1 .. n - 1, t[k] = t[l]
      PROVE  k = l
  <2>1. k + 1 = l + 1
    BY <1>1, <1>4, <1>6, <1>8
  <2> QED
    BY <2>1
<1>9. Range(t) \subseteq Range(h) \ {h[1]}
  <2> SUFFICES ASSUME NEW k \in 1 .. n - 1 PROVE t[k] \in Range(h) \ {h[1]}
    BY <1>5 DEF Range
  <2>1. t[k] = h[k + 1] /\ k + 1 \in 1 .. n /\ k + 1 # 1 /\ 1 \in 1 .. n
    BY <1>2, <1>4, <1>6
  <2> QED
    BY <1>1, <2>1 DEF Range
<1>10. Range(h) \ {h[1]} \subseteq Range(t)
  <2> SUFFICES ASSUME NEW k \in 1 .. n, k # 1 PROVE h[k] \in Range(t)
    BY <1>1 DEF Range
  <2>1. k - 1 \in 1 .. n - 1 /\ t[k - 1] = h[k]
    BY <1>4, <1>7
  <2> QED
    BY <1>5, <2>1 DEF Range
<1>11. h[1] \in Range(h)
  BY <1>1, <1>2 DEF Range
<1> QED
  BY <1>1, <1>3, <1>4, <1>5, <1>8, <1>9, <1>10, <1>11

LEMMA WithoutLast ==
  ASSUME NEW h \in Seq(Bufs), h # <<>>,
         \A k, l \in DOMAIN h : h[k] = h[l] => k = l
  PROVE  /\ Front(h) \in Seq(Bufs) /\ Len(Front(h)) = Len(h) - 1
         /\ Range(Front(h)) = Range(h) \ {h[Len(h)]}
         /\ h[Len(h)] \in Range(h)
         /\ \A k, l \in DOMAIN Front(h) : Front(h)[k] = Front(h)[l] => k = l
<1>1. PICK n \in Nat : n = Len(h) /\ DOMAIN h = 1 .. n
  OBVIOUS
<1>2. n > 0
  BY <1>1, EmptySeq
<1>3. PICK t : t = Front(h)
  OBVIOUS
<1>4. /\ t \in Seq(Bufs) /\ Len(t) = n - 1
      /\ \A k \in 1 .. n - 1 : t[k] = h[k]
  <2>1. t = SubSeq(h, 1, n - 1)
    BY <1>1, <1>3 DEF Front
  <2>2. \A k \in 1 .. n - 1 : h[k] \in Bufs
    BY <1>1
  <2>3. t = [k \in 1 .. n - 1 |-> h[k]]
    BY <1>1, <1>2, <2>1
  <2> QED
    BY <1>2, <2>2, <2>3
<1>5. DOMAIN t = 1 .. n - 1
  BY <1>4
<1>6. \A k \in 1 .. n - 1 : k \in 1 .. n /\ k # n
  BY <1>2
<1>7. \A k \in 1 .. n : k # n => k \in 1 .. n - 1
  BY <1>2
<1>8. \A k, l \in 1 .. n - 1 : t[k] = t[l] => k = l
  BY <1>1, <1>4, <1>6
<1>9. Range(t) = Range(h) \ {h[n]} /\ h[n] \in Range(h)
  <2>1. n \in 1 .. n
    BY <1>2
  <2>2. ASSUME NEW k \in 1 .. n - 1 PROVE t[k] \in Range(h) \ {h[n]}
    BY <1>1, <1>4, <1>6, <2>1 DEF Range
  <2>3. ASSUME NEW k \in 1 .. n, h[k] # h[n] PROVE h[k] \in Range(t)
    <3>1. k \in 1 .. n - 1
      BY <1>7, <2>3
    <3> QED
      BY <1>4, <1>5, <3>1 DEF Range
  <2>4. Range(t) \subseteq Range(h) \ {h[n]}
    BY <1>5, <2>2 DEF Range
  <2>5. Range(h) \ {h[n]} \subseteq Range(t)
    BY <1>1, <2>3 DEF Range
  <2>6. h[n] \in Range(h)
    BY <1>1, <2>1 DEF Range
  <2> QED
    BY <2>4, <2>5, <2>6
<1> QED
  BY <1>1, <1>3, <1>4, <1>5, <1>8, <1>9


\* The calls of bget(): for a block outside of a transaction or of a call,
\* and for the blocks of commit().
LEMMA BreadInv ==
  ASSUME CacheSized, CacheInv, NEW p \in Users, NEW b \in Homes,
         Bread(p, b)
  PROVE  CacheInv'
<1>1. /\ th[p].pc = "run" /\ commit.by # p /\ th[p].hold = <<>> /\ Bget(p, b)
      /\ b \in Blocks
  BY DEF Bread, Caller, Blocks
<1>2. Refd(p) = {}
  BY <1>1 DEF Refd, Range
<1> QED
  BY <1>1, <1>2, BgetInv

LEMMA CommitReadInv ==
  ASSUME CacheSized, CacheInv, NEW p \in Users, CommitRead(p)
  PROVE  CacheInv'
<1> USE DEF CacheInv
<1>1. /\ commit.by = p /\ th[p].pc = "run" /\ ~commit.written
      /\ Len(th[p].hold) < Len(Wanted)
      /\ Bget(p, Wanted[Len(th[p].hold) + 1])
  BY DEF CommitRead, Committer
<1>2. /\ Wanted \in Seq(Blocks) /\ Len(Wanted) \in {1, 2}
      /\ DOMAIN Wanted = 1 .. Len(Wanted) /\ Wanted[1] \in Blocks \ Homes
      /\ Len(Wanted) = 2 => /\ Wanted[2] = log[commit.tail]
                            /\ commit.tail \in DOMAIN log
      /\ Len(Wanted) = 2 <=> commit.part \in {"log", "install"}
  BY <1>1, WantedBlocks
<1>3. PICK n \in Nat : /\ n = Len(th[p].hold) /\ DOMAIN th[p].hold = 1 .. n
                       /\ \A k \in 1 .. n : th[p].hold[k] \in Bufs
  BY Fields
<1>4. n \in {0, 1} /\ n + 1 \in 1 .. Len(Wanted)
  <2>1. PICK m \in {1, 2} : m = Len(Wanted)
    BY <1>2
  <2>2. n < m
    BY <1>1, <1>3, <2>1
  <2> QED
    BY <2>1, <2>2
<1>5. PICK c \in Blocks : c = Wanted[Len(th[p].hold) + 1]
  BY <1>2, <1>3, <1>4
<1>6. Refd(p) = Range(th[p].hold)
  BY <1>1 DEF Refd
<1>7. CASE n = 0
  <2>1. Refd(p) = {}
    BY <1>3, <1>6, <1>7 DEF Range
  <2> QED
    BY <1>1, <1>5, <2>1, BgetInv
<1>8. CASE n = 1
  <2>1. Len(Wanted) = 2 /\ commit.part \in {"log", "install"}
    BY <1>2, <1>4, <1>8
  <2>2. c = log[commit.tail] /\ commit.tail \in DOMAIN log
    BY <1>2, <1>3, <1>5, <1>8, <2>1
  <2>3. c \in Homes
    BY <2>2, Fields
  <2>4. c \in Pinned
    <3>1. commit.tail \in FirstPinned .. Len(log)
      BY <1>1, <2>1, <2>2, Fields DEF FirstPinned
    <3> QED
      BY <2>2, <3>1 DEF Pinned
  <2>5. \E i \in Bufs : buf[i].block = c
    BY <2>4 DEF Fresh
  <2>6. \A i \in Refd(p) : buf[i].block # c
    <3>1. \A i \in Refd(p) : i = th[p].hold[1]
      BY <1>3, <1>6, <1>8 DEF Range
    <3>2. buf[th[p].hold[1]].block = Wanted[1]
      BY <1>1, <1>3, <1>8 DEF CommitterShape, Committing
    <3> QED
      BY <1>2, <2>3, <3>1, <3>2
  <2> QED
    BY <1>1, <1>5, <2>5, <2>6, BgetInv
<1> QED
  BY <1>4, <1>7, <1>8

\* The calls of brelse().
LEMMA BrelseInv ==
  ASSUME CacheSized, CacheInv, NEW p \in Users, Brelse(p)
  PROVE  CacheInv'
<1>1. /\ th[p].pc = "run" /\ commit.by # p /\ th[p].hold # <<>>
      /\ Unlock(p, th[p].hold[1], Tail(th[p].hold))
  BY DEF Brelse, Caller
<1>2. /\ th[p].hold \in Seq(Bufs)
      /\ \A k, l \in DOMAIN th[p].hold :
           th[p].hold[k] = th[p].hold[l] => k = l
  BY Fields DEF CacheInv, Held, HeldBy
<1>3. PICK h \in Seq(Bufs) : h = th[p].hold
  BY <1>2
<1>4. h[1] \in Bufs
  BY <1>1, <1>3, EmptySeq
<1> QED
  BY <1>1, <1>2, <1>3, <1>4, WithoutFirst, UnlockInv

LEMMA CommitReleaseInv ==
  ASSUME CacheSized, CacheInv, NEW p \in Users, CommitRelease(p)
  PROVE  CacheInv'
<1>1. /\ th[p].pc = "run" /\ commit.by = p /\ commit.written
      /\ th[p].hold # <<>>
  BY DEF CommitRelease, Committer
<1>2. /\ th[p].hold \in Seq(Bufs)
      /\ \A k, l \in DOMAIN th[p].hold :
           th[p].hold[k] = th[p].hold[l] => k = l
  BY Fields DEF CacheInv, Held, HeldBy
<1>3. PICK h \in Seq(Bufs) : h = th[p].hold
  BY <1>2
<1>4. h[1] \in Bufs /\ h[Len(h)] \in Bufs
  BY <1>1, <1>3, EmptySeq
<1>5. CASE commit.part = "install"
  <2>1. Unlock(p, h[1], Tail(h))
    BY <1>3, <1>5 DEF CommitRelease
  <2> QED
    BY <1>1, <1>2, <1>3, <1>4, <2>1, WithoutFirst, UnlockInv
<1>6. CASE commit.part # "install"
  <2>1. Unlock(p, h[Len(h)], Front(h))
    BY <1>3, <1>6 DEF CommitRelease
  <2> QED
    BY <1>1, <1>2, <1>3, <1>4, <2>1, WithoutLast, UnlockInv
<1> QED
  BY <1>5, <1>6

\* Every step keeps the invariant.
LEMMA NextInv ==
  ASSUME CacheSized, CacheInv, [CacheNext]_cacheVars
  PROVE  CacheInv'
<1>1. ASSUME NEW p \in Users, Lock(p) PROVE CacheInv'
  BY <1>1, LockInv
<1>2. ASSUME NEW p \in Users, Put(p) PROVE CacheInv'
  BY <1>2, PutInv
<1>3. ASSUME NEW p \in Users, Brelse(p) PROVE CacheInv'
  BY <1>3, BrelseInv
<1>4. ASSUME NEW p \in Users, BeginOp(p) PROVE CacheInv'
  BY <1>4, BeginOpInv
<1>5. ASSUME NEW p \in Users, EndOp(p) PROVE CacheInv'
  BY <1>5, EndOpInv
<1>6. ASSUME NEW p \in Users, NEW b \in Homes, Bread(p, b) PROVE CacheInv'
  BY <1>6, BreadInv
<1>7. ASSUME NEW p \in Users, NEW v \in Values, LogWrite(p, v) PROVE CacheInv'
  BY <1>7, LogWriteInv
<1>8. ASSUME NEW p \in Users, CommitRead(p) PROVE CacheInv'
  BY <1>8, CommitReadInv
<1>9. ASSUME NEW p \in Users, CommitWrite(p) PROVE CacheInv'
  BY <1>9, CommitWriteInv
<1>10. ASSUME NEW p \in Users, CommitRelease(p) PROVE CacheInv'
  BY <1>10, CommitReleaseInv
<1>11. ASSUME NEW p \in Users, CommitNext(p) PROVE CacheInv'
  BY <1>11, CommitNextInv
<1>12. CASE UNCHANGED cacheVars
  <2>1. /\ buf' = buf /\ lru' = lru /\ bdev' = bdev /\ th' = th /\ log' = log
        /\ commit' = commit /\ panic' = panic /\ latest' = latest
    BY <1>12 DEF cacheVars
  <2>2. Pinned' = Pinned /\ Wanted' = Wanted
    BY <2>1 DEF Pinned, FirstPinned, Wanted
  <2>3. (\A q \in Users : Refd(q)' = Refd(q)) /\ \A i : Refs(i)' = Refs(i)
    BY <2>1 DEF Refd, Refs
  <2>4. CacheTypeOK' /\ ListWhole' /\ OneBuffer' /\ Counted'
    BY <2>1, <2>2, <2>3
       DEF CacheInv, CacheTypeOK, ListWhole, OneBuffer, Counted
  <2>5. Held' /\ Fresh'
    BY <2>1, <2>2, <2>3 DEF CacheInv, Held, HeldBy, Fresh
  <2>6. CallerShape' /\ CommitterShape'
    BY <2>1, <2>2, <2>3
       DEF CacheInv, CallerShape, Calling, CommitterShape, Committing
  <2>7. CommitState' /\ Copied' /\ Room'
    BY <2>1 DEF CacheInv, CommitState, Copied, IsCopied, Room, Reserved
  <2> QED
    BY <2>1, <2>4, <2>5, <2>6, <2>7 DEF CacheInv
<1> QED
  BY <1>1, <1>2, <1>3, <1>4, <1>5, <1>6, <1>7, <1>8, <1>9, <1>10, <1>11,
     <1>12 DEF CacheNext

\* What the invariant says of the buffers that are held.
LEMMA InvCoherent ==
  ASSUME CacheSized, CacheInv
  PROVE  CacheCoherent
<1> USE DEF CacheInv
<1>1. ASSUME NEW i \in Bufs, buf[i].lock # NoUser
      PROVE  /\ buf[i].valid /\ buf[i].refcnt > 0
             /\ buf[i].data = latest[buf[i].block]
  <2>1. PICK p \in Users : buf[i].lock = p
    BY <1>1, Fields
  <2>2. p \in Refs(i)
    BY <2>1 DEF Held, HeldBy, Refd, Refs
  <2>3. Cardinality(Refs(i)) > 0
    BY <2>2, RefsFinite, FS_EmptySet
  <2>4. buf[i].refcnt > 0
    BY <2>3, RefsFinite DEF Counted
  <2> QED
    BY <1>1, <2>4 DEF Fresh
<1> QED
  BY <1>1 DEF CacheCoherent, OneBuffer

\* For every number of processes, blocks and buffers that leaves bget() one
\* buffer for each process next to the pinned ones: whoever holds a buffer
\* sees what was last put in its block, no block has two buffers, and bget()
\* never panics.
THEOREM CacheIsCoherent == CacheSpec => []CacheCoherent
<1> USE CacheAssumption
<1>1. CacheInit => CacheInv
  BY InitCache
<1>2. CacheInv /\ [CacheNext]_cacheVars => CacheInv'
  BY NextInv
<1>3. CacheInv => CacheCoherent
  BY InvCoherent
<1> QED
  BY <1>1, <1>2, <1>3, PTL DEF CacheSpec
=============================================================================
