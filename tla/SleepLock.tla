----------------------------- MODULE SleepLock -----------------------------
(***************************************************************************)
(* One sleep lock (kernel/sleeplock.c) and the sleep/wakeup mechanism it   *)
(* is built on (sleep_prepare, sleep, wakeup and kkill of kernel/proc.c).  *)
(*                                                                         *)
(* A step is one critical section of a p->lock or of the spinlock lk->lk   *)
(* that protects the sleep lock; lk->lk is explicit because acquiresleep   *)
(* and releasesleep hold it across several p->lock sections.  wakeup       *)
(* visits the process table one p->lock at a time; the order of the visits *)
(* is left open.  RUNNABLE and RUNNING are one value here: the scheduler   *)
(* is the subject of Proc.tla.                                             *)
(***************************************************************************)
CONSTANTS Procs,   \* the processes that use the lock
          NoProc   \* a null process pointer

ASSUME NoProcAssumption == NoProc \notin Procs

VARIABLES lk,       \* which process holds the spinlock lk->lk, or NoProc
          locked,   \* lk->locked
          owner,    \* lk->pid, as the process that has this pid
          waiting,  \* the processes with p->chan == lk (the others have 0)
          state,    \* p->state, RUNNING written RUNNABLE
          todo,     \* the processes a wakeup(lk) in progress has yet to visit
          pc        \* where each process is

vars == <<lk, locked, owner, waiting, state, todo, pc>>

States == {"RUNNABLE", "SLEEPING"}

PCs == {"idle", "acquire", "test", "sleep", "asleep", "held", "release",
        "wakeup", "panic"}

TypeOK ==
  /\ lk \in Procs \cup {NoProc}
  /\ locked \in BOOLEAN
  /\ owner \in Procs \cup {NoProc}
  /\ waiting \in SUBSET Procs
  /\ state \in [Procs -> States]
  /\ todo \in SUBSET Procs
  /\ pc \in [Procs -> PCs]

\* initsleeplock()
Init ==
  /\ lk = NoProc
  /\ locked = FALSE
  /\ owner = NoProc
  /\ waiting = {}
  /\ state = [p \in Procs |-> "RUNNABLE"]
  /\ todo = {}
  /\ pc = [p \in Procs |-> "idle"]

Goto(p, from, to) == pc[p] = from /\ pc' = [pc EXCEPT ![p] = to]
-----------------------------------------------------------------------------
\* A process calls acquiresleep().
CallAcquire(p) ==
  /\ Goto(p, "idle", "acquire")
  /\ UNCHANGED <<lk, locked, owner, waiting, state, todo>>

\* acquire(&lk->lk), on entry and again after sleep() returns.
LockSpin(p) ==
  /\ Goto(p, "acquire", "test")
  /\ lk = NoProc
  /\ lk' = p
  /\ UNCHANGED <<locked, owner, waiting, state, todo>>

\* The lock is taken: sleep_prepare(lk), then release(&lk->lk).
SleepPrepare(p) ==
  /\ Goto(p, "test", "sleep")
  /\ locked
  /\ waiting' = waiting \cup {p}
  /\ lk' = NoProc
  /\ UNCHANGED <<locked, owner, state, todo>>

\* The lock is free: take it and release(&lk->lk).
TakeLock(p) ==
  /\ Goto(p, "test", "held")
  /\ ~locked
  /\ locked' = TRUE
  /\ owner' = p
  /\ lk' = NoProc
  /\ UNCHANGED <<waiting, state, todo>>

\* Wrong on purpose: sleep() without the test of p->chan.
SleepUnchecked(p) ==
  /\ Goto(p, "sleep", "asleep")
  /\ state' = [state EXCEPT ![p] = "SLEEPING"]
  /\ UNCHANGED <<lk, locked, owner, waiting, todo>>

\* sleep(): go to sleep unless the channel was woken up since sleep_prepare().
Sleep(p) ==
  /\ pc[p] = "sleep"
  /\ IF p \in waiting
       THEN /\ state' = [state EXCEPT ![p] = "SLEEPING"]
            /\ pc' = [pc EXCEPT ![p] = "asleep"]
       ELSE /\ pc' = [pc EXCEPT ![p] = "acquire"]
            /\ UNCHANGED state
  /\ UNCHANGED <<lk, locked, owner, waiting, todo>>

\* sched() returns into sleep(), which returns to the loop of acquiresleep().
Resume(p) ==
  /\ Goto(p, "asleep", "acquire")
  /\ state[p] = "RUNNABLE"
  /\ UNCHANGED <<lk, locked, owner, waiting, state, todo>>

\* brelse(), iunlock(): holdingsleep() guards releasesleep() by a panic.
CallRelease(p) ==
  /\ pc[p] = "held"
  /\ pc' = [pc EXCEPT ![p] =
              IF locked /\ owner = p THEN "release" ELSE "panic"]
  /\ UNCHANGED <<lk, locked, owner, waiting, state, todo>>

\* Wrong on purpose: releasesleep() that forgets lk->pid.
ReleaseKeepsPid(p) ==
  /\ Goto(p, "release", "wakeup")
  /\ lk = NoProc
  /\ lk' = p
  /\ locked' = FALSE
  /\ todo' = Procs
  /\ UNCHANGED <<owner, waiting, state>>

\* releasesleep() up to the call of wakeup(lk).
ReleaseSleep(p) ==
  /\ Goto(p, "release", "wakeup")
  /\ lk = NoProc
  /\ lk' = p
  /\ locked' = FALSE
  /\ owner' = NoProc
  /\ todo' = Procs
  /\ UNCHANGED <<waiting, state>>

\* Wrong on purpose: wakeup() that clears p->chan of a sleeping process only.
WakeOnlySleeping(p, q) ==
  /\ pc[p] = "wakeup"
  /\ q \in todo
  /\ todo' = todo \ {q}
  /\ waiting' = IF state[q] = "SLEEPING" THEN waiting \ {q} ELSE waiting
  /\ state' = [state EXCEPT ![q] = IF q \in waiting THEN "RUNNABLE" ELSE @]
  /\ UNCHANGED <<lk, locked, owner, pc>>

\* One iteration of the loop of wakeup(lk).
WakeOne(p, q) ==
  /\ pc[p] = "wakeup"
  /\ q \in todo
  /\ todo' = todo \ {q}
  /\ waiting' = waiting \ {q}
  /\ state' = [state EXCEPT ![q] = IF q \in waiting THEN "RUNNABLE" ELSE @]
  /\ UNCHANGED <<lk, locked, owner, pc>>

\* wakeup() has returned: release(&lk->lk).
EndRelease(p) ==
  /\ Goto(p, "wakeup", "idle")
  /\ todo = {}
  /\ lk' = NoProc
  /\ UNCHANGED <<locked, owner, waiting, state, todo>>

\* kkill() on a sleeping process: it becomes runnable, its chan stays set.
KillWake(q) ==
  /\ state[q] = "SLEEPING"
  /\ state' = [state EXCEPT ![q] = "RUNNABLE"]
  /\ UNCHANGED <<lk, locked, owner, waiting, todo, pc>>
-----------------------------------------------------------------------------
\* The steps the kernel itself takes for p, once it is running.
Step(p) ==
  \/ LockSpin(p)
  \/ SleepPrepare(p)
  \/ TakeLock(p)
  \/ Sleep(p)
  \/ Resume(p)
  \/ CallRelease(p)
  \/ ReleaseSleep(p)
  \/ \E q \in Procs : WakeOne(p, q)
  \/ EndRelease(p)

Next == \E p \in Procs : Step(p) \/ CallAcquire(p) \/ KillWake(p)

Spec == Init /\ [][Next]_vars

(* The kernel keeps running every process that is not asleep (the clock     *)
(* interrupt preempts the others), so a step that stays enabled is taken;   *)
(* a spinning acquire() gets the spinlock if it is free again and again.    *)
(* Nothing obliges a process to ask for the lock or to be killed.           *)
Fairness ==
  \A p \in Procs :
    /\ WF_vars(Step(p))
    /\ SF_vars(LockSpin(p))
    /\ SF_vars(ReleaseSleep(p))

FairSpec == Spec /\ Fairness
-----------------------------------------------------------------------------
\* The processes between a return of acquiresleep() and releasesleep().
Critical == {p \in Procs : pc[p] \in {"held", "release"}}

(* Two processes never both have the sleep lock: the test and the          *)
(* assignment of lk->locked are not separated by another acquiresleep(),   *)
(* not even when both are woken by one releasesleep().                     *)
MutualExclusion == \A p, q \in Critical : p = q

(* A process that sleeps, or is about to, is registered on the lock, and   *)
(* either the lock is still taken or the wakeup() of the releasesleep()    *)
(* that freed it has not visited the process yet: no wakeup is lost in the *)
(* window between sleep_prepare() and sleep().                             *)
NoLostWakeup ==
  \A p \in Procs :
    /\ state[p] = "SLEEPING" => p \in waiting
    /\ (pc[p] = "sleep" \/ state[p] = "SLEEPING") /\ p \in waiting
          => locked \/ p \in todo

(* holdingsleep() holds whenever a user of the lock releases it, so the    *)
(* panics of brelse() and iunlock() are not reached.                       *)
NoPanic == \A p \in Procs : pc[p] # "panic"

(* The sleep lock implements a mutex whose holder is lk->pid.              *)
M == INSTANCE Mutex WITH holder <- owner
ImplementsMutex == M!Spec

(* A process that has gone to sleep in acquiresleep() wakes up again,      *)
(* whatever the other processes do: each holder releases the lock.         *)
SleepersWake ==
  \A p \in Procs : (pc[p] = "asleep") ~> (pc[p] = "acquire")
=============================================================================
