-------------------------------- MODULE Proc --------------------------------
(***************************************************************************)
(* Processes and the scheduler (kernel/proc.c): fork, exit, wait, kill and *)
(* the switch between a process and a CPU's scheduler.                     *)
(*                                                                         *)
(* A step is one critical section of a p->lock, of wait_lock or of both.   *)
(* Two locks are held longer and are explicit.  p->lock is taken by one    *)
(* side of swtch() and released by the other: sw[p] says where p is in     *)
(* that.  wait_lock is held by kexit() and kwait() across several p->lock  *)
(* sections.  The scans of the process table (allocproc, kwait, wakeup,    *)
(* kkill, scheduler) may meet its entries in any order.  The only channel  *)
(* is the one of kwait(), where a process waits on itself.                 *)
(***************************************************************************)
EXTENDS Naturals

CONSTANTS Procs,     \* the entries of proc[]
          initproc,  \* the entry of the first process
          CPUs,      \* the harts
          NoProc,    \* a null pointer
          MaxPid,    \* a bound: pids given out in a run
          KillArgs   \* the pids that kill() is called with

ASSUME ProcAssumption ==
  /\ initproc \in Procs /\ NoProc \notin Procs
  /\ MaxPid \in Nat \ {0} /\ KillArgs \subseteq Nat

VARIABLES state, pid, parent, killed,  \* the fields of struct proc
          chan,       \* whether p->chan is p itself (else it is 0)
          sw,         \* where p is between its own code and the scheduler's
          cpu,        \* c->proc
          wait_lock,  \* the process that holds wait_lock, or NoProc
          np,         \* the child a kfork() under way has allocated
          nextpid,
          pc,         \* where p is in its system call
          target      \* history: pids someone asked to kill, or that faulted

fields == <<state, pid, parent, killed, chan>>
vars == <<fields, sw, cpu, wait_lock, np, nextpid, pc, target>>

States == {"UNUSED", "USED", "SLEEPING", "RUNNABLE", "RUNNING", "ZOMBIE"}

\* off: not on a CPU;  in, out: in swtch(), p->lock held;  run: on a CPU.
Switch == {"off", "in", "run", "out"}

PCs == {"user", "fork", "forked", "wait", "scan", "sleep",
        "exit", "reparent", "wakeparent", "zombie", "panic"}

TypeOK ==
  /\ state \in [Procs -> States]
  /\ pid \in [Procs -> 0 .. MaxPid]
  /\ parent \in [Procs -> Procs \cup {NoProc}]
  /\ killed \in [Procs -> BOOLEAN]
  /\ chan \in [Procs -> BOOLEAN]
  /\ sw \in [Procs -> Switch]
  /\ cpu \in [CPUs -> Procs \cup {NoProc}]
  /\ wait_lock \in Procs \cup {NoProc}
  /\ np \in [Procs -> Procs \cup {NoProc}]
  /\ nextpid \in 1 .. MaxPid + 1
  /\ pc \in [Procs -> PCs]
  /\ target \subseteq Nat

\* procinit() and userinit()
Init ==
  /\ state = [p \in Procs |-> IF p = initproc THEN "RUNNABLE" ELSE "UNUSED"]
  /\ pid = [p \in Procs |-> IF p = initproc THEN 1 ELSE 0]
  /\ parent = [p \in Procs |-> NoProc]
  /\ killed = [p \in Procs |-> FALSE]
  /\ chan = [p \in Procs |-> FALSE]
  /\ sw = [p \in Procs |-> "off"]
  /\ cpu = [c \in CPUs |-> NoProc]
  /\ wait_lock = NoProc
  /\ np = [p \in Procs |-> NoProc]
  /\ nextpid = 2
  /\ pc = [p \in Procs |-> "user"]
  /\ target = {}

\* p->lock is held across swtch().
Locked(p) == sw[p] \in {"in", "out"}

Goto(p, from, to) ==
  /\ sw[p] = "run" /\ pc[p] = from
  /\ pc' = [pc EXCEPT ![p] = to]

Children(p) == {q \in Procs : parent[q] = p}
-----------------------------------------------------------------------------
\* scheduler(): choose a runnable process and swtch() to it.
Dispatch(c, p) ==
  /\ cpu[c] = NoProc
  /\ ~Locked(p) /\ state[p] = "RUNNABLE"
  /\ state' = [state EXCEPT ![p] = "RUNNING"]
  /\ cpu' = [cpu EXCEPT ![c] = p]
  /\ sw' = [sw EXCEPT ![p] = "in"]
  /\ UNCHANGED <<pid, parent, killed, chan, wait_lock, np, nextpid, pc, target>>

\* Back from sched() in yield() or sleep(), or in forkret(): release p->lock.
Enter(p) ==
  /\ sw[p] = "in"
  /\ sw' = [sw EXCEPT ![p] = "run"]
  /\ UNCHANGED <<fields, cpu, wait_lock, np, nextpid, pc, target>>

\* Wrong on purpose: yield() that drops p->lock before the switch.
YieldUnlocked(p) ==
  /\ sw[p] = "run" /\ wait_lock # p
  /\ state' = [state EXCEPT ![p] = "RUNNABLE"]
  /\ UNCHANGED <<pid, parent, killed, chan, sw, cpu, wait_lock, np, nextpid,
                 pc, target>>

\* yield(), from a timer interrupt: no spinlock is held.
Yield(p) ==
  /\ sw[p] = "run" /\ wait_lock # p
  /\ state' = [state EXCEPT ![p] = "RUNNABLE"]
  /\ sw' = [sw EXCEPT ![p] = "out"]
  /\ UNCHANGED <<pid, parent, killed, chan, cpu, wait_lock, np, nextpid, pc,
                 target>>

\* The swtch() of sched() arrives in scheduler(), which releases p->lock.
SwitchOut(c, p) ==
  /\ cpu[c] = p /\ sw[p] = "out"
  /\ cpu' = [cpu EXCEPT ![c] = NoProc]
  /\ sw' = [sw EXCEPT ![p] = "off"]
  /\ UNCHANGED <<fields, wait_lock, np, nextpid, pc, target>>
-----------------------------------------------------------------------------
(* kfork(): allocproc() and the copy of the parent, up to the release of    *)
(* np->lock.  killed is not among the fields allocproc() sets.              *)
ForkAlloc(p, q) ==
  /\ Goto(p, "user", "fork")
  /\ ~killed[p]
  /\ state[q] = "UNUSED" /\ ~Locked(q)
  /\ nextpid <= MaxPid
  /\ pid' = [pid EXCEPT ![q] = nextpid]
  /\ nextpid' = nextpid + 1
  /\ state' = [state EXCEPT ![q] = "USED"]
  /\ np' = [np EXCEPT ![p] = q]
  /\ UNCHANGED <<parent, killed, chan, sw, cpu, wait_lock, target>>

\* kfork() without memory: allocproc() or uvmcopy() fails, freeproc(np).
ForkFail(p, q) ==
  /\ sw[p] = "run" /\ pc[p] = "user" /\ ~killed[p]
  /\ state[q] = "UNUSED" /\ ~Locked(q)
  /\ nextpid <= MaxPid
  /\ nextpid' = nextpid + 1
  /\ killed' = [killed EXCEPT ![q] = FALSE]
  /\ UNCHANGED <<state, pid, parent, chan, sw, cpu, wait_lock, np, pc, target>>

\* kfork(): np->parent = p, under wait_lock.
ForkParent(p) ==
  /\ Goto(p, "fork", "forked")
  /\ wait_lock = NoProc
  /\ parent' = [parent EXCEPT ![np[p]] = p]
  /\ UNCHANGED <<state, pid, killed, chan, sw, cpu, wait_lock, np, nextpid,
                 target>>

\* kfork(): np->state = RUNNABLE.
ForkReady(p) ==
  /\ Goto(p, "forked", "user")
  /\ state' = [state EXCEPT ![np[p]] = "RUNNABLE"]
  /\ np' = [np EXCEPT ![p] = NoProc]
  /\ UNCHANGED <<pid, parent, killed, chan, sw, cpu, wait_lock, nextpid,
                 target>>
-----------------------------------------------------------------------------
\* A process calls wait().
CallWait(p) ==
  /\ Goto(p, "user", "wait")
  /\ ~killed[p]
  /\ UNCHANGED <<fields, sw, cpu, wait_lock, np, nextpid, target>>

\* kwait(): acquire(&wait_lock), on entry and after sleep() has returned.
WaitLock(p) ==
  /\ Goto(p, "wait", "scan")
  /\ wait_lock = NoProc
  /\ wait_lock' = p
  /\ UNCHANGED <<fields, sw, cpu, np, nextpid, target>>

\* Wrong on purpose: freeproc() that leaves the entry a zombie.
ReapKeepsState(p, z) ==
  /\ sw[p] = "run" /\ pc[p] = "scan"
  /\ z \in Children(p) /\ state[z] = "ZOMBIE" /\ ~Locked(z)
  /\ parent' = [parent EXCEPT ![z] = NoProc]
  /\ pid' = [pid EXCEPT ![z] = 0]
  /\ killed' = [killed EXCEPT ![z] = FALSE]
  /\ chan' = [chan EXCEPT ![z] = FALSE]
  /\ pc' = [pc EXCEPT ![p] = "user", ![z] = "user"]
  /\ wait_lock' = NoProc
  /\ UNCHANGED <<state, sw, cpu, np, nextpid, target>>

\* Wrong on purpose: freeproc() that does not reset killed.
ReapKeepsKilled(p, z) ==
  /\ sw[p] = "run" /\ pc[p] = "scan"
  /\ z \in Children(p) /\ state[z] = "ZOMBIE" /\ ~Locked(z)
  /\ parent' = [parent EXCEPT ![z] = NoProc]
  /\ pid' = [pid EXCEPT ![z] = 0]
  /\ chan' = [chan EXCEPT ![z] = FALSE]
  /\ state' = [state EXCEPT ![z] = "UNUSED"]
  /\ pc' = [pc EXCEPT ![p] = "user", ![z] = "user"]
  /\ wait_lock' = NoProc
  /\ UNCHANGED <<killed, sw, cpu, np, nextpid, target>>

(* kwait() finds a zombie that has left its stack: freeproc().  The entry's *)
(* next process will start in forkret(), at "user".                         *)
Reap(p, z) ==
  /\ sw[p] = "run" /\ pc[p] = "scan"
  /\ z \in Children(p) /\ state[z] = "ZOMBIE" /\ ~Locked(z)
  /\ parent' = [parent EXCEPT ![z] = NoProc]
  /\ pid' = [pid EXCEPT ![z] = 0]
  /\ killed' = [killed EXCEPT ![z] = FALSE]
  /\ chan' = [chan EXCEPT ![z] = FALSE]
  /\ state' = [state EXCEPT ![z] = "UNUSED"]
  /\ pc' = [pc EXCEPT ![p] = "user", ![z] = "user"]
  /\ wait_lock' = NoProc
  /\ UNCHANGED <<sw, cpu, np, nextpid, target>>

(* kwait() finds a zombie, and copyout() of its status fails.  The first    *)
(* process asks for no status.                                              *)
WaitFault(p) ==
  /\ p # initproc
  /\ Goto(p, "scan", "user")
  /\ \E z \in Children(p) : state[z] = "ZOMBIE" /\ ~Locked(z)
  /\ wait_lock' = NoProc
  /\ UNCHANGED <<fields, sw, cpu, np, nextpid, target>>

\* kwait() has nothing to wait for, or is told not to: return -1.
WaitFail(p) ==
  /\ Goto(p, "scan", "user")
  /\ \A z \in Children(p) : state[z] # "ZOMBIE"
  /\ Children(p) = {} \/ killed[p]
  /\ wait_lock' = NoProc
  /\ UNCHANGED <<fields, sw, cpu, np, nextpid, target>>

\* kwait(): sleep_prepare(p), then release(&wait_lock).
WaitPrepare(p) ==
  /\ Goto(p, "scan", "sleep")
  /\ \A z \in Children(p) : state[z] # "ZOMBIE"
  /\ Children(p) # {} /\ ~killed[p]
  /\ chan' = [chan EXCEPT ![p] = TRUE]
  /\ wait_lock' = NoProc
  /\ UNCHANGED <<state, pid, parent, killed, sw, cpu, np, nextpid, target>>

\* sleep(): unless a wakeup has cleared p->chan, sleep and sched().
Sleep(p) ==
  /\ Goto(p, "sleep", "wait")
  /\ IF chan[p]
       THEN /\ state' = [state EXCEPT ![p] = "SLEEPING"]
            /\ sw' = [sw EXCEPT ![p] = "out"]
       ELSE UNCHANGED <<state, sw>>
  /\ UNCHANGED <<pid, parent, killed, chan, cpu, wait_lock, np, nextpid, target>>
-----------------------------------------------------------------------------
\* Wrong on purpose: usertrap() that does not look at killed.
CallExitUnkilled(p) ==
  /\ Goto(p, "user", "exit")
  /\ p # initproc /\ ~killed[p]
  /\ UNCHANGED <<fields, sw, cpu, wait_lock, np, nextpid, target>>

(* exit(), or usertrap() of a process that has been killed.  The first      *)
(* process does not call exit(); if it is killed, kexit() panics.           *)
CallExit(p) ==
  /\ Goto(p, "user", IF p = initproc THEN "panic" ELSE "exit")
  /\ p = initproc => killed[p]
  /\ UNCHANGED <<fields, sw, cpu, wait_lock, np, nextpid, target>>

\* kexit(): acquire(&wait_lock), the files being closed.
ExitLock(p) ==
  /\ Goto(p, "exit", "reparent")
  /\ wait_lock = NoProc
  /\ wait_lock' = p
  /\ UNCHANGED <<fields, sw, cpu, np, nextpid, target>>

\* The effect of wakeup(q) on q, the only process that waits on q.
Wakeup(q) ==
  /\ ~Locked(q)
  /\ chan' = [chan EXCEPT ![q] = FALSE]
  /\ state' = [state EXCEPT ![q] =
                 IF chan[q] /\ @ = "SLEEPING" THEN "RUNNABLE" ELSE @]

\* Wrong on purpose: reparent() that does not tell init.
ReparentSilent(p) ==
  /\ Goto(p, "reparent", "wakeparent")
  /\ parent' = [q \in Procs |-> IF parent[q] = p THEN initproc ELSE parent[q]]
  /\ UNCHANGED <<state, pid, killed, chan, sw, cpu, wait_lock, np, nextpid,
                 target>>

\* Wrong on purpose: reparent() that gives away the living children only.
ReparentLiving(p) ==
  /\ Goto(p, "reparent", "wakeparent")
  /\ parent' = [q \in Procs |-> IF parent[q] = p /\ state[q] # "ZOMBIE"
                                  THEN initproc ELSE parent[q]]
  /\ Wakeup(initproc)
  /\ UNCHANGED <<pid, killed, sw, cpu, wait_lock, np, nextpid, target>>

\* reparent(p)
Reparent(p) ==
  /\ Goto(p, "reparent", "wakeparent")
  /\ IF Children(p) = {}
       THEN UNCHANGED <<parent, chan, state>>
       ELSE /\ parent' = [q \in Procs |->
                            IF parent[q] = p THEN initproc ELSE parent[q]]
            /\ Wakeup(initproc)
  /\ UNCHANGED <<pid, killed, sw, cpu, wait_lock, np, nextpid, target>>

\* kexit(): wakeup(p->parent).
WakeParent(p) ==
  /\ Goto(p, "wakeparent", "zombie")
  /\ Wakeup(parent[p])
  /\ UNCHANGED <<pid, parent, killed, sw, cpu, wait_lock, np, nextpid, target>>

\* kexit(): become a zombie, release(&wait_lock) and sched().
BecomeZombie(p) ==
  /\ sw[p] = "run" /\ pc[p] = "zombie"
  /\ state' = [state EXCEPT ![p] = "ZOMBIE"]
  /\ sw' = [sw EXCEPT ![p] = "out"]
  /\ wait_lock' = NoProc
  /\ UNCHANGED <<pid, parent, killed, chan, cpu, np, nextpid, pc, target>>
-----------------------------------------------------------------------------
\* kkill(i), called by p, meets the entry q.
Kill(p, i, q) ==
  /\ sw[p] = "run" /\ pc[p] = "user" /\ ~killed[p]
  /\ i \in KillArgs
  /\ pid[q] = i /\ ~Locked(q)
  /\ killed' = [killed EXCEPT ![q] = TRUE]
  /\ state' = [state EXCEPT ![q] = IF @ = "SLEEPING" THEN "RUNNABLE" ELSE @]
  /\ target' = target \cup {i}
  /\ UNCHANGED <<pid, parent, chan, sw, cpu, wait_lock, np, nextpid, pc>>

\* setkilled() on an unexpected trap from user space.
Fault(p) ==
  /\ sw[p] = "run" /\ pc[p] = "user" /\ p # initproc
  /\ killed' = [killed EXCEPT ![p] = TRUE]
  /\ target' = target \cup {pid[p]}
  /\ UNCHANGED <<state, pid, parent, chan, sw, cpu, wait_lock, np, nextpid, pc>>
-----------------------------------------------------------------------------
Run(p) == \E c \in CPUs : Dispatch(c, p)

Leave(p) == \E c \in CPUs : SwitchOut(c, p)

\* The steps of a system call, once it has been called.
Step(p) ==
  \/ ForkParent(p) \/ ForkReady(p)
  \/ WaitLock(p) \/ WaitFail(p) \/ WaitPrepare(p) \/ Sleep(p)
  \/ \E z \in Procs : Reap(p, z)
  \/ ExitLock(p) \/ Reparent(p) \/ WakeParent(p) \/ BecomeZombie(p)

Next ==
  \E p \in Procs :
    \/ Run(p) \/ Enter(p) \/ Yield(p) \/ Leave(p) \/ Step(p)
    \/ CallWait(p) \/ WaitFault(p) \/ CallExit(p) \/ Fault(p)
    \/ \E q \in Procs : ForkAlloc(p, q) \/ ForkFail(p, q)
    \/ \E q \in Procs, i \in KillArgs : Kill(p, i, q)

Spec == Init /\ [][Next]_vars

\* What p does sooner or later while it gets the CPU again and again.
Progress(p) ==
  \/ Step(p)
  \/ killed[p] /\ CallExit(p)
  \/ p = initproc /\ CallWait(p)

(* Each CPU scans the whole table, and the clock interrupt takes the CPU    *)
(* from whoever runs as soon as no spinlock is held, so a runnable process  *)
(* runs again and again; a tick is long enough for a step.  A killed        *)
(* process does not return to user space.  The first process waits for      *)
(* children for ever (user/init.c).                                         *)
Fairness ==
  \A p \in Procs :
    /\ SF_vars(Run(p))
    /\ SF_vars(Enter(p) \/ Yield(p) \/ Leave(p))
    /\ SF_vars(Progress(p))

FairSpec == Spec /\ Fairness
-----------------------------------------------------------------------------
(* Two CPUs never execute on the kernel stack of one process, and no CPU   *)
(* executes on the stack of a process that has been freed: p->lock is held *)
(* until the switch to the scheduler is complete.                          *)
OneStack ==
  /\ \A c, d \in CPUs : cpu[c] = cpu[d] /\ cpu[c] # NoProc => c = d
  /\ \A c \in CPUs : cpu[c] # NoProc => state[cpu[c]] \notin {"UNUSED", "USED"}

(* A process that sleeps in kwait(), or is about to, has no zombie child:  *)
(* it was told of every child that exited or was inherited dead.           *)
NoLostChild ==
  \A p, z \in Procs :
    chan[p] /\ (pc[p] = "sleep" \/ state[p] = "SLEEPING")
      => ~(z \in Children(p) /\ state[z] = "ZOMBIE")

(* Every process that can be scheduled or is dead has a parent that can    *)
(* still wait for it, however exits, forks and waits interleave.           *)
ParentAlive ==
  \A p \in Procs :
    p # initproc /\ state[p] \notin {"UNUSED", "USED"}
      => /\ parent[p] # NoProc
         /\ state[parent[p]] \notin {"UNUSED", "USED", "ZOMBIE"}

(* A process is marked killed only if its own pid was passed to kill(), it *)
(* caused a fault itself, or kill(0) was called: nothing is inherited from *)
(* the entry's past but that.  pid 0 is the one of every free entry, which *)
(* kkill() marks, and allocproc() does not clear the mark.                 *)
NoStrayKill ==
  \A p \in Procs : state[p] # "UNUSED" /\ killed[p] =>
    pid[p] \in target \/ 0 \in target

(* A zombie that has been handed to init is reaped.                        *)
OrphansReaped ==
  \A p \in Procs :
    (state[p] = "ZOMBIE" /\ parent[p] = initproc) ~> (state[p] = "UNUSED")

(* A killed process that is about to return to user space exits instead.   *)
KilledExits ==
  \A p \in Procs \ {initproc} :
    (killed[p] /\ pc[p] = "user" /\ state[p] # "UNUSED")
      ~> (state[p] \in {"ZOMBIE", "UNUSED"})
=============================================================================
