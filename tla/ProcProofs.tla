----------------------------- MODULE ProcProofs -----------------------------
(***************************************************************************)
(* The safety properties of Proc for any process table, any number of      *)
(* CPUs and any calls of kill().  None of them is inductive alone: they    *)
(* rest on what p->lock, wait_lock and the table say of where a process    *)
(* is, and on who has been told of an exit before it happens.              *)
(*                                                                         *)
(* At the end, the threads that a process makes for itself (Threads), for  *)
(* any size of their table: it is filled from below, so that the searches  *)
(* of thread_schedule() from slot 0 meet only the first two.  And the      *)
(* chain of processes of user/primes.c (Sieve), for any limit, any size of *)
(* a pipe and any number of processes: pipe k holds, in order, the numbers *)
(* that no process before k drops and that process k has yet to read, so   *)
(* the first one it reads is the next prime.  And the allocator of user    *)
(* programs (Heap), for any requests and any size of a heap: the list is   *)
(* in the order of addresses, which is what lets free() find the place of  *)
(* a block and its neighbours at one turn of its loop.                     *)
(*                                                                         *)
(* The last part is the memory of processes (Memory), for any number of    *)
(* processes and pages, any depth of page tables and any programs: what    *)
(* an operation has mapped so far lies below what it has yet to map, so    *)
(* that the size it keeps names exactly the pages to free when it fails.   *)
(***************************************************************************)
EXTENDS Proc, Threads, Sieve, Heap, Memory, ModLemmas, FiniteSetTheorems,
        SequenceTheorems, WellFoundedInduction, TLAPS

\* p->state follows the switch: p->lock hides every state in between.
SwitchState ==
  \A p \in Procs :
    /\ sw[p] \in {"in", "run"} => state[p] = "RUNNING"
    /\ sw[p] = "out" => state[p] \in {"RUNNABLE", "SLEEPING", "ZOMBIE"}
    /\ sw[p] = "off" => state[p] # "RUNNING"

\* c->proc is a process in its code or in swtch(), and no other CPU's.
OnCpu ==
  /\ \A c \in CPUs : cpu[c] # NoProc => sw[cpu[c]] # "off"
  /\ \A c, d \in CPUs : cpu[c] = cpu[d] /\ cpu[c] # NoProc => c = d

\* What the state of an entry says of the code that its process is in.
StatePc ==
  \A p \in Procs :
    /\ state[p] \in {"UNUSED", "USED"} => pc[p] = "user"
    /\ state[p] = "SLEEPING" => pc[p] = "wait"
    /\ state[p] = "ZOMBIE" => pc[p] = "zombie"
    /\ state[p] = "UNUSED" => pid[p] = 0 /\ parent[p] = NoProc

\* wait_lock is held by a running process in the middle of kwait() or kexit().
WaitLockHeld ==
  /\ wait_lock # NoProc =>
       /\ sw[wait_lock] = "run"
       /\ pc[wait_lock] \in {"scan", "reparent", "wakeparent", "zombie"}
  /\ \A p \in Procs :
       pc[p] \in {"scan", "reparent", "wakeparent", "zombie"} =>
         wait_lock = p \/ state[p] = "ZOMBIE"

\* The entries that kfork() has allocated and not yet made runnable.
Forking ==
  /\ \A p \in Procs : np[p] # NoProc <=> pc[p] \in {"fork", "forked"}
  /\ \A p \in Procs : np[p] # NoProc =>
       /\ state[np[p]] = "USED"
       /\ parent[np[p]] = IF pc[p] = "fork" THEN NoProc ELSE p
  /\ \A p, q \in Procs : np[p] = np[q] /\ np[p] # NoProc => p = q
  /\ \A q \in Procs : state[q] = "USED" => \E p \in Procs : np[p] = q

\* The first process never exits and has no parent.
InitStays ==
  /\ state[initproc] \notin {"UNUSED", "USED", "ZOMBIE"}
  /\ pc[initproc] \notin {"exit", "reparent", "wakeparent", "zombie"}
  /\ parent[initproc] = NoProc

\* A parent is alive, and past reparent() nobody has p for a parent.
Parents ==
  /\ \A p \in Procs : p # initproc /\ state[p] \notin {"UNUSED", "USED"}
       => parent[p] # NoProc
  /\ \A p \in Procs : parent[p] # NoProc =>
       /\ state[parent[p]] \notin {"UNUSED", "USED", "ZOMBIE"}
       /\ pc[parent[p]] \notin {"wakeparent", "zombie"}

\* p sleeps in kwait(), or is about to.
Waits(p) == chan[p] /\ (pc[p] = "sleep" \/ state[p] = "SLEEPING")

\* From wakeup(p->parent) on, the parent of an exiting process does not wait.
Told == \A z \in Procs :
  pc[z] = "zombie" /\ parent[z] # NoProc => ~Waits(parent[z])

\* A mark that a free entry carries comes from kill(0).
Marks == \A p \in Procs : killed[p] => pid[p] \in target \/ 0 \in target

IInv == /\ TypeOK /\ SwitchState /\ OnCpu /\ StatePc /\ WaitLockHeld
        /\ Forking /\ InitStays /\ Parents /\ Told /\ Marks
-----------------------------------------------------------------------------
\* The table as procinit() and userinit() leave it satisfies the invariant.
LEMMA InitIInv == Init => IInv
  BY ProcAssumption
  DEF Init, IInv, TypeOK, SwitchState, OnCpu, StatePc, WaitLockHeld, Forking,
      InitStays, Parents, Told, Waits, Marks, States, Switch, PCs

\* wakeup() keeps the types of what it changes.
LEMMA WakeupTyped ==
  ASSUME TypeOK, NEW q \in Procs, Wakeup(q)
  PROVE  state' \in [Procs -> States] /\ chan' \in [Procs -> BOOLEAN]
  BY DEF TypeOK, Wakeup, States

\* So does setkilled().
LEMMA FaultTyped ==
  ASSUME TypeOK, NEW p \in Procs, Fault(p)
  PROVE  target' \subseteq Nat
<1>1. pid[p] \in Nat
  BY ProcAssumption DEF TypeOK
<1>2. target \subseteq Nat
  BY DEF TypeOK
<1>3. target' = target \cup {pid[p]}
  BY DEF Fault
<1> QED
  BY <1>1, <1>2, <1>3

\* Every step of the scheduler, fork, wait, exit and kill preserves it.
LEMMA NextIInv == IInv /\ [Next]_vars => IInv'
<1> SUFFICES ASSUME IInv, [Next]_vars PROVE IInv'
  OBVIOUS
<1> USE ProcAssumption
        DEF IInv, TypeOK, SwitchState, OnCpu, StatePc, WaitLockHeld, Forking,
            InitStays, Parents, Told, Waits, Marks, States, Switch, PCs,
            Goto, Locked, fields
<1>1. ASSUME NEW p \in Procs, NEW c \in CPUs, Dispatch(c, p) PROVE IInv'
  BY <1>1 DEF Dispatch
<1>2. ASSUME NEW p \in Procs, Enter(p) PROVE IInv'
  BY <1>2 DEF Enter
<1>3. ASSUME NEW p \in Procs, Yield(p) PROVE IInv'
  BY <1>3 DEF Yield
<1>4. ASSUME NEW p \in Procs, NEW c \in CPUs, SwitchOut(c, p) PROVE IInv'
  BY <1>4 DEF SwitchOut
\* The entry q was no one's np, and a mark on it comes from kill(0).
<1>5. ASSUME NEW p \in Procs, NEW q \in Procs, ForkAlloc(p, q) PROVE IInv'
  <2> USE <1>5 DEF ForkAlloc
  <2>1. pid[q] = 0 /\ \A r \in Procs : np[r] # q
    OBVIOUS
  <2>2. TypeOK' /\ SwitchState' /\ OnCpu' /\ WaitLockHeld'
    OBVIOUS
  <2>3. StatePc' /\ InitStays'
    OBVIOUS
  <2>4. Forking'
    BY <2>1
  <2>5. Parents' /\ Told'
    OBVIOUS
  <2>6. Marks'
    BY <2>1
  <2> QED
    BY <2>2, <2>3, <2>4, <2>5, <2>6
<1>6. ASSUME NEW p \in Procs, NEW q \in Procs, ForkFail(p, q) PROVE IInv'
  BY <1>6 DEF ForkFail
<1>7. ASSUME NEW p \in Procs, ForkParent(p) PROVE IInv'
  BY <1>7 DEF ForkParent
\* The child has a parent that is alive: p itself.
<1>8. ASSUME NEW p \in Procs, ForkReady(p) PROVE IInv'
  <2> USE <1>8 DEF ForkReady
  <2>1. np[p] \in Procs /\ state[np[p]] = "USED" /\ parent[np[p]] = p
    OBVIOUS
  <2>2. TypeOK' /\ SwitchState' /\ OnCpu' /\ StatePc' /\ WaitLockHeld'
    BY <2>1
  <2>3. Forking' /\ InitStays'
    BY <2>1
  <2>4. Parents'
    BY <2>1
  <2>5. Told' /\ Marks'
    BY <2>1
  <2> QED
    BY <2>2, <2>3, <2>4, <2>5
<1>9. ASSUME NEW p \in Procs, CallWait(p) PROVE IInv'
  BY <1>9 DEF CallWait
<1>10. ASSUME NEW p \in Procs, WaitLock(p) PROVE IInv'
  BY <1>10 DEF WaitLock
\* A zombie is no one's parent, no one's np and on no CPU.
<1>11. ASSUME NEW p \in Procs, NEW z \in Procs, Reap(p, z) PROVE IInv'
  <2> USE <1>11 DEF Reap, Children
  <2>1. sw[z] = "off" /\ z # initproc /\ z # p
    OBVIOUS
  <2>2. \A r \in Procs : parent[r] # z /\ np[r] # z
    OBVIOUS
  <2>3. TypeOK' /\ SwitchState' /\ OnCpu'
    BY <2>1
  <2>4. StatePc' /\ WaitLockHeld' /\ InitStays'
    BY <2>1
  <2>5. Forking'
    BY <2>1, <2>2
  <2>6. Parents'
    BY <2>1, <2>2
  <2>7. Told'
    BY <2>1, <2>2
  <2>8. Marks'
    BY <2>1
  <2> QED
    BY <2>3, <2>4, <2>5, <2>6, <2>7, <2>8
<1>12. ASSUME NEW p \in Procs, WaitFault(p) PROVE IInv'
  BY <1>12 DEF WaitFault, Children
<1>13. ASSUME NEW p \in Procs, WaitFail(p) PROVE IInv'
  BY <1>13 DEF WaitFail, Children
\* p begins to wait, and wait_lock keeps its children from exiting.
<1>14. ASSUME NEW p \in Procs, WaitPrepare(p) PROVE IInv'
  <2> USE <1>14 DEF WaitPrepare, Children
  <2>1. \A z \in Procs : parent[z] = p => pc[z] # "zombie"
    OBVIOUS
  <2>2. TypeOK' /\ SwitchState' /\ OnCpu' /\ StatePc' /\ WaitLockHeld'
    OBVIOUS
  <2>3. Forking' /\ InitStays' /\ Parents' /\ Marks'
    OBVIOUS
  <2>4. Told'
    BY <2>1
  <2> QED
    BY <2>2, <2>3, <2>4
<1>15. ASSUME NEW p \in Procs, Sleep(p) PROVE IInv'
  BY <1>15 DEF Sleep
<1>16. ASSUME NEW p \in Procs, CallExit(p) PROVE IInv'
  BY <1>16 DEF CallExit
<1>17. ASSUME NEW p \in Procs, ExitLock(p) PROVE IInv'
  BY <1>17 DEF ExitLock
\* The first process inherits the children and is told of them.
<1>18. ASSUME NEW p \in Procs, Reparent(p) PROVE IInv'
  <2> USE <1>18 DEF Reparent, Children, Wakeup
  <2>1. wait_lock = p /\ p # initproc /\ np[p] = NoProc
    OBVIOUS
  <2>2. \A r \in Procs : parent[r] = p => state[r] \notin {"UNUSED", "USED"}
    BY <2>1
  <2>3. state' \in [Procs -> States] /\ chan' \in [Procs -> BOOLEAN]
    <3> HIDE DEF Children, Wakeup
    <3>1. CASE Children(p) = {}
      BY <3>1
    <3>2. CASE Children(p) # {}
      BY <3>2, WakeupTyped
    <3> QED
      BY <3>1, <3>2
  <2>4. parent' \in [Procs -> Procs \cup {NoProc}]
    OBVIOUS
  <2>5. TypeOK'
    BY <2>3, <2>4
  <2>6. SwitchState' /\ OnCpu' /\ StatePc' /\ WaitLockHeld'
    BY <2>1, <2>2
  <2>7. Forking'
    BY <2>1, <2>2
  <2>8. InitStays' /\ Marks'
    BY <2>1
  <2>9. Parents'
    BY <2>1, <2>2
  <2>10. Told'
    BY <2>1, <2>2
  <2> QED
    BY <2>3, <2>4, <2>5, <2>6, <2>7, <2>8, <2>9, <2>10
\* From here on the parent of p does not wait.
<1>19. ASSUME NEW p \in Procs, WakeParent(p) PROVE IInv'
  <2> USE <1>19 DEF WakeParent, Wakeup
  <2>1. parent[p] \in Procs /\ parent[p] # p
    OBVIOUS
  <2>2. TypeOK' /\ SwitchState' /\ OnCpu' /\ StatePc' /\ WaitLockHeld'
    BY <2>1
  <2>3. Forking' /\ InitStays' /\ Parents' /\ Marks'
    BY <2>1
  <2>4. Told'
    BY <2>1
  <2> QED
    BY <2>2, <2>3, <2>4
<1>20. ASSUME NEW p \in Procs, BecomeZombie(p) PROVE IInv'
  BY <1>20 DEF BecomeZombie
<1>21. ASSUME NEW p \in Procs, NEW i \in KillArgs, NEW q \in Procs,
            Kill(p, i, q) PROVE IInv'
  BY <1>21 DEF Kill
<1>22. ASSUME NEW p \in Procs, Fault(p) PROVE IInv'
  <2> USE <1>22 DEF Fault
  <2>1. TypeOK'
    BY FaultTyped
  <2>2. (SwitchState /\ OnCpu /\ StatePc /\ WaitLockHeld /\ Forking)'
    OBVIOUS
  <2>3. (InitStays /\ Parents /\ Told /\ Marks)'
    OBVIOUS
  <2> QED
    BY <2>1, <2>2, <2>3
<1>23. CASE UNCHANGED vars
  BY <1>23 DEF vars
<1> QED
  BY <1>1, <1>2, <1>3, <1>4, <1>5, <1>6, <1>7, <1>8, <1>9, <1>10, <1>11,
     <1>12, <1>13, <1>14, <1>15, <1>16, <1>17, <1>18, <1>19, <1>20, <1>21,
     <1>22, <1>23 DEF Next, Run, Leave, Step

\* The invariant holds in every reachable state.
LEMMA Invariant == Spec => []IInv
  BY InitIInv, NextIInv, PTL DEF Spec
-----------------------------------------------------------------------------
(* The process table, the c->proc fields and wait_lock keep their types. *)
THEOREM TypeCorrect == Spec => []TypeOK
<1>1. IInv => TypeOK
  BY DEF IInv
<1> QED
  BY <1>1, Invariant, PTL

(* However the CPUs' schedulers race for processes, no kernel stack is used *)
(* by two of them and none after freeproc(): sched() keeps p->lock until    *)
(* swtch() has left the stack.                                              *)
THEOREM StacksSafe == Spec => []OneStack
<1>1. IInv => OneStack
  BY ProcAssumption DEF IInv, TypeOK, SwitchState, OnCpu, OneStack, Switch
<1> QED
  BY <1>1, Invariant, PTL

(* No exit is missed by a parent in kwait(), its own children's or those    *)
(* that reparent() hands to the first process, for any number of processes. *)
THEOREM ExitsSeen == Spec => []NoLostChild
<1>1. IInv => NoLostChild
  BY ProcAssumption
  DEF IInv, TypeOK, StatePc, Told, Waits, NoLostChild, Children
<1> QED
  BY <1>1, Invariant, PTL

(* fork(), exit() and wait() never leave a process without a parent that    *)
(* can reap it.                                                             *)
THEOREM ParentsLive == Spec => []ParentAlive
<1>1. IInv => ParentAlive
  BY DEF IInv, TypeOK, Parents, ParentAlive
<1> QED
  BY <1>1, Invariant, PTL

(* An entry that is reused does not inherit the mark of its last process:   *)
(* freeproc() clears it, and only kill(0) marks a free entry.               *)
THEOREM KillsAimed == Spec => []NoStrayKill
<1>1. IInv => NoStrayKill
  BY DEF IInv, Marks, NoStrayKill
<1> QED
  BY <1>1, Invariant, PTL
-----------------------------------------------------------------------------
\* A ready thread has its own stack; that of slot 0 is the one of main, from
\* thread_init() on.
OwnStack ==
  \A s \in Listas :
    IF s # 0 THEN saved[s].stack = s
    ELSE Corriendo # {} => saved[s].stack = MAX_THREADS

\* thread_create() fills the table from below.
FilledFromBelow ==
  \A s, t \in Slots : s < t /\ estado[s] = "LIBRE" => estado[t] = "LIBRE"

ThreadsInv ==
  /\ ThreadsTypeOK /\ RunningIsExecuting /\ OnlyFirstTwoRun
  /\ OwnStack /\ FilledFromBelow

\* The loops over the table stop at the first slot they look for.
LEMMA FirstFound ==
  ASSUME NEW S \in SUBSET Nat, S # {}
  PROVE  First(S) \in S /\ \A t \in S : First(S) <= t
<1>1. PICK R : R = OpToRel(<, Nat)
  OBVIOUS
<1>2. IsWellFoundedOn(R, Nat)
  BY <1>1, NatLessThanWellFounded
<1>3. PICK x \in S : \A y \in S : ~(<<y, x>> \in R)
  BY <1>2, WFMin
<1>4. ASSUME NEW t \in S PROVE x <= t
  <2>1. ~(t < x)
    BY <1>1, <1>3 DEF OpToRel
  <2> QED
    BY <2>1
<1> QED
  BY <1>4 DEF First

\* The table before thread_init().
LEMMA ThreadsStart ==
  ASSUME MAX_THREADS \in Nat \ {0}, ThreadsInit
  PROVE  ThreadsInv
  BY DEF ThreadsInit, ThreadsInv, ThreadsTypeOK, RunningIsExecuting,
         OnlyFirstTwoRun, OwnStack, FilledFromBelow, Listas, Corriendo,
         Slots, Estados, Contexts, Main

\* A thread is created in the first free slot.
LEMMA CreateInv ==
  ASSUME MAX_THREADS \in Nat \ {0}, ThreadsInv, NEW f \in Functions,
         ThreadCreate(f)
  PROVE  ThreadsInv'
<1> USE DEF ThreadsInv, ThreadsTypeOK
<1>1. PICK s : s = First(Libres)
  OBVIOUS
<1>2. /\ s \in Slots /\ estado[s] = "LIBRE" /\ s \in Nat
      /\ \A t \in Slots : estado[t] = "LIBRE" => s <= t
  <2>1. Libres \in SUBSET Nat /\ Libres # {}
    BY DEF Libres, Slots, ThreadCreate
  <2>2. s \in Libres /\ \A t \in Libres : s <= t
    BY <1>1, <2>1, FirstFound
  <2> QED
    BY <2>1, <2>2 DEF Libres
<1>3. PICK c : c = [stack |-> s, code |-> f, at |-> "entry"]
  OBVIOUS
<1>4. /\ saved' = [saved EXCEPT ![s] = c] /\ regs' = regs
      /\ estado' = [estado EXCEPT ![s] = "LISTA_PARA_CORRER"]
  BY <1>1, <1>3 DEF ThreadCreate
<1>5. c \in Contexts /\ c.stack = s /\ c.at = "entry"
  <2>1. s \in 0 .. MAX_THREADS
    BY <1>2 DEF Slots
  <2> QED
    BY <1>3, <2>1 DEF Contexts
<1>6. ThreadsTypeOK'
  BY <1>2, <1>4, <1>5 DEF Estados
<1>7. /\ estado'[s] = "LISTA_PARA_CORRER" /\ saved'[s] = c
      /\ \A t \in Slots : t # s => /\ estado'[t] = estado[t]
                                     /\ saved'[t] = saved[t]
  BY <1>2, <1>4
<1>8. Corriendo' = Corriendo
  BY <1>2, <1>7 DEF Corriendo
<1>9. RunningIsExecuting'
  BY <1>4, <1>8 DEF RunningIsExecuting
<1>10. OnlyFirstTwoRun'
  BY <1>5, <1>7 DEF OnlyFirstTwoRun
<1>11. OwnStack'
  <2> SUFFICES ASSUME NEW t \in Listas'
               PROVE  IF t # 0 THEN saved'[t].stack = t
                      ELSE Corriendo' # {} => saved'[t].stack = MAX_THREADS
    BY DEF OwnStack
  <2>1. t \in Slots /\ estado'[t] = "LISTA_PARA_CORRER"
    BY DEF Listas
  <2>2. CASE t = s /\ s # 0
    BY <1>5, <1>7, <2>2
  <2>3. CASE t = s /\ s = 0
    <3>1. Corriendo = {}
      BY <1>2, <2>3 DEF FilledFromBelow, Corriendo, Slots
    <3> QED
      BY <1>8, <2>3, <3>1
  <2>4. CASE t # s
    BY <1>7, <1>8, <2>1, <2>4 DEF OwnStack, Listas
  <2> QED
    BY <2>2, <2>3, <2>4
<1>12. FilledFromBelow'
  <2> SUFFICES ASSUME NEW t \in Slots, NEW u \in Slots, t < u,
                      estado'[t] = "LIBRE"
               PROVE  estado'[u] = "LIBRE"
    BY DEF FilledFromBelow
  <2>1. t # s /\ estado[t] = "LIBRE" /\ s <= t /\ estado[u] = "LIBRE"
    BY <1>2, <1>7 DEF FilledFromBelow
  <2>2. u # s
    BY <1>2, <2>1 DEF Slots
  <2> QED
    BY <1>7, <2>1, <2>2
<1> QED
  BY <1>6, <1>9, <1>10, <1>11, <1>12

\* main becomes the thread of slot 0.
LEMMA ThreadInitInv ==
  ASSUME MAX_THREADS \in Nat \ {0}, ThreadsInv, ThreadInit
  PROVE  ThreadsInv'
<1> USE DEF ThreadsInv, ThreadsTypeOK
<1>1. /\ estado' = [estado EXCEPT ![0] = "CORRIENDO"]
      /\ saved' = saved /\ regs' = regs /\ Corriendo = {}
      /\ regs.stack = MAX_THREADS
  BY DEF ThreadInit, Main
<1>2. 0 \in Slots
  BY DEF Slots
<1>3. /\ estado'[0] = "CORRIENDO"
      /\ \A t \in Slots : t # 0 => estado'[t] = estado[t]
  BY <1>1, <1>2
<1>4. Corriendo' = {0}
  BY <1>1, <1>2, <1>3 DEF Corriendo
<1>5. RunningIsExecuting'
  BY <1>1, <1>2, <1>4 DEF RunningIsExecuting, StackOf
<1>6. ThreadsTypeOK'
  BY <1>1 DEF Estados
<1>7. OnlyFirstTwoRun'
  BY <1>1, <1>3 DEF OnlyFirstTwoRun
<1>8. OwnStack'
  BY <1>1, <1>3 DEF OwnStack, Listas
<1>9. FilledFromBelow'
  BY <1>3 DEF FilledFromBelow, Slots
<1> QED
  BY <1>5, <1>6, <1>7, <1>8, <1>9

\* thread_schedule() switches between the slots 0 and 1.
LEMMA ScheduleInv ==
  ASSUME MAX_THREADS \in Nat \ {0}, ThreadsInv, ThreadSchedule
  PROVE  ThreadsInv'
<1> USE DEF ThreadsInv, ThreadsTypeOK
<1>1. PICK s : s = First(Listas)
  OBVIOUS
<1>2. PICK x : x = First(Corriendo)
  OBVIOUS
<1>3. /\ s \in Slots /\ estado[s] = "LISTA_PARA_CORRER" /\ s \in Nat
      /\ \A t \in Slots : estado[t] = "LISTA_PARA_CORRER" => s <= t
  <2>1. Listas \in SUBSET Nat /\ Listas # {}
    BY DEF Listas, Slots, ThreadSchedule
  <2>2. s \in Listas /\ \A t \in Listas : s <= t
    BY <1>1, <2>1, FirstFound
  <2> QED
    BY <2>1, <2>2 DEF Listas
<1>4. /\ x \in Slots /\ Corriendo = {x} /\ estado[x] = "CORRIENDO"
      /\ regs.stack = StackOf(x)
  <2>1. Corriendo \in SUBSET Nat /\ Corriendo # {}
    BY DEF Corriendo, Slots, ThreadSchedule
  <2>2. x \in Corriendo
    BY <1>2, <2>1, FirstFound
  <2> QED
    BY <2>1, <2>2 DEF RunningIsExecuting, Corriendo
<1>5. /\ estado' = [estado EXCEPT ![s] = "CORRIENDO",
                                  ![x] = "LISTA_PARA_CORRER"]
      /\ saved' = [saved EXCEPT ![x] = regs] /\ regs' = saved[s]
  BY <1>1, <1>2 DEF ThreadSchedule
<1>6. s # x
  BY <1>3, <1>4
<1>7. /\ estado'[s] = "CORRIENDO" /\ estado'[x] = "LISTA_PARA_CORRER"
      /\ saved'[x] = regs /\ saved'[s] = saved[s]
      /\ \A t \in Slots : t # s /\ t # x => estado'[t] = estado[t]
      /\ \A t \in Slots : t # x => saved'[t] = saved[t]
  BY <1>3, <1>4, <1>5, <1>6
<1>8. x \in {0, 1} /\ s \in {0, 1}
  <2>1. x \in Nat /\ ~(x > 1)
    BY <1>4 DEF OnlyFirstTwoRun, Slots
  <2>2. CASE x = 1
    <3>1. 0 \in Slots /\ estado[0] # "LIBRE"
      BY <1>4, <2>2 DEF FilledFromBelow, Slots
    <3>2. estado[0] = "LISTA_PARA_CORRER"
      BY <1>4, <2>2, <3>1 DEF Estados, Corriendo
    <3>3. s <= 0
      BY <1>3, <3>1, <3>2
    <3> QED
      BY <1>3, <2>2, <3>3
  <2>3. CASE x = 0
    <3>1. s > 0
      BY <1>3, <1>6, <2>3
    <3>2. 1 \in Slots /\ (s = 1 \/ 1 < s)
      BY <1>3, <3>1 DEF Slots
    <3>3. estado[1] = "LISTA_PARA_CORRER"
      BY <1>3, <1>4, <2>3, <3>2
         DEF FilledFromBelow, Estados, Corriendo
    <3>4. s <= 1
      BY <1>3, <3>2, <3>3
    <3> QED
      BY <2>3, <3>1, <3>2, <3>4, <1>3
  <2> QED
    BY <2>1, <2>2, <2>3
<1>9. Corriendo' = {s}
  BY <1>3, <1>4, <1>6, <1>7 DEF Corriendo
<1>10. RunningIsExecuting'
  <2>1. saved[s].stack = StackOf(s)
    BY <1>3, <1>4 DEF OwnStack, Listas, StackOf
  <2> QED
    BY <1>3, <1>5, <1>9, <2>1 DEF RunningIsExecuting
<1>11. ThreadsTypeOK'
  BY <1>3, <1>5 DEF Estados
<1>12. OnlyFirstTwoRun'
  BY <1>7, <1>8 DEF OnlyFirstTwoRun
<1>13. OwnStack'
  <2> SUFFICES ASSUME NEW t \in Listas'
               PROVE  saved'[t].stack = IF t # 0 THEN t ELSE MAX_THREADS
    BY DEF OwnStack
  <2>1. t \in Slots /\ estado'[t] = "LISTA_PARA_CORRER"
    BY DEF Listas
  <2>2. CASE t = x
    BY <1>4, <1>7, <2>2 DEF StackOf
  <2>3. CASE t # x
    <3>1. t # s
      BY <1>7, <2>1
    <3> QED
      BY <1>4, <1>7, <2>1, <2>3, <3>1 DEF OwnStack, Listas
  <2> QED
    BY <2>2, <2>3
<1>14. FilledFromBelow'
  <2>1. \A t \in Slots : estado'[t] = "LIBRE" <=> estado[t] = "LIBRE"
    BY <1>3, <1>4, <1>7
  <2> QED
    BY <2>1 DEF FilledFromBelow
<1> QED
  BY <1>10, <1>11, <1>12, <1>13, <1>14

\* What a thread does by itself leaves its stack and the table alone.
LEMMA RunsInv ==
  ASSUME ThreadsInv, EnterFunction \/ FunctionReturns
  PROVE  ThreadsInv'
<1> USE DEF ThreadsInv, ThreadsTypeOK
<1>1. /\ estado' = estado /\ saved' = saved
      /\ regs' = [regs EXCEPT !.at = "body"]
         \/ regs' = [regs EXCEPT !.at = "entry"]
      /\ regs # Main("body")
  BY DEF EnterFunction, FunctionReturns, Main
<1>2. regs' \in Contexts /\ regs'.stack = regs.stack
  BY <1>1 DEF Contexts
<1>3. RunningIsExecuting'
  BY <1>1, <1>2 DEF RunningIsExecuting, Corriendo
<1> QED
  BY <1>1, <1>2, <1>3
     DEF OnlyFirstTwoRun, OwnStack, FilledFromBelow, Listas, Corriendo

\* user/threads.c, for any size of the table and any functions: the thread
\* that is CORRIENDO is the one that executes, no two threads run on one
\* stack, and only those in the first two slots ever run.
THEOREM ThreadsAreSound == ThreadsSpec => []ThreadsSound
<1> USE ThreadsAssumption
<1>1. ThreadsInit => ThreadsInv
  BY ThreadsStart
<1>2. ThreadsInv /\ [ThreadsNext]_threadsVars => ThreadsInv'
  <2> SUFFICES ASSUME ThreadsInv, [ThreadsNext]_threadsVars PROVE ThreadsInv'
    OBVIOUS
  <2>1. ASSUME NEW f \in Functions, ThreadCreate(f) PROVE ThreadsInv'
    BY <2>1, CreateInv
  <2>2. CASE ThreadInit
    BY <2>2, ThreadInitInv
  <2>3. CASE ThreadSchedule
    BY <2>3, ScheduleInv
  <2>4. CASE EnterFunction \/ FunctionReturns
    BY <2>4, RunsInv
  <2>5. CASE UNCHANGED threadsVars
    BY <2>5 DEF threadsVars, ThreadsInv, ThreadsTypeOK, RunningIsExecuting,
         OnlyFirstTwoRun, OwnStack, FilledFromBelow, Listas, Corriendo
  <2> QED
    BY <2>1, <2>2, <2>3, <2>4, <2>5 DEF ThreadsNext
<1>3. ThreadsInv => ThreadsSound
  <2> SUFFICES ASSUME ThreadsInv PROVE ThreadsSound
    OBVIOUS
  <2>1. StacksSeparate
    BY DEF ThreadsInv, OwnStack, StacksSeparate, StackOf
  <2> QED
    BY <2>1 DEF ThreadsInv, ThreadsSound
<1> QED
  BY <1>1, <1>2, <1>3, PTL DEF ThreadsSpec
-----------------------------------------------------------------------------
\* Only the last process of the chain of user/primes.c has no child, and one
\* that has exited leaves nobody behind it.
Chained ==
  /\ place[0] \in {"fork", "parent", "send", "wait", "exited"}
  /\ \A k \in Stages : place[k] = "send" => k = 0
  /\ \A k, l \in Stages :
       k < l /\ place[k] \in {"unborn", "child", "first", "fork"} =>
         place[l] = "unborn"
  /\ \A k, l \in Stages :
       k < l /\ place[k] = "exited" => place[l] \in {"unborn", "exited"}
  /\ \A k \in Stages :
       place[k] \in {"parent", "send", "filter", "write", "wait"} =>
         k + 1 \in Stages /\ place[k + 1] # "unborn"

\* Every process that has read a number has printed its first one.
Printed ==
  /\ Len(out) \in Stages
  /\ \A k \in Stages :
       place[k] \in {"unborn", "child", "first"} => k > Len(out)
  /\ \A k \in Stages : k > Len(out) /\ k > 0 =>
       place[k] \in {"unborn", "child", "first", "exited"} /\ numero[k] = 0
  /\ \A k \in Stages : k > Len(out) + 1 => place[k] = "unborn"
  /\ \A k \in 1 .. Len(out) : primo[k] = out[k]

\* Who has the ends of a pipe open.
Writer(j, k) ==
  \/ k = j - 1 /\ place[k] \in {"parent", "send", "filter", "write"}
  \/ k = j /\ place[k] = "child"
Reader(j, k) ==
  \/ k = j - 1 /\ place[k] = "parent"
  \/ k = j /\ place[k] \in {"child", "first", "fork", "parent", "filter",
                            "write"}
  \/ k = j + 1 /\ place[k] = "child"
Ends ==
  \A j \in Pipes, k \in Stages :
    (k \in wfds[j] <=> Writer(j, k)) /\ (k \in rfds[j] <=> Reader(j, k))

\* Only the last process forks, and nobody goes on in its place.
FailedLast ==
  failed => \A k \in Stages : place[k] \notin {"fork", "child", "first"}

\* The last number that process k has read, and the last one that pipe k has
\* got or that was held back from it.
Lo(k) == IF k > Len(out) THEN 1
         ELSE IF numero[k] = 0 THEN primo[k] ELSE numero[k]
Hi(k) == IF k = 1 THEN (IF numero[0] = 0 THEN 1 ELSE numero[0] - 1)
         ELSE IF place[k - 1] = "write" THEN numero[k - 1] - 1
         ELSE Lo(k - 1)

\* The numbers that no process before k drops.
Pass(k) == {x \in 2 .. Limit : \A i \in 1 .. k - 1 : x % out[i] # 0}

\* Pipe j holds those that are on their way, in order.
FlowOf(s, lo, hi, P) ==
  /\ lo >= 1 /\ lo <= hi
  /\ \A x \in Numbers : x \in Range(s) <=> x \in P /\ lo < x /\ x <= hi
  /\ \A a, b \in DOMAIN s : a < b => s[a] < s[b]
Flow(j) == FlowOf(pipe[j], Lo(j), Hi(j), Pass(j))
Flows ==
  /\ ~failed => \A j \in 1 .. Len(out) + 1 : Flow(j)
  /\ \A j \in Pipes : j > Len(out) + 1 => pipe[j] = <<>>

\* The number that a process is about to send.
InHand ==
  /\ \A k \in Stages : place[k] = "write" =>
       numero[k] \in Numbers /\ (~failed => numero[k] \in Pass(k + 1))
  /\ place[0] = "send" => numero[0] >= 2
  /\ place[0] \in {"fork", "parent"} => numero[0] = 0

\* A process that has seen the end of its numbers has sent all there are.
Drained ==
  ~failed =>
    /\ \A k \in Stages : k > 0 /\ place[k] \in {"wait", "exited"} =>
         place[k - 1] \in {"wait", "exited"}
    /\ \A k \in Stages : place[k] \in {"wait", "exited"} /\ k <= Len(out) =>
         \A x \in Pass(k + 1) : x <= Hi(k + 1)
    /\ \A k \in Stages : place[k] = "exited" /\ k <= Len(out) =>
         k + 1 \in Stages /\ place[k + 1] = "exited"
    /\ \A k \in Stages : place[k] = "exited" /\ k = Len(out) + 1 =>
         Pass(k) = {}

\* What has been printed.
InOrder ==
  /\ \A i \in DOMAIN out : IsPrime(out[i])
  /\ \A i, j \in DOMAIN out : i < j => out[i] < out[j]
  /\ \A x \in Numbers : IsPrime(x) /\ x \notin Range(out) =>
       \A i \in DOMAIN out : out[i] < x

SieveControl == SieveTypeOK /\ Chained /\ Printed /\ FailedLast
SieveInv ==
  SieveControl /\ Ends /\ Flows /\ InHand /\ Drained /\ InOrder
-----------------------------------------------------------------------------
\* Where the processes of the chain are.
LEMMA ChainSizes ==
  /\ MaxProcs \in Nat /\ MaxProcs >= 1 /\ Limit \in Nat /\ Limit >= 1
  /\ 0 \in Stages /\ Stages \subseteq Nat
  /\ \A k \in Stages : k + 1 \in Pipes
  /\ \A k \in Stages : k > 0 => k \in Pipes /\ k - 1 \in Stages
  /\ \A j \in Pipes : j \in Nat /\ j > 0 /\ j - 1 \in Stages
  BY SieveAssumption DEF Stages, Pipes

\* Only the last process that runs can fork or read its first number.
LEMMA LastForks ==
  ASSUME SieveControl, NEW k \in Stages
  PROVE  /\ Len(out) \in Nat /\ out \in Seq(Numbers)
         /\ place[k] = "fork" => k = Len(out) /\ ~failed
         /\ place[k] \in {"child", "first"} =>
              k = Len(out) + 1 /\ ~failed /\ numero[k] = 0
<1> USE DEF SieveControl
<1>1. Len(out) \in Nat /\ out \in Seq(Numbers) /\ Len(out) \in Stages
  BY ChainSizes DEF SieveTypeOK, Printed
<1>2. k \in Nat /\ Len(out) \in Nat
  BY <1>1, ChainSizes
<1>3. ASSUME place[k] = "fork" PROVE k = Len(out) /\ ~failed
  <2>1. ~failed
    BY <1>3 DEF FailedLast
  <2>2. ~(k > Len(out))
    <3>1. k > Len(out) => k > 0
      BY <1>2
    <3> QED
      BY <1>3, <3>1 DEF Printed
  <2>3. ~(k < Len(out))
    <3> SUFFICES ASSUME k < Len(out) PROVE FALSE
      OBVIOUS
    <3>1. place[Len(out)] = "unborn"
      BY <1>1, <1>3 DEF Chained
    <3> QED
      BY <1>1, <1>2, <3>1 DEF Printed
  <2> QED
    BY <1>2, <2>1, <2>2, <2>3
<1>4. ASSUME place[k] \in {"child", "first"}
      PROVE  k = Len(out) + 1 /\ ~failed /\ numero[k] = 0
  <2>1. ~failed
    BY <1>4 DEF FailedLast
  <2>2. k > Len(out) /\ ~(k > Len(out) + 1)
    BY <1>4 DEF Printed
  <2>3. numero[k] = 0
    BY <1>2, <2>2 DEF Printed
  <2> QED
    BY <1>2, <2>1, <2>2, <2>3
<1> QED
  BY <1>1, <1>3, <1>4

\* A step that moves process k only keeps the control of the chain.
LEMMA MoveControl ==
  ASSUME SieveControl, NEW k \in Stages, NEW to \in Places,
         place' = [place EXCEPT ![k] = to],
         out' = out, primo' = primo, failed' = failed, SieveTypeOK',
         \A l \in Stages : l > Len(out) /\ l > 0 => numero'[l] = numero[l],
         \/ place[k] = "parent" /\ to = IF k = 0 THEN "send" ELSE "filter"
         \/ place[k] = "child" /\ k > 0 /\ to = "first"
         \/ place[k] = "filter" /\ to \in {"filter", "write", "wait"}
         \/ place[k] = "write" /\ to = "filter"
         \/ place[k] = "send" /\ to \in {"send", "wait"}
         \/ place[k] = "first" /\ k > 0 /\ to = "exited"
         \/ place[k] = "wait" /\ to = "exited" /\ place[k + 1] = "exited"
  PROVE  SieveControl'
<1> USE DEF SieveControl
<1>1. /\ place'[k] = to /\ k \in Nat /\ 0 \in Stages
      /\ \A l \in Stages : l # k => place'[l] = place[l]
      /\ \A l \in Stages : l \in Nat
  BY ChainSizes DEF SieveTypeOK
<1>2. Chained'
  <2>1. place'[0] \in {"fork", "parent", "send", "wait", "exited"}
    BY <1>1 DEF Chained
  <2>2. \A l \in Stages : place'[l] = "send" => l = 0
    BY <1>1 DEF Chained
  <2>3. ASSUME NEW l \in Stages, NEW m \in Stages, l < m,
               place'[l] \in {"unborn", "child", "first", "fork"}
        PROVE  place'[m] = "unborn"
    <3>1. place[l] \in {"unborn", "child", "first", "fork"}
      BY <1>1, <2>3
    <3>2. place[m] = "unborn"
      BY <2>3, <3>1 DEF Chained
    <3> QED
      BY <1>1, <3>2
  <2>4. ASSUME NEW l \in Stages, NEW m \in Stages, l < m, place'[l] = "exited"
        PROVE  place'[m] \in {"unborn", "exited"}
    <3>1. CASE l # k
      <4>1. place[m] \in {"unborn", "exited"}
        BY <1>1, <2>4, <3>1 DEF Chained
      <4> QED
        BY <1>1, <4>1
    <3>2. CASE l = k
      <4>1. place'[m] = place[m]
        BY <1>1, <2>4, <3>2
      <4>2. CASE place[k] = "first"
        BY <2>4, <3>2, <4>1, <4>2 DEF Chained
      <4>3. CASE place[k] = "wait" /\ place[k + 1] = "exited"
        <5>1. m = k + 1 \/ k + 1 < m
          BY <1>1, <2>4, <3>2
        <5>2. k + 1 \in Stages
          BY <4>3 DEF Chained
        <5>3. CASE k + 1 < m
          BY <4>1, <4>3, <5>2, <5>3 DEF Chained
        <5> QED
          BY <4>1, <4>3, <5>1, <5>3
      <4>4. CASE place[k] = "exited"
        BY <2>4, <3>2, <4>1, <4>4 DEF Chained
      <4> QED
        BY <1>1, <2>4, <3>2, <4>2, <4>3, <4>4
    <3> QED
      BY <3>1, <3>2
  <2>5. ASSUME NEW l \in Stages,
               place'[l] \in {"parent", "send", "filter", "write", "wait"}
        PROVE  l + 1 \in Stages /\ place'[l + 1] # "unborn"
    <3>1. place[l] \in {"parent", "send", "filter", "write", "wait"}
      BY <1>1, <2>5
    <3>2. l + 1 \in Stages /\ place[l + 1] # "unborn"
      BY <3>1 DEF Chained
    <3> QED
      BY <1>1, <3>2
  <2> HIDE DEF SieveControl
  <2>6. \A l, m \in Stages :
          l < m /\ place'[l] \in {"unborn", "child", "first", "fork"} =>
            place'[m] = "unborn"
    BY <2>3
  <2>7. \A l, m \in Stages : l < m /\ place'[l] = "exited" =>
          place'[m] \in {"unborn", "exited"}
    BY <2>4
  <2> QED
    BY <2>1, <2>2, <2>5, <2>6, <2>7 DEF Chained
<1>3. Printed'
  <2>1. ASSUME NEW l \in Stages, place'[l] \in {"unborn", "child", "first"}
        PROVE  l > Len(out)
    <3>1. place[l] \in {"unborn", "child", "first"}
      BY <1>1, <2>1
    <3> QED
      BY <3>1 DEF Printed
  <2>2. ASSUME NEW l \in Stages, l > Len(out), l > 0
        PROVE  /\ place'[l] \in {"unborn", "child", "first", "exited"}
               /\ numero'[l] = 0
    <3>1. /\ place[l] \in {"unborn", "child", "first", "exited"}
          /\ numero'[l] = 0
      BY <2>2 DEF Printed
    <3> QED
      BY <1>1, <3>1
  <2>3. ASSUME NEW l \in Stages, l > Len(out) + 1 PROVE place'[l] = "unborn"
    <3>1. place[l] = "unborn"
      BY <2>3 DEF Printed
    <3> QED
      BY <1>1, <3>1
  <2> QED
    BY <2>1, <2>2, <2>3 DEF Printed
<1>4. FailedLast'
  BY <1>1 DEF FailedLast
<1> QED
  BY <1>2, <1>3, <1>4

\* The types.  The ends of the pipes stay sets of processes.
LEMMA CloseTyped ==
  ASSUME NEW f \in [Pipes -> SUBSET Stages], NEW j, NEW k
  PROVE  /\ CloseEnd(f, j, k) \in [Pipes -> SUBSET Stages]
         /\ CloseAll(f, k) \in [Pipes -> SUBSET Stages]
  BY DEF CloseEnd, CloseAll

LEMMA WriteTyped ==
  ASSUME SieveTypeOK, NEW j \in Pipes, NEW x \in Numbers, WritePipe(j, x)
  PROVE  /\ pipe' \in [Pipes -> Seq(Numbers)]
         /\ \A l \in Pipes : Len(pipe'[l]) <= Capacity
<1>1. CASE rfds[j] = {}
  BY <1>1 DEF WritePipe, SieveTypeOK
<1>2. CASE rfds[j] # {}
  <2>1. /\ pipe[j] \in Seq(Numbers) /\ Len(pipe[j]) < Capacity
        /\ pipe' = [pipe EXCEPT ![j] = Append(pipe[j], x)]
    BY <1>2 DEF WritePipe, SieveTypeOK
  <2>2. /\ Append(pipe[j], x) \in Seq(Numbers)
        /\ Len(Append(pipe[j], x)) = Len(pipe[j]) + 1
    BY <2>1
  <2>3. Len(pipe[j]) \in Nat /\ Capacity \in Nat
    BY <2>1, SieveAssumption
  <2>4. Len(Append(pipe[j], x)) <= Capacity
    BY <2>1, <2>2, <2>3
  <2> QED
    BY <2>1, <2>2, <2>4 DEF SieveTypeOK
<1> QED
  BY <1>1, <1>2

LEMMA ReadTyped ==
  ASSUME SieveTypeOK, NEW j \in Pipes, pipe[j] # <<>>,
         pipe' = [pipe EXCEPT ![j] = Tail(pipe[j])]
  PROVE  /\ pipe' \in [Pipes -> Seq(Numbers)]
         /\ \A l \in Pipes : Len(pipe'[l]) <= Capacity
         /\ Head(pipe[j]) \in Numbers
<1>1. pipe[j] \in Seq(Numbers) /\ Len(pipe[j]) <= Capacity
  BY DEF SieveTypeOK
<1>2. /\ Head(pipe[j]) \in Numbers /\ Tail(pipe[j]) \in Seq(Numbers)
      /\ Len(Tail(pipe[j])) = Len(pipe[j]) - 1
  BY <1>1, HeadTailProperties
<1>3. Len(pipe[j]) \in Nat /\ Capacity \in Nat
  BY <1>1, SieveAssumption
<1>4. Len(Tail(pipe[j])) <= Capacity
  BY <1>1, <1>2, <1>3
<1> QED
  BY <1>1, <1>2, <1>4 DEF SieveTypeOK

LEMMA SieveTypes ==
  ASSUME SieveControl, NEW k \in Stages, SieveStep(k),
         place[k] = "write" => numero[k] \in Numbers
  PROVE  SieveTypeOK'
<1>0. SieveTypeOK
  BY DEF SieveControl
<1> DEFINE T(f) == f \in [Pipes -> SUBSET Stages]
<1>a. ASSUME NEW to \in Places, Moves(k, place[k], to)
      PROVE  place' \in [Stages -> Places]
  BY <1>0, <1>a DEF Moves, SieveTypeOK
<1>b. T(rfds) /\ T(wfds)
  BY <1>0 DEF SieveTypeOK
<1>1. CASE Fork(k)
  <2>1. place' \in [Stages -> Places]
    BY <1>0, <1>1 DEF Fork, SieveTypeOK, Places
  <2>2. T(rfds') /\ T(wfds')
    BY <1>b, <1>1 DEF Fork
  <2> QED
    BY <1>0, <1>1, <2>1, <2>2 DEF Fork, SieveTypeOK
<1>2. CASE ForkFails(k)
  <2>1. place' \in [Stages -> Places]
    BY <1>a, <1>2 DEF ForkFails, Moves, Places
  <2>2. T(rfds')
    BY <1>b, <1>2, CloseTyped DEF ForkFails
  <2> QED
    BY <1>0, <1>2, <2>1, <2>2 DEF ForkFails, SieveTypeOK
<1>3. CASE ParentCloses(k)
  <2>1. place' \in [Stages -> Places]
    BY <1>a, <1>3 DEF ParentCloses, Moves, Places
  <2>2. T(rfds')
    BY <1>b, <1>3, CloseTyped DEF ParentCloses
  <2>3. 2 \in 0 .. Limit + 1
    BY ChainSizes
  <2>4. numero' \in [Stages -> 0 .. Limit + 1]
    BY <1>0, <1>3, <2>3 DEF ParentCloses, SieveTypeOK
  <2> QED
    BY <1>0, <1>3, <2>1, <2>2, <2>4 DEF ParentCloses, SieveTypeOK
<1>4. CASE k = 0 /\ Send
  <2>1. numero[0] \in 0 .. Limit + 1 /\ numero[0] <= Limit
    BY <1>0, <1>4 DEF Send, SieveTypeOK
  <2>2. /\ numero[0] \in Numbers /\ 1 \in Pipes
        /\ numero[0] + 1 \in 0 .. Limit + 1
    BY <2>1, ChainSizes DEF Numbers, Pipes
  <2>3. /\ pipe' \in [Pipes -> Seq(Numbers)]
        /\ \A l \in Pipes : Len(pipe'[l]) <= Capacity
    BY <1>0, <1>4, <2>2, WriteTyped DEF Send
  <2>4. numero' \in [Stages -> 0 .. Limit + 1]
    BY <1>0, <1>4, <2>2 DEF Send, SieveTypeOK
  <2> QED
    BY <1>0, <1>4, <2>3, <2>4 DEF Send, SieveTypeOK
<1>5. CASE k = 0 /\ SendDone
  <2>1. place' \in [Stages -> Places]
    BY <1>a, <1>5 DEF SendDone, Moves, Places
  <2>2. T(wfds')
    BY <1>b, <1>5, CloseTyped DEF SendDone
  <2> QED
    BY <1>0, <1>5, <2>1, <2>2 DEF SendDone, SieveTypeOK
<1>6. CASE k > 0 /\ ChildCloses(k)
  <2>1. place' \in [Stages -> Places]
    BY <1>a, <1>6 DEF ChildCloses, Moves, Places
  <2>2. T(wfds') /\ T(rfds')
    BY <1>b, <1>6, CloseTyped DEF ChildCloses
  <2> QED
    BY <1>0, <1>6, <2>1, <2>2 DEF ChildCloses, SieveTypeOK
<1>7. CASE k > 0 /\ FirstRead(k)
  <2>1. place' \in [Stages -> Places]
    BY <1>a, <1>7 DEF FirstRead, Moves, Places
  <2>2. k \in Pipes
    BY <1>7, ChainSizes
  <2>3. /\ pipe' \in [Pipes -> Seq(Numbers)]
        /\ \A l \in Pipes : Len(pipe'[l]) <= Capacity
        /\ Head(pipe[k]) \in Numbers
    BY <1>0, <1>7, <2>2, ReadTyped DEF FirstRead
  <2>4. primo' \in [Stages -> Numbers] /\ out' \in Seq(Numbers)
    BY <1>0, <1>7, <2>3 DEF FirstRead, SieveTypeOK
  <2> QED
    BY <1>0, <1>7, <2>1, <2>3, <2>4 DEF FirstRead, SieveTypeOK
<1>8. CASE k > 0 /\ FirstEnd(k)
  <2>1. place' \in [Stages -> Places]
    BY <1>a, <1>8 DEF FirstEnd, Moves, Places
  <2>2. T(rfds')
    BY <1>b, <1>8, CloseTyped DEF FirstEnd
  <2> QED
    BY <1>0, <1>8, <2>1, <2>2 DEF FirstEnd, SieveTypeOK
<1>9. CASE k > 0 /\ Filter(k)
  <2>1. place' \in [Stages -> Places]
    BY <1>0, <1>9 DEF Filter, SieveTypeOK, Places
  <2>2. k \in Pipes
    BY <1>9, ChainSizes
  <2>3. /\ pipe' \in [Pipes -> Seq(Numbers)]
        /\ \A l \in Pipes : Len(pipe'[l]) <= Capacity
        /\ Head(pipe[k]) \in Numbers
    BY <1>0, <1>9, <2>2, ReadTyped DEF Filter
  <2>4. Head(pipe[k]) \in 0 .. Limit + 1
    BY <2>3, ChainSizes DEF Numbers
  <2>5. numero' \in [Stages -> 0 .. Limit + 1]
    BY <1>0, <1>9, <2>4 DEF Filter, SieveTypeOK
  <2> QED
    BY <1>0, <1>9, <2>1, <2>3, <2>5 DEF Filter, SieveTypeOK
<1>10. CASE k > 0 /\ FilterWrite(k)
  <2>1. place' \in [Stages -> Places]
    BY <1>a, <1>10 DEF FilterWrite, Moves, Places
  <2>2. k + 1 \in Pipes /\ numero[k] \in Numbers
    BY <1>10, ChainSizes DEF FilterWrite, Moves
  <2>3. /\ pipe' \in [Pipes -> Seq(Numbers)]
        /\ \A l \in Pipes : Len(pipe'[l]) <= Capacity
    BY <1>0, <1>10, <2>2, WriteTyped DEF FilterWrite
  <2> QED
    BY <1>0, <1>10, <2>1, <2>3 DEF FilterWrite, SieveTypeOK
<1>11. CASE k > 0 /\ FilterEnd(k)
  <2>1. place' \in [Stages -> Places]
    BY <1>a, <1>11 DEF FilterEnd, Moves, Places
  <2>2. T(rfds') /\ T(wfds')
    BY <1>b, <1>11, CloseTyped DEF FilterEnd
  <2> QED
    BY <1>0, <1>11, <2>1, <2>2 DEF FilterEnd, SieveTypeOK
<1>12. CASE WaitChild(k)
  <2>1. place' \in [Stages -> Places]
    BY <1>a, <1>12 DEF WaitChild, Moves, Places
  <2> QED
    BY <1>0, <1>12, <2>1 DEF WaitChild, SieveTypeOK
<1> QED
  BY <1>1, <1>2, <1>3, <1>4, <1>5, <1>6, <1>7, <1>8, <1>9, <1>10,
     <1>11, <1>12      DEF SieveStep

\* fork(): the new process is the last one of the chain.
LEMMA ForkControl ==
  ASSUME SieveControl, NEW k \in Stages, Fork(k), SieveTypeOK'
  PROVE  SieveControl'
<1> USE DEF SieveControl
<1>1. k = Len(out) /\ ~failed /\ Len(out) \in Nat
  BY LastForks DEF Fork
<1>2. /\ place[k] = "fork" /\ k + 1 \in Stages /\ k \in Nat /\ 0 \in Stages
      /\ out' = out /\ primo' = primo /\ numero' = numero /\ failed' = failed
      /\ place' = [place EXCEPT ![k] = "parent", ![k + 1] = "child"]
  BY ChainSizes DEF Fork
<1>c. PICK c \in Stages : c = k + 1
  BY <1>2
<1>d. /\ c \in Nat /\ c # k /\ c # 0 /\ k < c
      /\ place' = [place EXCEPT ![k] = "parent", ![c] = "child"]
  BY <1>2, <1>c
<1>e. c \in Nat /\ c # k /\ c # 0 /\ k < c /\ k \in Nat
  BY <1>2, <1>d
<1>3. /\ place'[k] = "parent" /\ place'[c] = "child"
      /\ \A l \in Stages : l # k /\ l # c => place'[l] = place[l]
      /\ \A l \in Stages : l \in Nat
  <2>1. place \in [Stages -> Places] /\ Stages \subseteq Nat
    BY ChainSizes DEF SieveTypeOK
  <2> QED
    BY <1>d, <2>1
<1>4. \A l \in Stages : l > k => place[l] = "unborn"
  BY <1>2 DEF Chained
<1>5. \A l \in Stages : l < k => place[l] \notin {"unborn", "child", "first",
                                                 "fork", "exited"}
  BY <1>2 DEF Chained
<1>6. \A l \in Stages : l < k \/ l = k \/ l = c \/ l > c
  BY <1>2, <1>3, <1>c
<1>7. Chained'
  <2>1. place'[0] \in {"fork", "parent", "send", "wait", "exited"}
    BY <1>2, <1>3, <1>d DEF Chained
  <2>2. \A l \in Stages : place'[l] = "send" => l = 0
    BY <1>3 DEF Chained
  <2>3. \A l, m \in Stages :
          l < m /\ place'[l] \in {"unborn", "child", "first", "fork"} =>
            place'[m] = "unborn"
    <3> SUFFICES ASSUME NEW l \in Stages, NEW m \in Stages, l < m,
                        place'[l] \in {"unborn", "child", "first", "fork"}
                 PROVE  place'[m] = "unborn"
      OBVIOUS
    <3>1. ~(l < k) /\ l # k
      BY <1>3, <1>5, <1>e
    <3>2. m > c
      BY <1>2, <1>3, <1>c, <3>1
    <3> QED
      BY <1>3, <1>4, <1>e, <3>2
  <2>4. \A l, m \in Stages : l < m /\ place'[l] = "exited" =>
          place'[m] \in {"unborn", "exited"}
    <3> SUFFICES ASSUME NEW l \in Stages, NEW m \in Stages, l < m,
                        place'[l] = "exited"
                 PROVE  place'[m] \in {"unborn", "exited"}
      OBVIOUS
    <3>1. ~(l < k) /\ l # k
      BY <1>3, <1>5, <1>e
    <3>2. m > c
      BY <1>2, <1>3, <1>c, <3>1
    <3> QED
      BY <1>3, <1>4, <1>e, <3>2
  <2>5. \A l \in Stages :
          place'[l] \in {"parent", "send", "filter", "write", "wait"} =>
            l + 1 \in Stages /\ place'[l + 1] # "unborn"
    <3> SUFFICES ASSUME NEW l \in Stages,
                   place'[l] \in {"parent", "send", "filter", "write", "wait"}
                 PROVE  l + 1 \in Stages /\ place'[l + 1] # "unborn"
      OBVIOUS
    <3>1. CASE l = k
      BY <1>2, <1>3, <1>c, <3>1
    <3>2. CASE l # k
      <4>1. l < k
        BY <1>3, <1>4, <1>6, <1>e, <3>2
      <4>2. l + 1 \in Stages /\ place[l + 1] # "unborn"
        BY <1>2, <1>3, <1>d, <3>2, <4>1 DEF Chained
      <4> QED
        BY <1>3, <4>1, <4>2
    <3> QED
      BY <3>1, <3>2
  <2> QED
    BY <2>1, <2>2, <2>3, <2>4, <2>5 DEF Chained
<1>8. Printed'
  <2>1. \A l \in Stages : l > k + 1 => place'[l] = "unborn"
    BY <1>3, <1>4, <1>c, <1>e
  <2>2. \A l \in Stages :
          place'[l] \in {"unborn", "child", "first"} => l > Len(out)
    BY <1>1, <1>2, <1>3, <1>d DEF Printed
  <2>3. \A l \in Stages : l > Len(out) /\ l > 0 =>
          /\ place'[l] \in {"unborn", "child", "first", "exited"}
          /\ numero'[l] = 0
    BY <1>1, <1>2, <1>3, <1>d DEF Printed
  <2> QED
    BY <1>1, <1>2, <2>1, <2>2, <2>3 DEF Printed
<1> QED
  BY <1>1, <1>2, <1>7, <1>8 DEF FailedLast

\* The fork() that fails is that of the last process.
LEMMA FailControl ==
  ASSUME SieveControl, NEW k \in Stages, ForkFails(k), SieveTypeOK'
  PROVE  SieveControl'
<1> USE DEF SieveControl
<1>1. k = Len(out) /\ Len(out) \in Nat
  BY LastForks DEF ForkFails, Moves
<1>2. /\ place[k] = "fork" /\ k \in Nat /\ 0 \in Stages
      /\ out' = out /\ primo' = primo /\ numero' = numero
      /\ place' = [place EXCEPT ![k] = "exited"]
  BY ChainSizes DEF ForkFails, Moves
<1>3. /\ place'[k] = "exited" /\ \A l \in Stages : l \in Nat
      /\ \A l \in Stages : l # k => place'[l] = place[l]
  BY <1>2, ChainSizes DEF SieveTypeOK
<1>4. \A l \in Stages : l > k => place[l] = "unborn"
  BY <1>2 DEF Chained
<1>5. \A l \in Stages : l < k => place[l] \notin {"unborn", "child", "first",
                                                 "fork", "exited"}
  BY <1>2 DEF Chained
<1>6. Chained'
  <2>1. place'[0] \in {"fork", "parent", "send", "wait", "exited"}
    BY <1>2, <1>3 DEF Chained
  <2>2. \A l \in Stages : place'[l] = "send" => l = 0
    BY <1>3 DEF Chained
  <2>3. \A l, m \in Stages :
          l < m /\ place'[l] \in {"unborn", "child", "first", "fork"} =>
            place'[m] = "unborn"
    <3> SUFFICES ASSUME NEW l \in Stages, NEW m \in Stages, l < m,
                        place'[l] \in {"unborn", "child", "first", "fork"}
                 PROVE  place'[m] = "unborn"
      OBVIOUS
    <3>1. l > k /\ m > k
      BY <1>2, <1>3, <1>5
    <3> QED
      BY <1>2, <1>3, <1>4, <3>1
  <2>4. \A l, m \in Stages : l < m /\ place'[l] = "exited" =>
          place'[m] \in {"unborn", "exited"}
    <3> SUFFICES ASSUME NEW l \in Stages, NEW m \in Stages, l < m,
                        place'[l] = "exited"
                 PROVE  place'[m] \in {"unborn", "exited"}
      OBVIOUS
    <3>1. m > k
      BY <1>2, <1>3, <1>5
    <3> QED
      BY <1>2, <1>3, <1>4, <3>1
  <2>5. \A l \in Stages :
          place'[l] \in {"parent", "send", "filter", "write", "wait"} =>
            l + 1 \in Stages /\ place'[l + 1] # "unborn"
    BY <1>2, <1>3 DEF Chained
  <2> QED
    BY <2>1, <2>2, <2>3, <2>4, <2>5 DEF Chained
<1>7. Printed'
  BY <1>1, <1>2, <1>3 DEF Printed
<1>8. FailedLast'
  BY <1>2, <1>3, <1>4, <1>5 DEF FailedLast
<1> QED
  BY <1>6, <1>7, <1>8

\* The first number that is read is one more on the list.
LEMMA FirstControl ==
  ASSUME SieveControl, NEW k \in Stages, k > 0, FirstRead(k), SieveTypeOK'
  PROVE  SieveControl' /\ k = Len(out) + 1 /\ Len(out') = k
<1> USE DEF SieveControl
<1>1. k = Len(out) + 1 /\ Len(out) \in Nat /\ ~failed /\ out \in Seq(Numbers)
  BY LastForks DEF FirstRead, Moves
<1>2. PICK h : h = Head(pipe[k])
  OBVIOUS
<1>3. /\ place[k] = "first" /\ k \in Nat /\ 0 \in Stages
      /\ out' = Append(out, h) /\ numero' = numero /\ failed' = failed
      /\ place' = [place EXCEPT ![k] = "fork"]
      /\ primo' = [primo EXCEPT ![k] = h]
  BY <1>2, ChainSizes DEF FirstRead, Moves
<1>4. /\ place'[k] = "fork" /\ \A l \in Stages : l \in Nat
      /\ \A l \in Stages : l # k => place'[l] = place[l]
      /\ primo'[k] = h /\ \A l \in Stages : l # k => primo'[l] = primo[l]
  BY <1>3, ChainSizes DEF SieveTypeOK
<1>5. /\ Len(out') = k /\ out'[k] = h
      /\ \A i \in 1 .. Len(out) : out'[i] = out[i]
  BY <1>1, <1>3, AppendProperties
<1>6. Chained'
  <2>1. place'[0] \in {"fork", "parent", "send", "wait", "exited"}
    BY <1>3, <1>4 DEF Chained
  <2>2. \A l \in Stages : place'[l] = "send" => l = 0
    BY <1>4 DEF Chained
  <2>3. \A l, m \in Stages :
          l < m /\ place'[l] \in {"unborn", "child", "first", "fork"} =>
            place'[m] = "unborn"
    <3> SUFFICES ASSUME NEW l \in Stages, NEW m \in Stages, l < m,
                        place'[l] \in {"unborn", "child", "first", "fork"}
                 PROVE  place'[m] = "unborn"
      OBVIOUS
    <3>1. place[l] \in {"unborn", "child", "first", "fork"}
      BY <1>3, <1>4
    <3>2. place[m] = "unborn"
      BY <3>1 DEF Chained
    <3> QED
      BY <1>3, <1>4, <3>2
  <2>4. \A l, m \in Stages : l < m /\ place'[l] = "exited" =>
          place'[m] \in {"unborn", "exited"}
    <3> SUFFICES ASSUME NEW l \in Stages, NEW m \in Stages, l < m,
                        place'[l] = "exited"
                 PROVE  place'[m] \in {"unborn", "exited"}
      OBVIOUS
    <3>1. place[l] = "exited"
      BY <1>3, <1>4
    <3>2. place[m] \in {"unborn", "exited"}
      BY <3>1 DEF Chained
    <3> QED
      BY <1>3, <1>4, <3>2
  <2>5. \A l \in Stages :
          place'[l] \in {"parent", "send", "filter", "write", "wait"} =>
            l + 1 \in Stages /\ place'[l + 1] # "unborn"
    BY <1>3, <1>4 DEF Chained
  <2> QED
    BY <2>1, <2>2, <2>3, <2>4, <2>5 DEF Chained
<1>7. Printed'
  <2>1. \A l \in Stages :
          place'[l] \in {"unborn", "child", "first"} => l > k
    <3> SUFFICES ASSUME NEW l \in Stages,
                        place'[l] \in {"unborn", "child", "first"}
                 PROVE  l > k
      OBVIOUS
    <3>1. l # k /\ l > Len(out)
      BY <1>3, <1>4 DEF Printed
    <3> QED
      BY <1>1, <1>3, <1>4, <3>1
  <2>2. \A l \in Stages : l > k /\ l > 0 =>
          /\ place'[l] \in {"unborn", "child", "first", "exited"}
          /\ numero'[l] = 0
    BY <1>1, <1>3, <1>4 DEF Printed
  <2>3. \A l \in Stages : l > k + 1 => place'[l] = "unborn"
    BY <1>1, <1>3, <1>4 DEF Printed
  <2>4. \A l \in 1 .. k : primo'[l] = out'[l]
    <3> SUFFICES ASSUME NEW l \in 1 .. k PROVE primo'[l] = out'[l]
      OBVIOUS
    <3>1. CASE l = k
      BY <1>4, <1>5, <3>1
    <3>2. CASE l # k
      <4>1. l \in 1 .. Len(out) /\ l \in Stages
        BY <1>1, <3>2, ChainSizes DEF Stages
      <4> QED
        BY <1>4, <1>5, <3>2, <4>1 DEF Printed
    <3> QED
      BY <3>1, <3>2
  <2> QED
    BY <1>5, <2>1, <2>2, <2>3, <2>4 DEF Printed
<1>8. FailedLast'
  BY <1>1, <1>3 DEF FailedLast
<1> QED
  BY <1>1, <1>5, <1>6, <1>7, <1>8

\* The other steps move one process along.
LEMMA SieveControlStep ==
  ASSUME SieveControl, NEW k \in Stages, SieveStep(k), SieveTypeOK'
  PROVE  SieveControl'
<1>1. CASE Fork(k)
  BY <1>1, ForkControl
<1>2. CASE ForkFails(k)
  BY <1>2, FailControl
<1>3. CASE k > 0 /\ FirstRead(k)
  BY <1>3, FirstControl
<1>4. SieveTypeOK /\ k \in Nat
  BY ChainSizes DEF SieveControl
<1>5. CASE ParentCloses(k)
  <2>1. \A l \in Stages : l > Len(out) /\ l > 0 => numero'[l] = numero[l]
    BY <1>4, <1>5 DEF ParentCloses, SieveTypeOK
  <2> QED
    BY <1>4, <1>5, <2>1, MoveControl DEF ParentCloses, Moves, Places
<1>6. CASE k = 0 /\ (Send \/ SendDone)
  <2>1. \A l \in Stages : l > Len(out) /\ l > 0 => numero'[l] = numero[l]
    BY <1>4, <1>6 DEF Send, SendDone, SieveTypeOK
  <2>2. CASE Send
    <3>1. place' = [place EXCEPT ![0] = "send"]
      BY <1>4, <2>2 DEF Send, SieveTypeOK
    <3> QED
      BY <1>6, <2>1, <2>2, <3>1, MoveControl DEF Send, Places
  <2>3. CASE SendDone
    BY <1>6, <2>1, <2>3, MoveControl DEF SendDone, Moves, Places
  <2> QED
    BY <1>6, <2>2, <2>3
<1>7. CASE k > 0 /\ ChildCloses(k)
  BY <1>7, MoveControl DEF ChildCloses, Moves, Places
<1>8. CASE k > 0 /\ FirstEnd(k)
  BY <1>8, MoveControl DEF FirstEnd, Moves, Places
<1>9. CASE k > 0 /\ Filter(k)
  <2>1. ~(k > Len(out))
    BY <1>9 DEF Filter, SieveControl, Printed
  <2>2. \A l \in Stages : l > Len(out) /\ l > 0 => numero'[l] = numero[l]
    BY <1>4, <1>9, <2>1 DEF Filter, SieveTypeOK
  <2>3. PICK to \in {"write", "filter"} : place' = [place EXCEPT ![k] = to]
    BY <1>9 DEF Filter
  <2>4. /\ place[k] = "filter" /\ out' = out /\ primo' = primo
        /\ failed' = failed
    BY <1>9 DEF Filter
  <2> QED
    BY <2>2, <2>3, <2>4, MoveControl DEF Places
<1>10. CASE k > 0 /\ (FilterWrite(k) \/ FilterEnd(k))
  BY <1>10, MoveControl DEF FilterWrite, FilterEnd, Moves, Places
<1>11. CASE WaitChild(k)
  BY <1>11, MoveControl DEF WaitChild, Moves, Places
<1> QED
  BY <1>1, <1>2, <1>3, <1>5, <1>6, <1>7, <1>8, <1>9, <1>10, <1>11
     DEF SieveStep

\* close() and exit() as sets.
LEMMA Closed ==
  ASSUME NEW f \in [Pipes -> SUBSET Stages], NEW j \in Pipes, NEW k,
         NEW i \in Pipes, NEW l \in Stages
  PROVE  /\ l \in CloseEnd(f, j, k)[i] <=> l \in f[i] /\ ~(i = j /\ l = k)
         /\ l \in CloseAll(f, k)[i] <=> l \in f[i] /\ l # k
  BY DEF CloseEnd, CloseAll

\* Who has which end open, after each step.
LEMMA EndsStep ==
  ASSUME SieveControl, Ends, NEW k \in Stages, SieveStep(k)
  PROVE  Ends'
<1>0. /\ place \in [Stages -> Places] /\ k \in Nat
      /\ rfds \in [Pipes -> SUBSET Stages]
      /\ wfds \in [Pipes -> SUBSET Stages]
  BY ChainSizes DEF SieveControl, SieveTypeOK
<1> SUFFICES ASSUME NEW j \in Pipes, NEW l \in Stages
             PROVE  /\ l \in wfds'[j] <=> Writer(j, l)'
                    /\ l \in rfds'[j] <=> Reader(j, l)'
  BY DEF Ends
<1>a. j \in Nat /\ j > 0 /\ l \in Nat
  BY ChainSizes
<1>b. (l \in wfds[j] <=> Writer(j, l)) /\ (l \in rfds[j] <=> Reader(j, l))
  BY DEF Ends
<1>c. ASSUME NEW to, Moves(k, place[k], to)
      PROVE  place'[l] = IF l = k THEN to ELSE place[l]
  BY <1>0, <1>c DEF Moves
<1>1. CASE Fork(k)
  <2>1. place[k] = "fork" /\ k + 1 \in Stages
    BY <1>1 DEF Fork
  <2>2. /\ k \notin wfds[j]
        /\ k \in rfds[j] <=> j = k
    BY <1>0, <1>a, <2>1 DEF Ends, Writer, Reader
  <2>3. wfds'[j] = IF j = k + 1 THEN wfds[j] \cup {k, k + 1} ELSE wfds[j]
    BY <1>1, <2>2 DEF Fork
  <2>4. rfds'[j] = IF j = k \/ j = k + 1 THEN rfds[j] \cup {k, k + 1}
                   ELSE rfds[j]
    BY <1>1, <2>2 DEF Fork
  <2>5. place[k + 1] = "unborn"
    BY <1>0, <2>1 DEF SieveControl, Chained
  <2>6. place'[l] = IF l = k THEN "parent" ELSE IF l = k + 1 THEN "child"
                    ELSE place[l]
    BY <1>0, <1>1, <2>1 DEF Fork
  <2> QED
    BY <1>0, <1>a, <1>b, <2>1, <2>3, <2>4, <2>5, <2>6 DEF Writer, Reader
<1>2. CASE ForkFails(k)
  <2>1. /\ place[k] = "fork"
        /\ place'[l] = IF l = k THEN "exited" ELSE place[l]
        /\ wfds' = wfds /\ rfds' = CloseAll(rfds, k)
    BY <1>2, <1>c DEF ForkFails, Moves
  <2>2. l \in rfds'[j] <=> l \in rfds[j] /\ l # k
    BY <1>0, <2>1, Closed
  <2> QED
    BY <1>0, <1>a, <1>b, <2>1, <2>2 DEF Writer, Reader
<1>3. CASE ParentCloses(k)
  <2>1. PICK to : /\ to = (IF k = 0 THEN "send" ELSE "filter")
                  /\ Moves(k, "parent", to)
    BY <1>3 DEF ParentCloses
  <2>2. /\ place[k] = "parent" /\ place'[l] = IF l = k THEN to ELSE place[l]
        /\ wfds' = wfds /\ rfds' = CloseEnd(rfds, k + 1, k)
    BY <1>3, <1>c, <2>1 DEF ParentCloses, Moves
  <2>3. k + 1 \in Pipes
    BY ChainSizes
  <2>4. l \in rfds'[j] <=> l \in rfds[j] /\ ~(j = k + 1 /\ l = k)
    <3>1. PICK n \in Pipes : n = k + 1
      BY <2>3
    <3>2. rfds' = CloseEnd(rfds, n, k)
      BY <2>2, <3>1
    <3>3. l \in CloseEnd(rfds, n, k)[j] <=>
            l \in rfds[j] /\ ~(j = n /\ l = k)
      BY <1>0, Closed
    <3> QED
      BY <3>1, <3>2, <3>3
  <2> QED
    BY <1>0, <1>a, <1>b, <2>1, <2>2, <2>4 DEF Writer, Reader
<1>4. CASE k = 0 /\ Send
  BY <1>4, <1>b DEF Send, Writer, Reader
<1>5. CASE k = 0 /\ SendDone
  <2>1. /\ place[k] = "send" /\ place'[l] = IF l = k THEN "wait" ELSE place[l]
        /\ wfds' = CloseEnd(wfds, 1, 0) /\ rfds' = rfds
    BY <1>5, <1>c DEF SendDone, Moves
  <2>2. 1 \in Pipes
    BY ChainSizes DEF Pipes
  <2>3. l \in wfds'[j] <=> l \in wfds[j] /\ ~(j = 1 /\ l = 0)
    <3>1. PICK W : W = CloseEnd(wfds, 1, 0)
      OBVIOUS
    <3>2. l \in W[j] <=> l \in wfds[j] /\ ~(j = 1 /\ l = 0)
      BY <1>0, <2>2, <3>1, Closed
    <3> QED
      BY <2>1, <3>1, <3>2
  <2> QED
    BY <1>0, <1>5, <1>a, <1>b, <2>1, <2>3 DEF Writer, Reader
<1>6. CASE k > 0 /\ ChildCloses(k)
  <2>1. /\ place[k] = "child"
        /\ place'[l] = IF l = k THEN "first" ELSE place[l]
        /\ wfds' = CloseEnd(wfds, k, k)
        /\ rfds' = IF k > 1 THEN CloseEnd(rfds, k - 1, k) ELSE rfds
    BY <1>6, <1>c DEF ChildCloses, Moves
  <2>2. k \in Pipes /\ (k > 1 => k - 1 \in Pipes)
    BY <1>6, ChainSizes DEF Pipes, Stages
  <2>3. l \in wfds'[j] <=> l \in wfds[j] /\ ~(j = k /\ l = k)
    BY <1>0, <2>1, <2>2, Closed
  <2>4. l \in rfds'[j] <=> l \in rfds[j] /\ ~(k > 1 /\ j = k - 1 /\ l = k)
    <3>1. CASE k > 1
      BY <1>0, <2>1, <2>2, <3>1, Closed
    <3>2. CASE ~(k > 1)
      BY <2>1, <3>2
    <3> QED
      BY <3>1, <3>2
  <2> QED
    BY <1>0, <1>6, <1>a, <1>b, <2>1, <2>3, <2>4 DEF Writer, Reader
<1>7. CASE k > 0 /\ FirstRead(k)
  <2>1. /\ place[k] = "first"
        /\ place'[l] = IF l = k THEN "fork" ELSE place[l]
        /\ wfds' = wfds /\ rfds' = rfds
    BY <1>7, <1>c DEF FirstRead, Moves
  <2> QED
    BY <1>0, <1>a, <1>b, <2>1 DEF Writer, Reader
<1>8. CASE k > 0 /\ FirstEnd(k)
  <2>1. /\ place[k] = "first"
        /\ place'[l] = IF l = k THEN "exited" ELSE place[l]
        /\ wfds' = wfds /\ rfds' = CloseAll(rfds, k)
    BY <1>8, <1>c DEF FirstEnd, Moves
  <2>2. l \in rfds'[j] <=> l \in rfds[j] /\ l # k
    BY <1>0, <2>1, Closed
  <2> QED
    BY <1>0, <1>a, <1>b, <2>1, <2>2 DEF Writer, Reader
<1>9. CASE k > 0 /\ Filter(k)
  <2>1. PICK to \in {"write", "filter"} : place' = [place EXCEPT ![k] = to]
    BY <1>9 DEF Filter
  <2>2. /\ place[k] = "filter" /\ wfds' = wfds /\ rfds' = rfds
        /\ place'[l] = IF l = k THEN to ELSE place[l]
    BY <1>0, <1>9, <2>1 DEF Filter
  <2> QED
    BY <1>0, <1>a, <1>b, <2>1, <2>2 DEF Writer, Reader
<1>10. CASE k > 0 /\ FilterWrite(k)
  <2>1. /\ place[k] = "write"
        /\ place'[l] = IF l = k THEN "filter" ELSE place[l]
        /\ wfds' = wfds /\ rfds' = rfds
    BY <1>10, <1>c DEF FilterWrite, Moves
  <2> QED
    BY <1>0, <1>a, <1>b, <2>1 DEF Writer, Reader
<1>11. CASE k > 0 /\ FilterEnd(k)
  <2>1. /\ place[k] = "filter"
        /\ place'[l] = IF l = k THEN "wait" ELSE place[l]
        /\ wfds' = CloseEnd(wfds, k + 1, k) /\ rfds' = CloseEnd(rfds, k, k)
    BY <1>11, <1>c DEF FilterEnd, Moves
  <2>2. k \in Pipes /\ k + 1 \in Pipes
    BY <1>11, ChainSizes
  <2>3. l \in wfds'[j] <=> l \in wfds[j] /\ ~(j = k + 1 /\ l = k)
    <3>1. PICK c \in Pipes : c = k + 1
      BY <2>2
    <3>2. wfds' = CloseEnd(wfds, c, k)
      BY <2>1, <3>1
    <3>3. l \in wfds'[j] <=> l \in wfds[j] /\ ~(j = c /\ l = k)
      BY <1>0, <3>2, Closed
    <3> QED
      BY <3>1, <3>3
  <2>4. l \in rfds'[j] <=> l \in rfds[j] /\ ~(j = k /\ l = k)
    BY <1>0, <2>1, <2>2, Closed
  <2> QED
    BY <1>0, <1>a, <1>b, <2>1, <2>3, <2>4 DEF Writer, Reader
<1>12. CASE WaitChild(k)
  <2>1. /\ place[k] = "wait"
        /\ place'[l] = IF l = k THEN "exited" ELSE place[l]
        /\ wfds' = wfds /\ rfds' = rfds
    BY <1>12, <1>c DEF WaitChild, Moves
  <2> QED
    BY <1>0, <1>a, <1>b, <2>1 DEF Writer, Reader
<1> QED
  BY <1>1, <1>2, <1>3, <1>4, <1>5, <1>6, <1>7, <1>8, <1>9, <1>10,
     <1>11, <1>12 DEF SieveStep

\* What divides a divisor of c divides c.
LEMMA DividesTrans ==
  ASSUME NEW a \in Nat \ {0}, NEW b \in Nat \ {0}, NEW c \in Nat,
         b % a = 0, c % b = 0
  PROVE  c % a = 0
<1>1. c \div b \in Int /\ b \div a \in Int
  OBVIOUS
<1>2. PICK d \in Int, e \in Int : d = c \div b /\ e = b \div a
  BY <1>1
<1>3. c = b * d + 0
  BY <1>2, DivMod
<1>4. b = a * e + 0
  BY <1>2, DivMod
<1>5. c = a * (e * d) + 0
  BY <1>3, <1>4
<1>6. e * d \in Int
  OBVIOUS
<1>7. PICK q \in Int : q = e * d
  BY <1>6
<1>8. c = a * q + 0 /\ 0 \in 0 .. a - 1
  BY <1>5, <1>7
<1> QED
  BY <1>8, RemUniqueRaw

\* The only divisor of a prime is the prime.
LEMMA PrimeDivisor ==
  ASSUME NEW x \in Nat, NEW d \in Nat, IsPrime(x), d > 1, x % d = 0
  PROVE  x = d
<1>1. x > 1
  BY DEF IsPrime
<1>2. ~(x < d)
  <2> SUFFICES ASSUME x < d PROVE FALSE
    OBVIOUS
  <2>1. x \in 0 .. d - 1 /\ d \in Nat \ {0}
    OBVIOUS
  <2>2. x % d = x
    BY <2>1, RemSmall
  <2> QED
    BY <1>1, <2>2
<1>3. ~(d < x)
  <2> SUFFICES ASSUME d < x PROVE FALSE
    OBVIOUS
  <2>1. d \in 2 .. x - 1
    OBVIOUS
  <2> QED
    BY <2>1 DEF IsPrime
<1> QED
  BY <1>2, <1>3

LEMMA DividesItself == \A x \in Nat \ {0} : x % x = 0
<1> SUFFICES ASSUME NEW x \in Nat \ {0} PROVE x % x = 0
  OBVIOUS
<1>1. x \in x .. 2 * x - 1
  OBVIOUS
<1> QED
  BY <1>1, RemOver

\* The smallest number that all filters pass is the next prime.
LEMMA NextPrime ==
  ASSUME out \in Seq(Numbers), InOrder, NEW k, k = Len(out) + 1,
         NEW h \in Pass(k), \A x \in Pass(k) : h <= x
  PROVE  /\ IsPrime(h) /\ h \notin Range(out)
         /\ \A x \in Numbers : IsPrime(x) /\ x \notin Range(out) => h <= x
<1>1. /\ DOMAIN out = 1 .. k - 1 /\ Limit \in Nat
      /\ \A i \in 1 .. k - 1 : out[i] \in Nat /\ out[i] > 1
  <2>1. Len(out) \in Nat /\ DOMAIN out = 1 .. Len(out)
    OBVIOUS
  <2>2. DOMAIN out = 1 .. k - 1
    BY <2>1
  <2>3. \A i \in DOMAIN out : out[i] \in Nat /\ out[i] > 1
    <3> SUFFICES ASSUME NEW i \in DOMAIN out
                 PROVE  out[i] \in Nat /\ out[i] > 1
      OBVIOUS
    <3>1. out[i] \in Numbers
      BY <2>1
    <3>2. out[i] \in Nat
      BY <3>1, ChainSizes DEF Numbers
    <3> QED
      BY <3>2 DEF InOrder, IsPrime
  <2> QED
    BY <2>2, <2>3, ChainSizes
<1>2. h \in 2 .. Limit /\ \A i \in 1 .. k - 1 : h % out[i] # 0
  BY DEF Pass
<1>3. IsPrime(h)
  <2>0. h > 1
    BY <1>1, <1>2
  <2> SUFFICES ASSUME NEW d \in 2 .. h - 1, h % d = 0 PROVE FALSE
    BY <2>0, Zenon DEF IsPrime
  <2>1. d \in 2 .. Limit /\ ~(h <= d) /\ d \in Nat /\ h \in Nat /\ d # 0
    BY <1>1, <1>2
  <2>2. PICK i \in 1 .. k - 1 : d % out[i] = 0
    BY <2>1 DEF Pass
  <2>3. h % out[i] = 0
    <3>1. PICK a \in Nat \ {0} : a = out[i]
      BY <1>1, <2>2
    <3>2. d % a = 0
      BY <2>2, <3>1
    <3>3. h % a = 0
      BY <2>1, <3>2, DividesTrans
    <3> QED
      BY <3>1, <3>3
  <2> QED
    BY <1>2, <2>2, <2>3
<1>4. h \notin Range(out)
  <2> SUFFICES ASSUME NEW i \in DOMAIN out, h = out[i] PROVE FALSE
    BY DEF Range
  <2>1. h % h = 0
    BY <1>1, <1>2, DividesItself
  <2> QED
    BY <1>1, <1>2, <2>1
<1>5. ASSUME NEW x \in Numbers, IsPrime(x), x \notin Range(out)
      PROVE  h <= x
  <2>1. x \in Nat /\ x \in 2 .. Limit
    BY <1>1, <1>5 DEF Numbers, IsPrime
  <2>2. ASSUME NEW i \in 1 .. k - 1 PROVE x % out[i] # 0
    <3> SUFFICES ASSUME x % out[i] = 0 PROVE FALSE
      OBVIOUS
    <3>1. x = out[i]
      BY <1>1, <1>5, <2>1, PrimeDivisor
    <3> QED
      BY <1>1, <1>5, <3>1 DEF Range
  <2>3. x \in Pass(k)
    BY <2>1, <2>2 DEF Pass
  <2> QED
    BY <2>3
<1> QED
  BY <1>3, <1>4, <1>5

\* A number is sent after all the others.
LEMMA AppendFlow ==
  ASSUME NEW s \in Seq(Numbers), NEW lo \in Int, NEW x \in Numbers, NEW P,
         FlowOf(s, lo, x - 1, P), x \in P
  PROVE  FlowOf(Append(s, x), lo, x, P)
<1>0. x \in Nat /\ \A y \in Numbers : y \in Nat
  BY ChainSizes DEF Numbers
<1>1. PICK n \in Nat : n = Len(s)
  OBVIOUS
<1>2. PICK t : t = Append(s, x)
  OBVIOUS
<1>3. /\ t \in Seq(Numbers) /\ DOMAIN t = 1 .. n + 1 /\ t[n + 1] = x
      /\ \A a \in 1 .. n : t[a] = s[a] /\ s[a] \in Numbers
      /\ DOMAIN s = 1 .. n
  BY <1>1, <1>2, AppendProperties
<1>4. \A a \in 1 .. n : s[a] < x
  <2> SUFFICES ASSUME NEW a \in 1 .. n PROVE s[a] < x
    OBVIOUS
  <2>1. s[a] \in Range(s) /\ s[a] \in Numbers
    BY <1>3 DEF Range
  <2>2. s[a] <= x - 1
    BY <2>1 DEF FlowOf
  <2>3. s[a] \in Nat /\ x \in Nat
    BY <1>0, <2>1
  <2> QED
    BY <2>2, <2>3
<1>5. lo >= 1 /\ lo <= x /\ lo < x
  BY <1>0 DEF FlowOf
<1>6. ASSUME NEW y \in Numbers
      PROVE  y \in Range(t) <=> y \in P /\ lo < y /\ y <= x
  <2>1. y \in Range(t) <=> y \in Range(s) \/ y = x
    <3>1. ASSUME y \in Range(t) PROVE y \in Range(s) \/ y = x
      <4>1. PICK a \in 1 .. n + 1 : y = t[a]
        BY <1>3, <3>1 DEF Range
      <4>2. a = n + 1 \/ a \in 1 .. n
        OBVIOUS
      <4> QED
        BY <1>3, <4>1, <4>2 DEF Range
    <3>2. ASSUME y \in Range(s) PROVE y \in Range(t)
      <4>1. PICK a \in 1 .. n : y = s[a]
        BY <1>3, <3>2 DEF Range
      <4>2. a \in DOMAIN t /\ t[a] = y
        BY <1>3, <4>1
      <4> QED
        BY <4>2 DEF Range
    <3>3. ASSUME y = x PROVE y \in Range(t)
      BY <1>3, <3>3 DEF Range
    <3> QED
      BY <3>1, <3>2, <3>3
  <2>2. y \in Range(s) <=> y \in P /\ lo < y /\ y <= x - 1
    BY DEF FlowOf
  <2> QED
    BY <1>0, <1>5, <2>1, <2>2
<1>7. ASSUME NEW a \in DOMAIN t, NEW b \in DOMAIN t, a < b PROVE t[a] < t[b]
  <2>1. a \in 1 .. n /\ (b \in 1 .. n \/ b = n + 1)
    BY <1>3, <1>7
  <2>2. CASE b \in 1 .. n
    BY <1>3, <1>7, <2>1, <2>2 DEF FlowOf
  <2>3. CASE b = n + 1
    BY <1>3, <1>4, <2>1, <2>3
  <2> QED
    BY <2>1, <2>2, <2>3
<1>8. FlowOf(t, lo, x, P)
  BY <1>5, <1>6, <1>7 DEF FlowOf
<1> QED
  BY <1>2, <1>8

\* The number that is read is the next one.
LEMMA ReadFlow ==
  ASSUME NEW s \in Seq(Numbers), s # <<>>, NEW lo \in Int, NEW hi \in Int,
         NEW P, FlowOf(s, lo, hi, P), NEW m, m = Head(s)
  PROVE  /\ m \in P /\ lo < m /\ m <= hi /\ m \in Numbers
         /\ \A x \in Numbers : x \in P /\ lo < x /\ x <= hi => m <= x
         /\ FlowOf(Tail(s), m, hi, P)
<1>0. \A y \in Numbers : y \in Nat
  BY ChainSizes DEF Numbers
<1>1. PICK n \in Nat : n = Len(s)
  OBVIOUS
<1>2. PICK t : t = Tail(s)
  OBVIOUS
<1>3. /\ n > 0 /\ m = s[1] /\ DOMAIN s = 1 .. n
      /\ t \in Seq(Numbers) /\ DOMAIN t = 1 .. n - 1
      /\ \A a \in 1 .. n - 1 : t[a] = s[a + 1]
      /\ \A a \in 1 .. n : s[a] \in Numbers
  BY <1>1, <1>2, HeadTailProperties
<1>4. m \in Range(s) /\ m \in Numbers
  BY <1>3 DEF Range
<1>5. m \in P /\ lo < m /\ m <= hi /\ m \in Nat
  BY <1>0, <1>4 DEF FlowOf
<1>6. ASSUME NEW x \in Range(s) PROVE x = m \/ (x \in Range(t) /\ m < x)
  <2>1. PICK a \in 1 .. n : x = s[a]
    BY <1>3 DEF Range
  <2>2. CASE a = 1
    BY <1>3, <2>1, <2>2
  <2>3. CASE a # 1
    <3>1. a - 1 \in DOMAIN t /\ t[a - 1] = s[a]
      BY <1>3, <2>3
    <3>2. x \in Range(t)
      BY <2>1, <3>1 DEF Range
    <3>3. s[1] < s[a]
      <4>1. 1 \in DOMAIN s /\ a \in DOMAIN s /\ 1 < a
        BY <1>3, <2>3
      <4> QED
        BY <4>1 DEF FlowOf
    <3> QED
      BY <1>3, <2>1, <3>2, <3>3
  <2> QED
    BY <2>2, <2>3
<1>7. ASSUME NEW x \in Numbers, x \in P, lo < x, x <= hi PROVE m <= x
  <2>1. x \in Range(s)
    BY <1>7 DEF FlowOf
  <2> QED
    BY <1>0, <1>5, <1>6, <2>1
<1>8. ASSUME NEW x \in Range(t) PROVE x \in Range(s) /\ m < x
  <2>1. PICK a \in 1 .. n - 1 : x = t[a]
    BY <1>3 DEF Range
  <2>2. 1 \in DOMAIN s /\ a + 1 \in DOMAIN s /\ 1 < a + 1 /\ x = s[a + 1]
    BY <1>3, <2>1
  <2>3. s[1] < s[a + 1]
    BY <2>2 DEF FlowOf
  <2> QED
    BY <1>3, <2>2, <2>3 DEF Range
<1>9. FlowOf(t, m, hi, P)
  <2>1. m >= 1 /\ m <= hi
    BY <1>5 DEF FlowOf
  <2>2. ASSUME NEW x \in Numbers
        PROVE  x \in Range(t) <=> x \in P /\ m < x /\ x <= hi
    <3>1. x \in Range(s) <=> x \in P /\ lo < x /\ x <= hi
      BY DEF FlowOf
    <3>2. x \in Range(s) /\ m < x => x \in Range(t)
      BY <1>0, <1>5, <1>6
    <3>3. x \in Range(t) => x \in Range(s) /\ m < x
      BY <1>8
    <3> QED
      BY <1>0, <1>5, <3>1, <3>2, <3>3
  <2>3. ASSUME NEW a \in DOMAIN t, NEW b \in DOMAIN t, a < b
        PROVE  t[a] < t[b]
    <3>1. /\ a + 1 \in DOMAIN s /\ b + 1 \in DOMAIN s /\ a + 1 < b + 1
          /\ t[a] = s[a + 1] /\ t[b] = s[b + 1]
      BY <1>3, <2>3
    <3>2. s[a + 1] < s[b + 1]
      BY <3>1 DEF FlowOf
    <3> QED
      BY <3>1, <3>2
  <2> QED
    BY <2>1, <2>2, <2>3 DEF FlowOf
<1> QED
  BY <1>2, <1>4, <1>5, <1>7, <1>9

\* The numbers that describe the flow.
LEMMA LoHi ==
  ASSUME SieveControl, InHand, InOrder
  PROVE  /\ Len(out) \in Nat /\ out \in Seq(Numbers)
         /\ \A j \in 1 .. Len(out) + 1 :
              /\ j \in Pipes /\ j - 1 \in Stages /\ pipe[j] \in Seq(Numbers)
              /\ j \in Nat /\ Lo(j) \in Int /\ Hi(j) \in Int
         /\ \A k \in 1 .. Len(out) :
              /\ k \in Stages /\ k + 1 \in 1 .. Len(out) + 1
              /\ k \in 1 .. Len(out) + 1 /\ primo[k] = out[k]
              /\ primo[k] \in Nat /\ primo[k] > 1
<1>1. /\ Len(out) \in Nat /\ out \in Seq(Numbers) /\ Len(out) \in Stages
      /\ DOMAIN out = 1 .. Len(out)
  BY ChainSizes DEF SieveControl, SieveTypeOK, Printed
<1>2. \A k \in Stages : numero[k] \in Int /\ primo[k] \in Int
  BY ChainSizes DEF SieveControl, SieveTypeOK, Numbers
<1>3. PICK n \in Nat : n = Len(out)
  BY <1>1
<1>4. /\ \A k \in 0 .. n : k \in Stages /\ k \in Nat
      /\ \A j \in 1 .. n + 1 : j \in Pipes /\ j - 1 \in Stages /\ j \in Nat
  <2>1. n \in 0 .. MaxProcs - 1 /\ MaxProcs \in Nat
    BY <1>1, <1>3, ChainSizes DEF Stages
  <2> QED
    BY <2>1 DEF Stages, Pipes
<1>5. ASSUME NEW j \in 1 .. n + 1 PROVE Lo(j) \in Int
  <2>1. j \in 1 .. n => j \in Stages
    BY <1>4
  <2>2. ~(j > n) => j \in 1 .. n
    OBVIOUS
  <2> QED
    BY <1>2, <1>3, <2>1, <2>2 DEF Lo
<1>6. ASSUME NEW j \in 1 .. n + 1 PROVE Hi(j) \in Int
  <2>1. j = 1 \/ j - 1 \in 1 .. n + 1
    OBVIOUS
  <2>2. j - 1 \in Stages /\ 0 \in Stages
    BY <1>4
  <2>3. numero[0] \in Int /\ numero[j - 1] \in Int
    BY <1>2, <2>2
  <2>4. j # 1 => Lo(j - 1) \in Int
    BY <1>5, <2>1
  <2> QED
    BY <2>3, <2>4 DEF Hi
<1>7. ASSUME NEW k \in 1 .. n
      PROVE  primo[k] = out[k] /\ primo[k] \in Nat /\ primo[k] > 1
  <2>1. primo[k] = out[k]
    BY <1>3, <1>7 DEF SieveControl, Printed
  <2>2. out[k] \in Numbers /\ IsPrime(out[k])
    BY <1>1, <1>3 DEF InOrder
  <2> QED
    BY <2>1, <2>2, ChainSizes DEF Numbers, IsPrime
<1>8. ASSUME NEW j \in 1 .. n + 1 PROVE pipe[j] \in Seq(Numbers)
  BY <1>4 DEF SieveControl, SieveTypeOK
<1>9. \A k \in 1 .. n :
        k + 1 \in 1 .. n + 1 /\ k \in 1 .. n + 1 /\ k \in 0 .. n
  OBVIOUS
<1> QED
  BY <1>1, <1>3, <1>4, <1>5, <1>6, <1>7, <1>8, <1>9

\* A step that leaves the numbers alone.
FlowSame ==
  /\ out' = out /\ primo' = primo
  /\ \A l \in Stages : l > 0 => numero'[l] = numero[l]
  /\ (IF numero'[0] = 0 THEN 1 ELSE numero'[0] - 1)
       = (IF numero[0] = 0 THEN 1 ELSE numero[0] - 1)
  /\ \A l \in Stages : place'[l] = "write" <=> place[l] = "write"

LEMMA SameFlow ==
  ASSUME SieveControl, InHand, InOrder, FlowSame
  PROVE  \A j \in 1 .. Len(out) + 1 :
           Lo(j)' = Lo(j) /\ Hi(j)' = Hi(j) /\ Pass(j)' = Pass(j)
<1> SUFFICES ASSUME NEW j \in 1 .. Len(out) + 1
             PROVE  Lo(j)' = Lo(j) /\ Hi(j)' = Hi(j) /\ Pass(j)' = Pass(j)
  OBVIOUS
<1>1. /\ j \in Nat /\ j > 0 /\ Len(out) \in Nat /\ j - 1 \in Stages
      /\ \A k \in 1 .. Len(out) : k \in Stages
  BY LoHi
<1>2. ASSUME NEW k \in 1 .. Len(out) + 1 PROVE Lo(k)' = Lo(k)
  <2>1. k \in Nat /\ k > 0 /\ (~(k > Len(out)) => k \in Stages)
    BY <1>1
  <2> QED
    BY <2>1 DEF Lo, FlowSame
<1>3. Hi(j)' = Hi(j)
  <2>1. CASE j = 1
    BY <2>1 DEF Hi, FlowSame
  <2>2. CASE j # 1
    <3>1. j - 1 \in 1 .. Len(out) + 1 /\ j - 1 > 0
      BY <1>1, <2>2
    <3>2. Lo(j - 1)' = Lo(j - 1) /\ numero'[j - 1] = numero[j - 1]
      BY <1>1, <1>2, <3>1 DEF FlowSame
    <3> QED
      BY <1>1, <2>2, <3>2 DEF Hi, FlowSame
  <2> QED
    BY <2>1, <2>2
<1>4. Pass(j)' = Pass(j)
  BY DEF Pass, FlowSame
<1> QED
  BY <1>2, <1>3, <1>4

LEMMA SameFlows ==
  ASSUME SieveControl, InHand, InOrder, FlowSame, Flows, pipe' = pipe,
         failed' = FALSE => failed = FALSE, failed' \in BOOLEAN,
         failed \in BOOLEAN
  PROVE  Flows'
<1>1. out' = out
  BY DEF FlowSame
<1>2. ASSUME ~failed', NEW j \in 1 .. Len(out) + 1 PROVE Flow(j)'
  <2>1. Flow(j)
    BY <1>2 DEF Flows
  <2>2. Lo(j)' = Lo(j) /\ Hi(j)' = Hi(j) /\ Pass(j)' = Pass(j)
    BY SameFlow
  <2>3. FlowOf(pipe[j], Lo(j), Hi(j), Pass(j))
    BY <2>1 DEF Flow
  <2>4. FlowOf(pipe[j], Lo(j)', Hi(j)', Pass(j)')
    BY <2>2, <2>3
  <2> QED
    BY <2>4 DEF Flow, FlowOf
<1> QED
  BY <1>1, <1>2 DEF Flows

\* A process finds the end of its pipe when the one before it is done.
LEMMA EndSeen ==
  ASSUME SieveControl, Ends, NEW k \in Stages, k > 0,
         place[k] \in {"first", "filter"}, wfds[k] = {}
  PROVE  place[k - 1] \in {"wait", "exited"} /\ k - 1 \in Stages
<1>1. k - 1 \in Stages /\ k \in Pipes /\ k \in Nat
  BY ChainSizes
<1>2. place[k - 1] \in Places /\ k - 1 < k
  BY <1>1 DEF SieveControl, SieveTypeOK
<1>3. place[k - 1] \notin {"parent", "send", "filter", "write"}
  BY <1>1 DEF Ends, Writer
<1>4. place[k - 1] \notin {"unborn", "child", "first", "fork"}
  BY <1>1, <1>2 DEF SieveControl, Chained
<1> QED
  BY <1>1, <1>2, <1>3, <1>4 DEF Places

\* As long as no fork() has failed, somebody reads what is written.
LEMMA ReaderThere ==
  ASSUME SieveControl, Ends, Drained, ~failed, NEW k \in Stages,
         place[k] \in {"send", "write"}
  PROVE  rfds[k + 1] # {}
<1>1. /\ k \in Nat /\ k + 1 \in Stages /\ k + 1 \in Pipes /\ k + 1 > 0
      /\ k + 1 # 0 /\ (k + 1) - 1 = k
  BY ChainSizes DEF SieveControl, Chained
<1>2. place[k + 1] \in Places /\ place[k + 1] # "unborn"
  BY <1>1 DEF SieveControl, Chained, SieveTypeOK
<1>3. place[k + 1] \notin {"wait", "exited"}
  BY <1>1 DEF Drained
<1>4. place[k + 1] # "send"
  BY <1>1 DEF SieveControl, Chained
<1>5. k + 1 \in rfds[k + 1]
  BY <1>1, <1>2, <1>3, <1>4 DEF Ends, Reader, Places
<1> QED
  BY <1>5

\* The steps of one process that read and write nothing.
Quiet(k) ==
  \/ Fork(k) \/ ForkFails(k) \/ ParentCloses(k) \/ WaitChild(k)
  \/ k = 0 /\ SendDone
  \/ k > 0 /\ (ChildCloses(k) \/ FirstEnd(k) \/ FilterEnd(k))

LEMMA QuietSame ==
  ASSUME SieveControl, InHand, NEW k \in Stages, Quiet(k)
  PROVE  /\ FlowSame /\ pipe' = pipe /\ InHand'
         /\ failed' = failed \/ failed'
<1>0. /\ place \in [Stages -> Places] /\ numero \in [Stages -> 0 .. Limit + 1]
      /\ k \in Nat /\ 0 \in Stages /\ place[0] # "write"
      /\ \A l \in Stages : l \in Nat
  BY ChainSizes DEF SieveControl, SieveTypeOK, Chained
<1>1. CASE ParentCloses(k) /\ k = 0
  <2>1. /\ place[0] = "parent" /\ place' = [place EXCEPT ![0] = "send"]
        /\ numero' = [numero EXCEPT ![0] = 2] /\ out' = out /\ primo' = primo
        /\ pipe' = pipe /\ failed' = failed
    BY <1>1 DEF ParentCloses, Moves
  <2>2. numero[0] = 0
    BY <2>1 DEF InHand
  <2>3. /\ place'[0] = "send" /\ numero'[0] = 2
        /\ \A l \in Stages :
             l # 0 => place'[l] = place[l] /\ numero'[l] = numero[l]
    BY <1>0, <2>1
  <2>4. FlowSame
    BY <1>0, <2>1, <2>2, <2>3 DEF FlowSame
  <2>5. InHand'
    <3>1. ASSUME NEW l \in Stages, place'[l] = "write"
          PROVE  /\ numero'[l] \in Numbers
                 /\ ~failed' => numero'[l] \in Pass(l + 1)'
      <4>1. /\ numero[l] \in Numbers /\ numero'[l] = numero[l]
            /\ ~failed => numero[l] \in Pass(l + 1)
        BY <2>3, <3>1 DEF InHand
      <4> QED
        BY <2>1, <4>1 DEF Pass
    <3> QED
      BY <2>3, <3>1 DEF InHand
  <2> QED
    BY <2>1, <2>4, <2>5
<1>2. CASE ~(ParentCloses(k) /\ k = 0)
  <2>1. /\ numero' = numero /\ out' = out /\ primo' = primo /\ pipe' = pipe
        /\ failed' = failed \/ failed'
    BY <1>2 DEF Quiet, Fork, ForkFails, ParentCloses, WaitChild, SendDone,
                ChildCloses, FirstEnd, FilterEnd
  <2>2. /\ \A l \in Stages : place'[l] = "write" <=> place[l] = "write"
        /\ place'[0] = "send" => place[0] = "send"
        /\ place'[0] \in {"fork", "parent"} => place[0] \in {"fork", "parent"}
    <3>1. CASE Fork(k)
      <4>1. k + 1 \in Stages /\ k + 1 # 0 /\ place[k + 1] = "unborn"
        BY <1>0, <3>1 DEF Fork, SieveControl, Chained
      <4>2. PICK c \in Stages : c = k + 1
        BY <4>1
      <4>3. /\ place' = [place EXCEPT ![k] = "parent", ![c] = "child"]
            /\ place[k] = "fork" /\ place[c] = "unborn" /\ c # 0
        BY <3>1, <4>1, <4>2 DEF Fork
      <4> QED
        BY <1>0, <4>3
    <3>2. CASE ~Fork(k)
      <4>1. PICK to \in {"exited", "filter", "wait", "first"} :
              /\ place' = [place EXCEPT ![k] = to] /\ place[k] # "write"
              /\ k = 0 => to \in {"exited", "wait"}
        BY <1>0, <1>2, <3>2
           DEF Quiet, ForkFails, ParentCloses, WaitChild, SendDone,
               ChildCloses, FirstEnd, FilterEnd, Moves
      <4> QED
        BY <1>0, <4>1
    <3> QED
      BY <3>1, <3>2
  <2>3. FlowSame
    BY <2>1, <2>2 DEF FlowSame
  <2>4. InHand'
    <3>1. ASSUME NEW l \in Stages, place'[l] = "write"
          PROVE  /\ numero'[l] \in Numbers
                 /\ ~failed' => numero'[l] \in Pass(l + 1)'
      BY <2>1, <2>2, <3>1 DEF InHand, Pass
    <3> QED
      BY <2>1, <2>2, <3>1 DEF InHand
  <2> QED
    BY <2>1, <2>3, <2>4
<1> QED
  BY <1>1, <1>2

\* Drained is about the processes that have ended their work.
LEMMA DrainedKept ==
  ASSUME SieveControl, InHand, InOrder, FlowSame, Drained, ~failed,
         \A l \in Stages : /\ place'[l] \in {"wait", "exited"}
                                <=> place[l] \in {"wait", "exited"}
                           /\ place'[l] = "exited" <=> place[l] = "exited"
  PROVE  Drained'
<1>1. out' = out /\ Len(out) \in Nat /\ \A l \in Stages : l \in Nat
  BY LoHi, ChainSizes DEF FlowSame
<1>2. \A k \in Stages : k > 0 => k - 1 \in Stages
  BY ChainSizes
<1>3. \A k \in Stages : k <= Len(out) => k + 1 \in 1 .. Len(out) + 1
  BY <1>1
<1>4. ASSUME NEW k \in Stages, place'[k] \in {"wait", "exited"},
             k <= Len(out), NEW x \in Pass(k + 1)'
      PROVE  x <= Hi(k + 1)'
  <2>1. Hi(k + 1)' = Hi(k + 1) /\ Pass(k + 1)' = Pass(k + 1)
    BY <1>3, <1>4, SameFlow
  <2> QED
    BY <1>4, <2>1 DEF Drained
<1>5. \A k \in Stages : Pass(k)' = Pass(k)
  BY <1>1 DEF Pass
<1> QED
  BY <1>1, <1>2, <1>4, <1>5 DEF Drained

\* A process that comes to the end of its work.
LEMMA DrainedMove ==
  ASSUME SieveControl, InHand, InOrder, FlowSame, Drained, ~failed,
         NEW k \in Stages, NEW to \in {"wait", "exited"},
         place' = [place EXCEPT ![k] = to], place[k] # "exited",
         k > 0 => place[k - 1] \in {"wait", "exited"},
         k <= Len(out) => \A x \in Pass(k + 1) : x <= Hi(k + 1),
         to = "exited" /\ k <= Len(out) =>
           k + 1 \in Stages /\ place[k + 1] = "exited",
         to = "exited" /\ k = Len(out) + 1 => Pass(k) = {}
  PROVE  Drained'
<1>1. /\ out' = out /\ Len(out) \in Nat /\ \A l \in Stages : l \in Nat
      /\ \A l \in Stages : l > 0 => l - 1 \in Stages
  BY LoHi, ChainSizes DEF FlowSame
<1>2. place'[k] = to /\ \A l \in Stages : l # k => place'[l] = place[l]
  BY DEF SieveControl, SieveTypeOK
<1>3. \A l \in Stages : Pass(l)' = Pass(l)
  BY <1>1 DEF Pass
<1>4. ASSUME NEW l \in Stages, l > 0, place'[l] \in {"wait", "exited"}
      PROVE  place'[l - 1] \in {"wait", "exited"}
  <2>1. l - 1 \in Stages /\ l - 1 # l
    BY <1>1, <1>4
  <2>2. place[l - 1] \in {"wait", "exited"}
    BY <1>2, <1>4 DEF Drained
  <2> QED
    BY <1>2, <2>1, <2>2
<1>5. ASSUME NEW l \in Stages, place'[l] \in {"wait", "exited"},
             l <= Len(out), NEW x \in Pass(l + 1)'
      PROVE  x <= Hi(l + 1)'
  <2>1. l + 1 \in 1 .. Len(out) + 1
    BY <1>1, <1>5
  <2>2. Hi(l + 1)' = Hi(l + 1) /\ Pass(l + 1)' = Pass(l + 1)
    BY <2>1, SameFlow
  <2>3. \A y \in Pass(l + 1) : y <= Hi(l + 1)
    BY <1>2, <1>5 DEF Drained
  <2> QED
    BY <1>5, <2>2, <2>3
<1>6. ASSUME NEW l \in Stages, place'[l] = "exited", l <= Len(out)
      PROVE  l + 1 \in Stages /\ place'[l + 1] = "exited"
  <2>1. l + 1 \in Stages /\ place[l + 1] = "exited"
    BY <1>2, <1>6 DEF Drained
  <2> QED
    BY <1>2, <2>1
<1>7. ASSUME NEW l \in Stages, place'[l] = "exited", l = Len(out) + 1
      PROVE  Pass(l)' = {}
  BY <1>2, <1>3, <1>7 DEF Drained
<1> QED
  BY <1>1, <1>4, <1>5, <1>6, <1>7 DEF Drained

\* What process k has left to read when it finds the end of its pipe.
LEMMA NothingLeft ==
  ASSUME SieveInv, ~failed, NEW k \in Stages, k > 0,
         place[k] \in {"first", "filter"}, pipe[k] = <<>>, wfds[k] = {}
  PROVE  /\ place[k - 1] \in {"wait", "exited"}
         /\ \A x \in Pass(k) : x <= Lo(k)
<1>1. place[k - 1] \in {"wait", "exited"} /\ k - 1 \in Stages
  BY EndSeen DEF SieveInv
<1>2. /\ Len(out) \in Nat /\ k \in Nat /\ k - 1 <= Len(out)
      /\ k \in 1 .. Len(out) + 1
  <2>1. Len(out) \in Nat /\ k \in Nat
    BY LoHi, ChainSizes DEF SieveInv
  <2>2. ~(k > Len(out) + 1)
    BY DEF SieveInv, SieveControl, Printed
  <2> QED
    BY <2>1, <2>2
<1>3. k = (k - 1) + 1
  BY <1>2
<1>4. \A x \in Pass(k) : x <= Hi(k)
  BY <1>1, <1>2, <1>3 DEF SieveInv, Drained
<1>5. FlowOf(<<>>, Lo(k), Hi(k), Pass(k))
  BY <1>2 DEF SieveInv, Flows, Flow
<1>6. Lo(k) \in Int /\ Hi(k) \in Int
  BY <1>2, LoHi DEF SieveInv
<1>7. ASSUME NEW x \in Pass(k) PROVE x <= Lo(k)
  <2>1. x \in Numbers /\ x \in Int
    BY ChainSizes DEF Pass, Numbers
  <2>2. x \notin Range(<<>>)
    BY DEF Range
  <2>3. ~(Lo(k) < x)
    BY <1>4, <1>5, <2>1, <2>2 DEF FlowOf
  <2> QED
    BY <1>6, <2>1, <2>3
<1> QED
  BY <1>1, <1>7

\* A process that is neither new nor the first has printed a number.
LEMMA Working ==
  ASSUME SieveControl, NEW k \in Stages,
         place[k] \in {"parent", "filter", "write", "wait"}
  PROVE  k <= Len(out) /\ k \in Nat /\ Len(out) \in Nat
         /\ (k > 0 => k \in 1 .. Len(out))
<1>1. k \in Nat /\ Len(out) \in Nat
  BY ChainSizes, LastForks
<1>2. k > Len(out) => k > 0
  BY <1>1
<1>3. ~(k > Len(out))
  BY <1>2 DEF SieveControl, Printed
<1> QED
  BY <1>1, <1>3

LEMMA QuietDrained ==
  ASSUME SieveInv, NEW k \in Stages, Quiet(k)
  PROVE  Drained'
<1>1. CASE failed'
  BY <1>1 DEF Drained
<1>2. CASE ~failed'
  <2>0. /\ ~failed /\ FlowSame /\ SieveControl /\ InHand /\ InOrder /\ Drained
        /\ place \in [Stages -> Places] /\ k \in Nat /\ ~ForkFails(k)
    BY <1>2, QuietSame, ChainSizes
       DEF SieveInv, SieveControl, SieveTypeOK, ForkFails
  <2>1. CASE Fork(k) \/ ParentCloses(k) \/ (k > 0 /\ ChildCloses(k))
    <3>1. \A l \in Stages :
            /\ place'[l] \in {"wait", "exited"}
                 <=> place[l] \in {"wait", "exited"}
            /\ place'[l] = "exited" <=> place[l] = "exited"
      <4>1. CASE Fork(k)
        <5>1. k + 1 \in Stages /\ place[k + 1] = "unborn"
          BY <2>0, <4>1 DEF Fork, SieveControl, Chained
        <5>2. PICK c \in Stages : c = k + 1
          BY <5>1
        <5>3. /\ place' = [place EXCEPT ![k] = "parent", ![c] = "child"]
              /\ place[k] = "fork" /\ place[c] = "unborn"
          BY <4>1, <5>1, <5>2 DEF Fork
        <5> QED
          BY <2>0, <5>3
      <4>2. CASE ~Fork(k)
        <5>1. PICK to \in {"send", "filter", "first"} :
                /\ place' = [place EXCEPT ![k] = to]
                /\ place[k] \in {"parent", "child"}
          BY <2>1, <4>2 DEF ParentCloses, ChildCloses, Moves
        <5> QED
          BY <2>0, <5>1
      <4> QED
        BY <4>1, <4>2
    <3> QED
      BY <2>0, <3>1, DrainedKept
  <2>2. CASE k = 0 /\ SendDone
    <3>1. /\ place' = [place EXCEPT ![k] = "wait"] /\ place[k] # "exited"
          /\ numero[0] = Limit + 1
      BY <2>2 DEF SendDone, Moves
    <3>2. \A x \in Pass(k + 1) : x <= Hi(k + 1)
      <4>1. k + 1 = 1 /\ Hi(1) = Limit
        BY <2>2, <3>1, ChainSizes DEF Hi
      <4> QED
        BY <4>1, ChainSizes DEF Pass
    <3>3. ~(k > 0) /\ "wait" \in {"wait", "exited"} /\ "wait" # "exited"
      BY <2>2
    <3> QED
      BY <2>0, <3>1, <3>2, <3>3, DrainedMove
  <2>3. CASE k > 0 /\ FirstEnd(k)
    <3>1. /\ place' = [place EXCEPT ![k] = "exited"] /\ place[k] = "first"
          /\ pipe[k] = <<>> /\ wfds[k] = {}
      BY <2>3 DEF FirstEnd, Moves
    <3>2. k = Len(out) + 1 /\ Len(out) \in Nat
      BY <2>0, <3>1, LastForks
    <3>3. /\ place[k - 1] \in {"wait", "exited"}
          /\ \A x \in Pass(k) : x <= Lo(k)
      BY <2>0, <2>3, <3>1, NothingLeft
    <3>4. Lo(k) = 1
      BY <3>2 DEF Lo
    <3>5. Pass(k) = {}
      BY <3>3, <3>4, ChainSizes DEF Pass
    <3>6. ~(k <= Len(out))
      BY <3>2
    <3> QED
      BY <2>0, <3>1, <3>3, <3>5, <3>6, DrainedMove
  <2>4. CASE k > 0 /\ FilterEnd(k)
    <3>1. /\ place' = [place EXCEPT ![k] = "wait"] /\ place[k] = "filter"
          /\ pipe[k] = <<>> /\ wfds[k] = {}
      BY <2>4 DEF FilterEnd, Moves
    <3>2. /\ place[k - 1] \in {"wait", "exited"}
          /\ \A x \in Pass(k) : x <= Lo(k)
      BY <2>0, <2>4, <3>1, NothingLeft
    <3>3. k + 1 # 1 /\ (k + 1) - 1 = k
      BY <2>0, <2>4
    <3>4. Hi(k + 1) = Lo(k)
      BY <3>1, <3>3 DEF Hi
    <3>5. ASSUME NEW x \in Pass(k + 1) PROVE x \in Pass(k)
      BY <2>0 DEF Pass
    <3> QED
      BY <2>0, <3>1, <3>2, <3>4, <3>5, DrainedMove
  <2>5. CASE WaitChild(k)
    <3>1. /\ place' = [place EXCEPT ![k] = "exited"] /\ place[k] = "wait"
          /\ place[k + 1] = "exited"
      BY <2>5 DEF WaitChild, Moves
    <3>2. k <= Len(out) /\ Len(out) \in Nat /\ k + 1 \in Stages
      BY <2>0, <3>1, Working DEF SieveControl, Chained
    <3>3. k > 0 => place[k - 1] \in {"wait", "exited"}
      BY <2>0, <3>1 DEF Drained
    <3>4. \A x \in Pass(k + 1) : x <= Hi(k + 1)
      BY <2>0, <3>1, <3>2 DEF Drained
    <3>5. k # Len(out) + 1
      BY <2>0, <3>2
    <3> QED
      BY <2>0, <3>1, <3>2, <3>3, <3>4, <3>5, DrainedMove
  <2> QED
    BY <2>0, <2>1, <2>2, <2>3, <2>4, <2>5 DEF Quiet
<1> QED
  BY <1>1, <1>2

\* A pipe that lacks nothing up to hi lacks nothing up to up.
LEMMA ExtendFlow ==
  ASSUME NEW s, NEW lo \in Int, NEW hi \in Int, NEW up \in Int, NEW P,
         FlowOf(s, lo, hi, P), hi <= up,
         \A x \in Numbers : x \in P => ~(hi < x /\ x <= up)
  PROVE  FlowOf(s, lo, up, P)
<1>1. \A x \in Numbers : x \in Int
  BY ChainSizes DEF Numbers
<1>2. lo >= 1 /\ lo <= up
  BY DEF FlowOf
<1>3. ASSUME NEW x \in Numbers
      PROVE  x \in Range(s) <=> x \in P /\ lo < x /\ x <= up
  BY <1>1 DEF FlowOf
<1> QED
  BY <1>2, <1>3 DEF FlowOf

\* Lo and Hi look at the two processes of a pipe.
LEMMA LoSame ==
  ASSUME out' = out, NEW j, primo'[j] = primo[j], numero'[j] = numero[j]
  PROVE  Lo(j)' = Lo(j)
  BY DEF Lo

LEMMA HiSame ==
  ASSUME NEW j, j # 1, place'[j - 1] = "write" <=> place[j - 1] = "write",
         numero'[j - 1] = numero[j - 1], Lo(j - 1)' = Lo(j - 1)
  PROVE  Hi(j)' = Hi(j)
  BY DEF Hi

\* A step of process k that works on pipe c.
LEMMA WorkOn ==
  ASSUME SieveInv, NEW k \in Stages, NEW c \in 1 .. Len(out) + 1,
         out' = out, primo' = primo, failed' = failed,
         place[k] \in {"send", "filter", "write"},
         place'[k] \notin {"wait", "exited"},
         \A l \in Stages : l # k => place'[l] = place[l],
         \A l \in Stages : l # k => numero'[l] = numero[l],
         \A j \in Pipes : j # c => pipe'[j] = pipe[j],
         ~failed => \A j \in {k, k + 1} : j > 0 => Flow(j)',
         c \in {k, k + 1}
  PROVE  Flows' /\ Drained' /\ InOrder'
<1>0. SieveControl /\ InHand /\ InOrder /\ Flows /\ Drained /\ k \in Nat
  BY ChainSizes DEF SieveInv
<1>1. PICK n \in Nat : n = Len(out)
  BY <1>0, LoHi
<1>2. /\ n + 1 \in Pipes /\ k \in Nat /\ 0 \in Stages
      /\ \A j \in 1 .. n + 1 : j \in Pipes /\ j \in Nat /\ j - 1 \in Stages
      /\ \A l \in 1 .. n : l \in Stages
  BY <1>0, <1>1, LoHi, ChainSizes
<1>3. ASSUME NEW l \in Stages, l # k PROVE Lo(l)' = Lo(l)
  BY <1>3, LoSame
<1>4. ASSUME NEW j \in 1 .. n + 1, j # k PROVE Lo(j)' = Lo(j)
  <2>1. CASE j \in Stages
    BY <1>3, <1>4, <2>1
  <2>2. CASE j \notin Stages
    <3>1. j > Len(out)
      BY <1>1, <1>2, <2>2
    <3> QED
      BY <3>1 DEF Lo
  <2> QED
    BY <2>1, <2>2
<1>5. ASSUME NEW j \in 1 .. n + 1, j # k + 1 PROVE Hi(j)' = Hi(j)
  <2>1. j - 1 \in Stages /\ j - 1 # k
    BY <1>2, <1>5
  <2>2. CASE j = 1
    <3>1. numero'[0] = numero[0]
      BY <1>2, <2>1, <2>2
    <3> QED
      BY <2>2, <3>1 DEF Hi
  <2>3. CASE j # 1
    <3>1. Lo(j - 1)' = Lo(j - 1)
      BY <1>3, <2>1
    <3> QED
      BY <2>1, <2>3, <3>1, HiSame
  <2> QED
    BY <2>2, <2>3
<1>6. \A j \in Nat : Pass(j)' = Pass(j)
  BY DEF Pass
<1>7. ASSUME ~failed, NEW j \in 1 .. n + 1 PROVE Flow(j)'
  <2>1. CASE j = k \/ j = k + 1
    BY <1>2, <1>7, <2>1
  <2>2. CASE j # k /\ j # k + 1
    <3>1. FlowOf(pipe[j], Lo(j), Hi(j), Pass(j))
      BY <1>0, <1>1, <1>7 DEF Flows, Flow
    <3>2. /\ Lo(j)' = Lo(j) /\ Hi(j)' = Hi(j) /\ Pass(j)' = Pass(j)
          /\ pipe'[j] = pipe[j]
      BY <1>2, <1>4, <1>5, <1>6, <2>2
    <3>3. FlowOf(pipe'[j], Lo(j)', Hi(j)', Pass(j)')
      BY <3>1, <3>2
    <3> QED
      BY <3>3 DEF Flow, FlowOf
  <2> QED
    BY <2>1, <2>2
<1>8. Flows'
  <2>1. ASSUME NEW j \in Pipes, j > n + 1 PROVE pipe'[j] = <<>>
    <3>1. j # c
      BY <1>1, <2>1
    <3> QED
      BY <1>0, <1>1, <2>1, <3>1 DEF Flows
  <2> QED
    BY <1>1, <1>7, <2>1 DEF Flows
<1>9. Drained'
  <2> SUFFICES ASSUME ~failed PROVE Drained'
    BY DEF Drained
  <2>1. \A l \in Stages : place'[l] \in {"wait", "exited"} =>
          l # k /\ place'[l] = place[l]
    OBVIOUS
  <2>2. \A l \in Stages : place[l] \in {"wait", "exited"} =>
          l # k /\ place'[l] = place[l]
    OBVIOUS
  <2>3. ASSUME NEW l \in Stages, l > 0, place'[l] \in {"wait", "exited"}
        PROVE  place'[l - 1] \in {"wait", "exited"}
    <3>1. l - 1 \in Stages /\ place[l] \in {"wait", "exited"}
      BY <2>1, <2>3, ChainSizes
    <3> QED
      BY <1>0, <2>2, <2>3, <3>1 DEF Drained
  <2>4. ASSUME NEW l \in Stages, place'[l] \in {"wait", "exited"}, l <= n,
               NEW x \in Pass(l + 1)'
        PROVE  x <= Hi(l + 1)'
    <3>1. l # k /\ place[l] \in {"wait", "exited"} /\ l \in Nat
      BY <2>1, <2>4, ChainSizes
    <3>2. l + 1 \in 1 .. n + 1 /\ l + 1 # k + 1 /\ l + 1 \in Nat
      BY <1>2, <2>4, <3>1
    <3>3. Hi(l + 1)' = Hi(l + 1) /\ Pass(l + 1)' = Pass(l + 1)
      BY <1>5, <1>6, <3>2
    <3>4. \A y \in Pass(l + 1) : y <= Hi(l + 1)
      BY <1>0, <1>1, <2>4, <3>1 DEF Drained
    <3> QED
      BY <2>4, <3>3, <3>4
  <2>5. ASSUME NEW l \in Stages, place'[l] = "exited", l <= n
        PROVE  l + 1 \in Stages /\ place'[l + 1] = "exited"
    BY <1>0, <1>1, <2>1, <2>2, <2>5 DEF Drained
  <2>6. ASSUME NEW l \in Stages, place'[l] = "exited", l = n + 1
        PROVE  Pass(l)' = {}
    <3>1. l \in Nat
      BY ChainSizes
    <3> QED
      BY <1>0, <1>1, <1>6, <2>1, <2>6, <3>1 DEF Drained
  <2> QED
    BY <1>1, <2>3, <2>4, <2>5, <2>6 DEF Drained
<1>10. InOrder'
  BY <1>0 DEF InOrder
<1> QED
  BY <1>8, <1>9, <1>10

\* main sends the next number.
LEMMA SendFlow ==
  ASSUME SieveInv, Send
  PROVE  Flows' /\ Drained' /\ InOrder' /\ InHand'
<1>0. /\ SieveControl /\ InHand /\ InOrder /\ Flows /\ Drained /\ Ends
      /\ 0 \in Stages /\ pipe \in [Pipes -> Seq(Numbers)]
      /\ numero \in [Stages -> 0 .. Limit + 1]
  BY ChainSizes DEF SieveInv, SieveControl, SieveTypeOK
<1>1. /\ place[0] = "send" /\ place' = place /\ out' = out /\ primo' = primo
      /\ failed' = failed /\ numero' = [numero EXCEPT ![0] = @ + 1]
      /\ numero[0] <= Limit /\ WritePipe(1, numero[0])
  BY DEF Send
<1>2. PICK x \in Nat : x = numero[0] /\ x >= 2 /\ x <= Limit
  BY <1>0, <1>1 DEF InHand
<1>3. numero'[0] = x + 1 /\ \A l \in Stages : l # 0 => numero'[l] = numero[l]
  BY <1>0, <1>1, <1>2
<1>4. 1 \in 1 .. Len(out) + 1 /\ 1 \in Pipes /\ Len(out) \in Nat
  BY <1>0, LoHi
<1>5. \A j \in Pipes : j # 1 => pipe'[j] = pipe[j]
  BY <1>0, <1>1 DEF WritePipe
<1>6. ASSUME ~failed PROVE Flow(1)'
  <2>1. rfds[1] # {}
    BY <1>0, <1>1, <1>6, ReaderThere
  <2>2. pipe'[1] = Append(pipe[1], x)
    BY <1>0, <1>1, <1>2, <1>4, <2>1 DEF WritePipe
  <2>3. Hi(1) = x - 1 /\ Hi(1)' = x
    BY <1>2, <1>3 DEF Hi
  <2>4. Lo(1)' = Lo(1) /\ Pass(1)' = Pass(1)
    <3>1. CASE 1 \in Stages
      BY <1>1, <1>3, <3>1, LoSame DEF Pass
    <3>2. CASE 1 \notin Stages
      <4>1. 1 > Len(out)
        BY <1>0, <1>4, <3>2, LoHi
      <4> QED
        BY <1>1, <4>1 DEF Lo, Pass
    <3> QED
      BY <3>1, <3>2
  <2>5. x \in Pass(1) /\ x \in Numbers
    BY <1>2, ChainSizes DEF Pass, Numbers
  <2>6. FlowOf(pipe[1], Lo(1), x - 1, Pass(1))
    BY <1>0, <1>4, <1>6, <2>3 DEF Flows, Flow
  <2>7. pipe[1] \in Seq(Numbers) /\ Lo(1) \in Int
    BY <1>0, <1>4, LoHi
  <2>8. FlowOf(Append(pipe[1], x), Lo(1), x, Pass(1))
    BY <2>5, <2>6, <2>7, AppendFlow
  <2>9. FlowOf(pipe'[1], Lo(1)', Hi(1)', Pass(1)')
    BY <2>2, <2>3, <2>4, <2>8
  <2> QED
    BY <2>9 DEF Flow, FlowOf
<1>7. Flows' /\ Drained' /\ InOrder'
  <2>1. /\ place[0] \in {"send", "filter", "write"}
        /\ place'[0] \notin {"wait", "exited"}
        /\ 1 \in {0, 0 + 1}
        /\ ~failed => \A j \in {0, 0 + 1} : j > 0 => Flow(j)'
    BY <1>1, <1>6
  <2> QED
    BY <1>0, <1>1, <1>3, <1>4, <1>5, <2>1, WorkOn
<1>8. InHand'
  <2>1. ASSUME NEW l \in Stages, place'[l] = "write"
        PROVE  /\ numero'[l] \in Numbers
               /\ ~failed' => numero'[l] \in Pass(l + 1)'
    BY <1>0, <1>1, <1>3, <2>1 DEF InHand, Pass
  <2> QED
    BY <1>1, <1>2, <1>3, <2>1 DEF InHand
<1> QED
  BY <1>7, <1>8

\* A filter sends the number it has in hand.
LEMMA FilterWriteFlow ==
  ASSUME SieveInv, NEW k \in Stages, k > 0, FilterWrite(k)
  PROVE  Flows' /\ Drained' /\ InOrder' /\ InHand'
<1>0. /\ SieveControl /\ InHand /\ InOrder /\ Flows /\ Drained /\ Ends
      /\ pipe \in [Pipes -> Seq(Numbers)] /\ place \in [Stages -> Places]
      /\ k \in Nat
  BY ChainSizes DEF SieveInv, SieveControl, SieveTypeOK
<1>1. /\ place[k] = "write" /\ place' = [place EXCEPT ![k] = "filter"]
      /\ out' = out /\ primo' = primo /\ failed' = failed
      /\ numero' = numero /\ WritePipe(k + 1, numero[k])
  BY DEF FilterWrite, Moves
<1>2. place'[k] = "filter" /\ \A l \in Stages : l # k => place'[l] = place[l]
  BY <1>0, <1>1
<1>3. k \in 1 .. Len(out) /\ Len(out) \in Nat
  BY <1>0, <1>1, Working
<1>4. PICK c \in 1 .. Len(out) + 1 : c = k + 1
  BY <1>3
<1>5. /\ c \in Pipes /\ k \in 1 .. Len(out) + 1
      /\ c \in Nat /\ c > 1 /\ c - 1 = k
  BY <1>0, <1>3, <1>4, LoHi
<1>6. \A j \in Pipes : j # c => pipe'[j] = pipe[j]
  BY <1>0, <1>1, <1>4 DEF WritePipe
<1>7. /\ Lo(k)' = Lo(k) /\ Lo(c)' = Lo(c)
      /\ Pass(k)' = Pass(k) /\ Pass(c)' = Pass(c)
  BY <1>1 DEF Lo, Pass
<1>8. ASSUME ~failed PROVE Flow(c)'
  <2>1. PICK x \in Numbers : x = numero[k]
    BY <1>0, <1>1 DEF InHand
  <2>2. x \in Pass(c)
    BY <1>0, <1>1, <1>4, <1>8, <2>1 DEF InHand
  <2>3. x \in Nat /\ x # 0
    BY <2>2, ChainSizes DEF Pass
  <2>4. rfds[c] # {}
    BY <1>0, <1>1, <1>4, <1>8, ReaderThere
  <2>5. pipe'[c] = Append(pipe[c], x)
    BY <1>0, <1>1, <1>4, <1>5, <2>1, <2>4 DEF WritePipe
  <2>6. Hi(c) = x - 1
    BY <1>1, <1>5, <2>1 DEF Hi
  <2>7. Hi(c)' = x
    <3>1. Lo(k) = x
      BY <1>3, <2>1, <2>3 DEF Lo
    <3>2. Hi(c)' = Lo(k)'
      BY <1>2, <1>5 DEF Hi
    <3> QED
      BY <1>7, <3>1, <3>2
  <2>8. FlowOf(pipe[c], Lo(c), x - 1, Pass(c))
    BY <1>0, <1>4, <1>8, <2>6 DEF Flows, Flow
  <2>9. pipe[c] \in Seq(Numbers) /\ Lo(c) \in Int
    BY <1>0, <1>4, LoHi
  <2>10. FlowOf(Append(pipe[c], x), Lo(c), x, Pass(c))
    BY <2>2, <2>8, <2>9, AppendFlow
  <2>11. FlowOf(pipe'[c], Lo(c)', Hi(c)', Pass(c)')
    BY <1>7, <2>5, <2>7, <2>10
  <2> QED
    BY <2>11 DEF Flow, FlowOf
<1>9. ASSUME ~failed PROVE Flow(k)'
  <2>1. FlowOf(pipe[k], Lo(k), Hi(k), Pass(k))
    BY <1>0, <1>5, <1>9 DEF Flows, Flow
  <2>2. pipe'[k] = pipe[k]
    BY <1>0, <1>4, <1>5, <1>6, ChainSizes
  <2>3. Hi(k)' = Hi(k)
    <3>1. CASE k = 1
      BY <1>1, <3>1 DEF Hi
    <3>2. CASE k # 1
      <4>1. k - 1 \in Stages /\ k - 1 # k
        BY <1>0, ChainSizes
      <4>2. place'[k - 1] = place[k - 1] /\ Lo(k - 1)' = Lo(k - 1)
        BY <1>1, <1>2, <4>1 DEF Lo
      <4> QED
        BY <1>1, <3>2, <4>2, HiSame
    <3> QED
      BY <3>1, <3>2
  <2>4. FlowOf(pipe'[k], Lo(k)', Hi(k)', Pass(k)')
    BY <1>7, <2>1, <2>2, <2>3
  <2> QED
    BY <2>4 DEF Flow, FlowOf
<1>10. Flows' /\ Drained' /\ InOrder'
  <2>1. ASSUME ~failed, NEW j \in {k, k + 1} PROVE Flow(j)'
    BY <1>4, <1>8, <1>9, <2>1
  <2>2. /\ place[k] \in {"send", "filter", "write"}
        /\ place'[k] \notin {"wait", "exited"}
        /\ c \in {k, k + 1}
        /\ \A l \in Stages : l # k => numero'[l] = numero[l]
    BY <1>1, <1>2, <1>4
  <2> QED
    BY <1>0, <1>1, <1>2, <1>6, <2>1, <2>2, WorkOn
<1>11. InHand'
  <2>1. ASSUME NEW l \in Stages, place'[l] = "write"
        PROVE  /\ numero'[l] \in Numbers
               /\ ~failed' => numero'[l] \in Pass(l + 1)'
    <3>1. place[l] = "write"
      BY <1>2, <2>1
    <3> QED
      BY <1>0, <1>1, <3>1 DEF InHand, Pass
  <2>2. place'[0] = place[0]
    BY <1>0, <1>2, ChainSizes
  <2> QED
    BY <1>0, <1>1, <2>1, <2>2 DEF InHand
<1> QED
  BY <1>10, <1>11

\* A filter reads the next number.
LEMMA FilterFlow ==
  ASSUME SieveInv, NEW k \in Stages, k > 0, Filter(k)
  PROVE  Flows' /\ Drained' /\ InOrder' /\ InHand'
<1>0. /\ SieveControl /\ InHand /\ InOrder /\ Flows /\ Drained /\ Ends
      /\ pipe \in [Pipes -> Seq(Numbers)] /\ place \in [Stages -> Places]
      /\ numero \in [Stages -> 0 .. Limit + 1] /\ k \in Nat /\ k \in Pipes
  BY ChainSizes DEF SieveInv, SieveControl, SieveTypeOK
<1>m. PICK m \in Numbers : m = Head(pipe[k])
  <2>1. pipe[k] \in Seq(Numbers) /\ pipe[k] # <<>>
    BY <1>0 DEF Filter
  <2> QED
    BY <2>1, HeadTailProperties
<1>t. PICK to \in {"write", "filter"} :
        to = IF m % primo[k] # 0 THEN "write" ELSE "filter"
  OBVIOUS
<1>1. /\ place[k] = "filter" /\ place' = [place EXCEPT ![k] = to]
      /\ out' = out /\ primo' = primo /\ failed' = failed /\ pipe[k] # <<>>
      /\ numero' = [numero EXCEPT ![k] = m]
      /\ pipe' = [pipe EXCEPT ![k] = Tail(pipe[k])]
  BY <1>m, <1>t DEF Filter
<1>2. /\ place'[k] = to /\ \A l \in Stages : l # k => place'[l] = place[l]
      /\ numero'[k] = m /\ \A l \in Stages : l # k => numero'[l] = numero[l]
      /\ pipe'[k] = Tail(pipe[k])
      /\ \A j \in Pipes : j # k => pipe'[j] = pipe[j]
  BY <1>0, <1>1
<1>3. k \in 1 .. Len(out) /\ Len(out) \in Nat
  BY <1>0, <1>1, Working
<1>4. PICK c \in 1 .. Len(out) + 1 : c = k + 1
  BY <1>3
<1>5. /\ c \in Pipes /\ k \in 1 .. Len(out) + 1 /\ c \in Nat /\ c > 1
      /\ c - 1 = k /\ c # k /\ primo[k] = out[k]
      /\ Lo(k) \in Int /\ Hi(k) \in Int /\ Lo(c) \in Int /\ Hi(c) \in Int
      /\ pipe[k] \in Seq(Numbers) /\ m \in Nat /\ Lo(k) \in Int
  <2>1. m \in Nat
    BY ChainSizes DEF Numbers
  <2> QED
    BY <1>0, <1>3, <1>4, <2>1, LoHi
<1>6. Pass(k)' = Pass(k) /\ Pass(c)' = Pass(c)
  BY <1>1 DEF Pass
<1>7. ASSUME NEW x
      PROVE  x \in Pass(c) <=> x \in Pass(k) /\ x % primo[k] # 0
  <2>1. \A i : i \in 1 .. c - 1 <=> i \in 1 .. k - 1 \/ i = k
    BY <1>0, <1>5
  <2> QED
    BY <1>5, <2>1 DEF Pass
<1>8. ASSUME ~failed
      PROVE  /\ m \in Pass(k) /\ Lo(k) < m /\ m <= Hi(k)
             /\ \A x \in Numbers :
                  x \in Pass(k) /\ Lo(k) < x /\ x <= Hi(k) => m <= x
             /\ FlowOf(Tail(pipe[k]), m, Hi(k), Pass(k))
  <2>1. FlowOf(pipe[k], Lo(k), Hi(k), Pass(k))
    BY <1>0, <1>5, <1>8 DEF Flows, Flow
  <2> QED
    BY <1>1, <1>5, <1>m, <2>1, ReadFlow
<1>9. ASSUME ~failed PROVE Flow(k)' /\ Lo(k)' = m
  <2>1. Lo(k)' = m
    <3>1. m # 0
      BY <1>8, <1>9, ChainSizes DEF Pass
    <3> QED
      BY <1>1, <1>2, <1>3, <3>1 DEF Lo
  <2>2. Hi(k)' = Hi(k)
    <3>0. k - 1 \in Stages /\ k - 1 # k
      BY <1>0, ChainSizes
    <3>1. CASE k = 1
      <4>1. numero'[0] = numero[0]
        BY <1>2, <3>0, <3>1
      <4> QED
        BY <3>1, <4>1 DEF Hi
    <3>2. CASE k # 1
      <4>1. Lo(k - 1)' = Lo(k - 1)
        BY <1>1, <1>2, <3>0, LoSame
      <4> QED
        BY <1>2, <3>0, <3>2, <4>1, HiSame
    <3> QED
      BY <3>1, <3>2
  <2>3. FlowOf(pipe'[k], Lo(k)', Hi(k)', Pass(k)')
    BY <1>2, <1>6, <1>8, <1>9, <2>1, <2>2
  <2> QED
    BY <2>1, <2>3 DEF Flow, FlowOf
<1>10. ASSUME ~failed PROVE Flow(c)'
  <2>1. FlowOf(pipe[c], Lo(c), Lo(k), Pass(c))
    <3>1. Hi(c) = Lo(k)
      BY <1>1, <1>5 DEF Hi
    <3>2. FlowOf(pipe[c], Lo(c), Hi(c), Pass(c))
      BY <1>0, <1>10 DEF Flows, Flow
    <3> QED
      BY <3>1, <3>2
  <2>2. Lo(c)' = Lo(c) /\ pipe'[c] = pipe[c]
    <3>1. CASE c \in Stages
      BY <1>1, <1>2, <1>5, <3>1, LoSame
    <3>2. CASE c \notin Stages
      <4>1. c > Len(out)
        BY <1>0, <1>4, <1>5, <3>2, LoHi
      <4> QED
        BY <1>1, <1>2, <1>5, <4>1 DEF Lo
    <3> QED
      BY <3>1, <3>2
  <2>3. ASSUME NEW x \in Numbers, x \in Pass(c), Lo(k) < x
        PROVE  m <= x
    <3>1. x \in Nat /\ x \in Pass(k)
      BY <1>7, <2>3, ChainSizes DEF Numbers
    <3>2. CASE x <= Hi(k)
      BY <1>8, <1>10, <2>3, <3>1, <3>2
    <3>3. CASE ~(x <= Hi(k))
      BY <1>5, <1>8, <1>10, <3>1, <3>3
    <3> QED
      BY <3>2, <3>3
  <2>4. \A x \in Numbers : x \in Nat
    BY ChainSizes DEF Numbers
  <2>5. CASE m % primo[k] # 0
    <3>1. Hi(c)' = m - 1
      BY <1>2, <1>5, <1>t, <2>5 DEF Hi
    <3>2. \A x \in Numbers : x \in Pass(c) => ~(Lo(k) < x /\ x <= m - 1)
      <4> SUFFICES ASSUME NEW x \in Numbers, x \in Pass(c), Lo(k) < x
                   PROVE  ~(x <= m - 1)
        OBVIOUS
      <4>1. m <= x /\ x \in Nat /\ m \in Int
        BY <1>5, <2>3, <2>4
      <4> QED
        BY <4>1
    <3>3. Lo(k) <= m - 1 /\ m - 1 \in Int
      BY <1>5, <1>8, <1>10
    <3>4. FlowOf(pipe[c], Lo(c), m - 1, Pass(c))
      BY <1>5, <2>1, <3>2, <3>3, ExtendFlow
    <3>5. FlowOf(pipe'[c], Lo(c)', Hi(c)', Pass(c)')
      BY <1>6, <2>2, <3>1, <3>4
    <3> QED
      BY <3>5 DEF Flow, FlowOf
  <2>6. CASE m % primo[k] = 0
    <3>1. Hi(c)' = m
      <4>1. Hi(c)' = Lo(k)'
        BY <1>2, <1>5, <1>t, <2>6 DEF Hi
      <4> QED
        BY <1>9, <1>10, <4>1
    <3>2. \A x \in Numbers : x \in Pass(c) => ~(Lo(k) < x /\ x <= m)
      <4> SUFFICES ASSUME NEW x \in Numbers, x \in Pass(c), Lo(k) < x, x <= m
                   PROVE  FALSE
        OBVIOUS
      <4>1. x = m
        BY <1>5, <2>3, <2>4
      <4> QED
        BY <1>7, <2>6, <4>1
    <3>3. Lo(k) <= m /\ m \in Int
      BY <1>5, <1>8, <1>10
    <3>4. FlowOf(pipe[c], Lo(c), m, Pass(c))
      BY <1>5, <2>1, <3>2, <3>3, ExtendFlow
    <3>5. FlowOf(pipe'[c], Lo(c)', Hi(c)', Pass(c)')
      BY <1>6, <2>2, <3>1, <3>4
    <3> QED
      BY <3>5 DEF Flow, FlowOf
  <2> QED
    BY <2>5, <2>6
<1>11. Flows' /\ Drained' /\ InOrder'
  <2>1. ASSUME ~failed, NEW j \in {k, k + 1} PROVE Flow(j)'
    BY <1>4, <1>9, <1>10, <2>1
  <2>2. /\ place[k] \in {"send", "filter", "write"}
        /\ place'[k] \notin {"wait", "exited"}
        /\ k \in {k, k + 1} /\ k \in 1 .. Len(out) + 1
    BY <1>1, <1>2, <1>5
  <2> QED
    BY <1>0, <1>1, <1>2, <2>1, <2>2, WorkOn
<1>12. InHand'
  <2>1. ASSUME NEW l \in Stages, place'[l] = "write"
        PROVE  /\ numero'[l] \in Numbers
               /\ ~failed' => numero'[l] \in Pass(l + 1)'
    <3>1. CASE l = k
      <4>1. m % primo[k] # 0
        BY <1>2, <1>t, <2>1, <3>1
      <4>2. ~failed => m \in Pass(c)
        BY <1>7, <1>8, <4>1
      <4> QED
        BY <1>1, <1>2, <1>4, <1>6, <3>1, <4>2
    <3>2. CASE l # k
      BY <1>0, <1>1, <1>2, <2>1, <3>2 DEF InHand, Pass
    <3> QED
      BY <3>1, <3>2
  <2>2. place'[0] = place[0] /\ numero'[0] = numero[0]
    BY <1>0, <1>2, ChainSizes
  <2> QED
    BY <1>0, <1>1, <2>1, <2>2 DEF InHand
<1> QED
  BY <1>11, <1>12

\* The first number that process k reads is the next prime.
LEMMA FirstFlow ==
  ASSUME SieveInv, NEW k \in Stages, k > 0, FirstRead(k)
  PROVE  Flows' /\ Drained' /\ InOrder' /\ InHand'
<1>0. /\ SieveControl /\ InHand /\ InOrder /\ Flows /\ Drained /\ Ends
      /\ pipe \in [Pipes -> Seq(Numbers)] /\ place \in [Stages -> Places]
      /\ primo \in [Stages -> Numbers] /\ k \in Nat /\ k \in Pipes
      /\ k + 1 \in Pipes
  BY ChainSizes DEF SieveInv, SieveControl, SieveTypeOK
<1>h. PICK h \in Numbers : h = Head(pipe[k])
  <2>1. pipe[k] \in Seq(Numbers) /\ pipe[k] # <<>>
    BY <1>0 DEF FirstRead
  <2> QED
    BY <2>1, HeadTailProperties
<1>1. /\ place[k] = "first" /\ place' = [place EXCEPT ![k] = "fork"]
      /\ out' = Append(out, h) /\ primo' = [primo EXCEPT ![k] = h]
      /\ failed' = failed /\ pipe[k] # <<>> /\ numero' = numero
      /\ pipe' = [pipe EXCEPT ![k] = Tail(pipe[k])]
  BY <1>h DEF FirstRead, Moves
<1>2. /\ place'[k] = "fork" /\ \A l \in Stages : l # k => place'[l] = place[l]
      /\ primo'[k] = h /\ \A l \in Stages : l # k => primo'[l] = primo[l]
      /\ pipe'[k] = Tail(pipe[k])
      /\ \A j \in Pipes : j # k => pipe'[j] = pipe[j]
  BY <1>0, <1>1
<1>3. PICK n \in Nat : n = Len(out) /\ k = n + 1 /\ ~failed /\ numero[k] = 0
  BY <1>0, <1>1, LastForks
<1>4. /\ Len(out') = k /\ DOMAIN out' = 1 .. k /\ out'[k] = h
      /\ DOMAIN out = 1 .. n /\ out \in Seq(Numbers)
      /\ \A i \in 1 .. n : out'[i] = out[i]
  <2>1. out \in Seq(Numbers)
    BY <1>0, LoHi
  <2> QED
    BY <1>1, <1>3, <2>1, AppendProperties
<1>5. /\ k \in 1 .. Len(out) + 1 /\ Lo(k) \in Int /\ Hi(k) \in Int
      /\ pipe[k] \in Seq(Numbers) /\ h \in Nat
      /\ \A x \in Numbers : x \in Nat
      /\ \A l \in 1 .. n : l \in Stages
  <2>1. \A x \in Numbers : x \in Nat
    BY ChainSizes DEF Numbers
  <2> QED
    BY <1>0, <1>3, <2>1, LoHi
<1>6. Lo(k) = 1
  BY <1>3 DEF Lo
<1>7. /\ h \in Pass(k) /\ h <= Hi(k) /\ 1 < h
      /\ \A x \in Numbers : x \in Pass(k) /\ 1 < x /\ x <= Hi(k) => h <= x
      /\ FlowOf(Tail(pipe[k]), h, Hi(k), Pass(k))
  <2>1. FlowOf(pipe[k], Lo(k), Hi(k), Pass(k))
    BY <1>0, <1>3, <1>5 DEF Flows, Flow
  <2>2. FlowOf(pipe[k], 1, Hi(k), Pass(k)) /\ 1 \in Int
    BY <1>6, <2>1
  <2> QED
    BY <1>1, <1>5, <1>h, <2>2, ReadFlow
<1>8. \A x \in Pass(k) : h <= x
  <2> SUFFICES ASSUME NEW x \in Pass(k) PROVE h <= x
    OBVIOUS
  <2>1. x \in Nat /\ x \in Numbers /\ 1 < x
    BY ChainSizes DEF Pass, Numbers
  <2> QED
    BY <1>5, <1>7, <2>1
<1>9. /\ IsPrime(h) /\ h \notin Range(out)
      /\ \A x \in Numbers : IsPrime(x) /\ x \notin Range(out) => h <= x
  BY <1>0, <1>3, <1>4, <1>7, <1>8, NextPrime
<1>10. InOrder'
  <2>0. \A i \in 1 .. k : i \in 1 .. n \/ i = k
    BY <1>3
  <2>1. ASSUME NEW i \in 1 .. k PROVE IsPrime(out'[i])
    BY <1>0, <1>4, <1>9, <2>0 DEF InOrder
  <2>2. \A i \in 1 .. n : out[i] < h
    BY <1>0, <1>4, <1>9 DEF InOrder
  <2>3. ASSUME NEW i \in 1 .. k, NEW j \in 1 .. k, i < j
        PROVE  out'[i] < out'[j]
    <3>1. i \in 1 .. n
      BY <1>3, <2>3
    <3>2. CASE j = k
      BY <1>4, <2>2, <3>1, <3>2
    <3>3. CASE j \in 1 .. n
      BY <1>0, <1>4, <2>3, <3>1, <3>3 DEF InOrder
    <3> QED
      BY <2>0, <3>2, <3>3
  <2>4. ASSUME NEW x \in Numbers, IsPrime(x), x \notin Range(out'),
               NEW i \in 1 .. k
        PROVE  out'[i] < x
    <3>1. x # h
      BY <1>0, <1>4, <2>4 DEF Range
    <3>2. x \notin Range(out)
      <4> SUFFICES ASSUME NEW a \in 1 .. n, x = out[a] PROVE FALSE
        BY <1>4 DEF Range
      <4>1. a \in 1 .. k /\ out'[a] = x
        BY <1>3, <1>4
      <4> QED
        BY <1>4, <2>4, <4>1 DEF Range
    <3>3. h < x
      BY <1>5, <1>9, <2>4, <3>1, <3>2
    <3>4. CASE i = k
      BY <1>4, <3>3, <3>4
    <3>5. CASE i \in 1 .. n
      BY <1>0, <1>4, <2>4, <3>2, <3>5 DEF InOrder
    <3> QED
      BY <2>0, <3>4, <3>5
  <2> QED
    BY <1>4, <2>1, <2>3, <2>4 DEF InOrder, IsPrime
<1>11. ASSUME NEW j \in Nat, j <= k PROVE Pass(j)' = Pass(j)
  <2>1. \A i \in 1 .. j - 1 : out'[i] = out[i]
    BY <1>3, <1>4, <1>11
  <2> QED
    BY <2>1 DEF Pass
<1>12. ASSUME NEW j \in 1 .. n PROVE Lo(j)' = Lo(j)
  <2>1. j \in Stages /\ j # k /\ ~(j > Len(out)) /\ ~(j > Len(out'))
    BY <1>3, <1>4, <1>5
  <2>2. primo'[j] = primo[j] /\ numero' = numero
    BY <1>1, <1>2, <2>1
  <2> QED
    BY <2>1, <2>2 DEF Lo
<1>13. ASSUME NEW j \in 1 .. k PROVE Hi(j)' = Hi(j)
  <2>1. CASE j = 1
    BY <1>1, <2>1 DEF Hi
  <2>2. CASE j # 1
    <3>1. j - 1 \in 1 .. n /\ j - 1 # k
      BY <1>3, <2>2
    <3>2. Lo(j - 1)' = Lo(j - 1) /\ place'[j - 1] = place[j - 1]
      BY <1>2, <1>5, <1>12, <3>1
    <3> QED
      BY <1>1, <2>2, <3>2, HiSame
  <2> QED
    BY <2>1, <2>2
<1>14. Lo(k)' = h
  BY <1>1, <1>2, <1>3, <1>4 DEF Lo
<1>15. Flows'
  <2>1. ASSUME NEW j \in 1 .. n PROVE Flow(j)'
    <3>1. /\ FlowOf(pipe[j], Lo(j), Hi(j), Pass(j)) /\ j \in Nat /\ j <= k
          /\ j \in 1 .. k /\ j # k /\ j \in Pipes
      <4>1. j \in 1 .. Len(out) + 1 /\ j \in Nat /\ j <= k /\ j # k
        BY <1>3
      <4>2. j \in Pipes
        BY <1>0, <4>1, LoHi
      <4> QED
        BY <1>0, <1>3, <4>1, <4>2 DEF Flows, Flow
    <3>2. FlowOf(pipe'[j], Lo(j)', Hi(j)', Pass(j)')
      BY <1>2, <1>11, <1>12, <1>13, <3>1
    <3> QED
      BY <3>2 DEF Flow, FlowOf
  <2>2. Flow(k)'
    <3>1. k \in 1 .. k /\ k <= k
      BY <1>3
    <3>2. FlowOf(pipe'[k], Lo(k)', Hi(k)', Pass(k)')
      BY <1>0, <1>2, <1>7, <1>11, <1>13, <1>14, <3>1
    <3> QED
      BY <3>2 DEF Flow, FlowOf
  <2>3. PICK c \in Pipes : c = k + 1
    BY <1>0
  <2>4. Flow(c)'
    <3>1. c # 1 /\ c - 1 = k /\ c > k /\ c # k
      BY <1>0, <1>3, <2>3
    <3>2. Lo(c)' = 1
      BY <1>4, <3>1 DEF Lo
    <3>3. Hi(c)' = h
      BY <1>2, <1>14, <3>1 DEF Hi
    <3>4. pipe'[c] = <<>>
      BY <1>0, <1>2, <1>3, <2>3, <3>1 DEF Flows
    <3>5. ASSUME NEW x \in Numbers, x \in Pass(c)', x <= h PROVE FALSE
      <4>1. /\ x \in 2 .. Limit /\ x % out'[k] # 0
            /\ \A i \in 1 .. k - 1 : x % out'[i] # 0
        BY <1>3, <3>1, <3>5 DEF Pass
      <4>2. \A i \in 1 .. k - 1 : x % out[i] # 0
        BY <1>3, <1>4, <4>1
      <4>3. x \in Pass(k)
        BY <4>1, <4>2 DEF Pass
      <4>4. x = h
        BY <1>5, <1>8, <3>5, <4>3
      <4>5. h % h = 0
        BY <1>5, <1>7, DividesItself
      <4> QED
        BY <1>4, <4>1, <4>4, <4>5
    <3>6. Range(<<>>) = {} /\ DOMAIN <<>> = {}
      BY DEF Range
    <3>7. FlowOf(<<>>, 1, h, Pass(c)')
      BY <1>5, <1>7, <3>5, <3>6 DEF FlowOf
    <3>8. FlowOf(pipe'[c], Lo(c)', Hi(c)', Pass(c)')
      BY <3>2, <3>3, <3>4, <3>7
    <3> QED
      BY <3>8 DEF Flow, FlowOf
  <2>5. ASSUME NEW j \in 1 .. k + 1 PROVE Flow(j)'
    <3>1. j \in 1 .. n \/ j = k \/ j = c
      BY <1>3, <2>3
    <3> QED
      BY <2>1, <2>2, <2>4, <3>1
  <2>6. ASSUME NEW j \in Pipes, j > k + 1 PROVE pipe'[j] = <<>>
    <3>1. j # k /\ j > Len(out) + 1
      <4>1. j \in Nat
        BY ChainSizes
      <4> QED
        BY <1>3, <2>6, <4>1
    <3> QED
      BY <1>0, <1>2, <3>1 DEF Flows
  <2> QED
    BY <1>4, <2>5, <2>6 DEF Flows
<1>16. Drained'
  <2>0. \A l \in Stages : l \in Nat
    BY ChainSizes
  <2>1. ASSUME NEW l \in Stages, place'[l] \in {"wait", "exited"}
        PROVE  l # k /\ place[l] = place'[l] /\ (l <= k => l <= n)
    <3>1. l # k
      BY <1>2, <2>1
    <3>2. place'[l] = place[l]
      BY <1>2, <3>1
    <3>3. l \in Nat /\ (l <= k => l <= n)
      BY <1>3, <2>0, <3>1
    <3> QED
      BY <3>1, <3>2, <3>3
  <2>2. ASSUME NEW l \in Stages, l > 0, place'[l] \in {"wait", "exited"}
        PROVE  place'[l - 1] \in {"wait", "exited"}
    <3>1. place[l - 1] \in {"wait", "exited"} /\ l - 1 \in Stages
      BY <1>0, <1>3, <2>1, <2>2, ChainSizes DEF Drained
    <3> QED
      BY <1>1, <1>2, <3>1
  <2>3. ASSUME NEW l \in Stages, place'[l] \in {"wait", "exited"}, l <= k,
               NEW x \in Pass(l + 1)'
        PROVE  x <= Hi(l + 1)'
    <3>1. /\ l <= n /\ place[l] \in {"wait", "exited"} /\ l + 1 \in 1 .. k
          /\ l + 1 \in Nat /\ l + 1 <= k
      BY <1>3, <2>0, <2>1, <2>3
    <3>2. Hi(l + 1)' = Hi(l + 1) /\ Pass(l + 1)' = Pass(l + 1)
      BY <1>11, <1>13, <3>1
    <3>3. \A y \in Pass(l + 1) : y <= Hi(l + 1)
      BY <1>0, <1>3, <3>1 DEF Drained
    <3> QED
      BY <2>3, <3>2, <3>3
  <2>4. ASSUME NEW l \in Stages, place'[l] = "exited", l <= k
        PROVE  l + 1 \in Stages /\ place'[l + 1] = "exited"
    <3>1. l + 1 \in Stages /\ place[l + 1] = "exited"
      BY <1>0, <1>3, <2>1, <2>4 DEF Drained
    <3> QED
      BY <1>1, <1>2, <3>1
  <2>5. ASSUME NEW l \in Stages, place'[l] = "exited", l = k + 1
        PROVE  FALSE
    <3>1. place[l] = "exited" /\ k < l
      BY <1>0, <2>1, <2>5
    <3> QED
      BY <1>0, <1>1, <3>1 DEF SieveControl, Chained
  <2> QED
    BY <1>4, <2>2, <2>3, <2>4, <2>5 DEF Drained
<1>17. InHand'
  <2>1. ASSUME NEW l \in Stages, place'[l] = "write"
        PROVE  /\ numero'[l] \in Numbers
               /\ ~failed' => numero'[l] \in Pass(l + 1)'
    <3>1. place[l] = "write"
      BY <1>2, <2>1
    <3>2. l <= n /\ l \in Nat
      BY <1>0, <1>3, <3>1, Working
    <3>3. Pass(l + 1)' = Pass(l + 1)
      BY <1>3, <1>11, <3>2
    <3> QED
      BY <1>0, <1>1, <3>1, <3>3 DEF InHand
  <2>2. place'[0] = place[0]
    BY <1>0, <1>2, ChainSizes
  <2> QED
    BY <1>0, <1>1, <2>1, <2>2 DEF InHand
<1> QED
  BY <1>10, <1>15, <1>16, <1>17

LEMMA SieveInitial == SieveInit => SieveInv
<1> SUFFICES ASSUME SieveInit PROVE SieveInv
  OBVIOUS
<1>1. /\ out = <<>> /\ Len(out) = 0 /\ failed = FALSE /\ DOMAIN out = {}
      /\ \A k \in Stages : place[k] = IF k = 0 THEN "fork" ELSE "unborn"
      /\ \A k \in Stages : numero[k] = 0 /\ primo[k] = 0
      /\ \A j \in Pipes : pipe[j] = <<>> /\ rfds[j] = {} /\ wfds[j] = {}
  BY DEF SieveInit
<1>2. 0 \in Stages /\ \A l \in Stages : l \in Nat
  BY ChainSizes
<1>3. SieveTypeOK
  <2>1. 0 \in Numbers /\ 0 \in 0 .. Limit + 1 /\ Capacity \in Nat
    BY ChainSizes, SieveAssumption DEF Numbers
  <2>2. <<>> \in Seq(Numbers) /\ Len(<<>>) = 0
    OBVIOUS
  <2>3. place \in [Stages -> Places]
    BY DEF SieveInit, Places
  <2>4. pipe \in [Pipes -> Seq(Numbers)]
    BY <2>2, Zenon DEF SieveInit
  <2>5. \A j \in Pipes : Len(pipe[j]) <= Capacity
    BY <1>1, <2>1, <2>2
  <2>6. /\ rfds \in [Pipes -> SUBSET Stages]
        /\ wfds \in [Pipes -> SUBSET Stages]
        /\ primo \in [Stages -> Numbers]
        /\ numero \in [Stages -> 0 .. Limit + 1]
    BY <2>1 DEF SieveInit
  <2> QED
    BY <1>1, <2>2, <2>3, <2>4, <2>5, <2>6 DEF SieveTypeOK
<1>4. Chained
  BY <1>1, <1>2 DEF Chained
<1>5. Printed
  BY <1>1, <1>2 DEF Printed
<1>6. FailedLast
  BY <1>1 DEF FailedLast
<1>7. Ends
  <2> SUFFICES ASSUME NEW j \in Pipes, NEW k \in Stages
               PROVE  ~Writer(j, k) /\ ~Reader(j, k)
    BY <1>1 DEF Ends
  <2>1. place[k] = "unborn" \/ (k = 0 /\ place[k] = "fork" /\ k # j)
    BY <1>1, ChainSizes
  <2> QED
    BY <2>1 DEF Writer, Reader
<1>8. Flows
  <2>1. 1 \in Pipes /\ Lo(1) = 1 /\ Hi(1) = 1
    BY <1>1, <1>2, ChainSizes DEF Lo, Hi, Pipes
  <2>2. \A x \in Numbers : x \in Int
    BY ChainSizes DEF Numbers
  <2>3. Range(<<>>) = {} /\ DOMAIN <<>> = {}
    BY DEF Range
  <2>4. FlowOf(<<>>, 1, 1, Pass(1))
    BY <2>2, <2>3 DEF FlowOf
  <2>5. Flow(1)
    BY <1>1, <2>1, <2>4 DEF Flow
  <2>6. ASSUME NEW j \in 1 .. Len(out) + 1 PROVE j = 1
    BY <1>1
  <2> QED
    BY <1>1, <2>5, <2>6 DEF Flows
<1>9. InHand
  BY <1>1, <1>2 DEF InHand
<1>10. Drained
  BY <1>1, <1>2 DEF Drained
<1>11. InOrder
  BY <1>1 DEF InOrder
<1> QED
  BY <1>3, <1>4, <1>5, <1>6, <1>7, <1>8, <1>9, <1>10, <1>11
     DEF SieveInv, SieveControl

LEMMA SieveKept ==
  ASSUME SieveInv, NEW k \in Stages, SieveStep(k)
  PROVE  SieveInv'
<1>0. /\ SieveControl /\ InHand /\ InOrder /\ Flows /\ Drained /\ Ends
      /\ SieveTypeOK
  BY DEF SieveInv, SieveControl
<1>1. SieveTypeOK'
  BY <1>0, SieveTypes DEF InHand
<1>2. SieveControl'
  BY <1>0, <1>1, SieveControlStep
<1>3. Ends'
  BY <1>0, EndsStep
<1>4. Flows' /\ Drained' /\ InOrder' /\ InHand'
  <2>1. CASE Quiet(k)
    <3>1. /\ FlowSame /\ pipe' = pipe /\ InHand'
          /\ failed' = failed \/ failed'
      BY <1>0, <2>1, QuietSame
    <3>2. failed \in BOOLEAN /\ failed' \in BOOLEAN
      BY <1>0, <1>1 DEF SieveTypeOK
    <3>3. failed' = FALSE => failed = FALSE
      BY <3>1, <3>2
    <3>4. Flows'
      BY <1>0, <3>1, <3>2, <3>3, SameFlows
    <3>5. out' = out
      BY <3>1 DEF FlowSame
    <3>6. InOrder'
      BY <1>0, <3>5 DEF InOrder
    <3> QED
      BY <2>1, <3>1, <3>4, <3>6, QuietDrained
  <2>2. CASE k = 0 /\ Send
    BY <2>2, SendFlow
  <2>3. CASE k > 0 /\ FirstRead(k)
    BY <2>3, FirstFlow
  <2>4. CASE k > 0 /\ Filter(k)
    BY <2>4, FilterFlow
  <2>5. CASE k > 0 /\ FilterWrite(k)
    BY <2>5, FilterWriteFlow
  <2> QED
    BY <2>1, <2>2, <2>3, <2>4, <2>5 DEF SieveStep, Quiet
<1> QED
  BY <1>2, <1>3, <1>4 DEF SieveInv

\* When main has ended, the numbers are used up.
LEMMA SieveComplete == SieveInv => SieveSound
<1> SUFFICES ASSUME SieveInv PROVE SieveSound
  OBVIOUS
<1>0. /\ SieveControl /\ InHand /\ InOrder /\ Drained /\ 0 \in Stages
  BY ChainSizes DEF SieveInv
<1>1. PICK n \in Nat : n = Len(out)
  BY <1>0, LoHi
<1>2. /\ n \in Stages /\ DOMAIN out = 1 .. n
      /\ \A i \in 1 .. n : out[i] \in Nat /\ out[i] > 1
  <2>1. \A i \in 1 .. n : out[i] \in Nat /\ out[i] > 1
    BY <1>0, <1>1, LoHi
  <2>2. out \in Seq(Numbers)
    BY <1>0, LoHi
  <2> QED
    BY <1>0, <1>1, <2>1, <2>2 DEF SieveControl, Printed
<1>3. NobodyLeft
  <2> SUFFICES ASSUME place[0] = "exited", NEW k \in Stages
               PROVE  place[k] \in {"unborn", "exited"}
    BY DEF NobodyLeft
  <2>1. k = 0 \/ 0 < k
    BY ChainSizes
  <2> QED
    BY <1>0, <2>1 DEF SieveControl, Chained
<1>4. ASSUME place[0] = "exited", ~failed, NEW x \in Numbers, IsPrime(x),
             x \notin Range(out)
      PROVE  FALSE
  <2>1. place[n] = "exited"
    <3>1. place[n] \in {"unborn", "exited"}
      BY <1>2, <1>3, <1>4 DEF NobodyLeft
    <3>2. place[n] # "unborn"
      <4>1. ~(n > Len(out))
        BY <1>1
      <4> QED
        BY <1>0, <1>2, <4>1 DEF SieveControl, Printed
    <3> QED
      BY <3>1, <3>2
  <2>2. n + 1 \in Stages /\ place[n + 1] = "exited"
    BY <1>0, <1>1, <1>2, <1>4, <2>1 DEF Drained
  <2>3. Pass(n + 1) = {}
    BY <1>0, <1>1, <1>4, <2>2 DEF Drained
  <2>4. x \in Nat /\ x \in 2 .. Limit
    BY <1>4, ChainSizes DEF Numbers, IsPrime
  <2>5. PICK i \in 1 .. n : x % out[i] = 0
    <3>1. (n + 1) - 1 = n
      OBVIOUS
    <3>2. x \notin Pass(n + 1)
      BY <2>3
    <3> QED
      BY <2>4, <3>1, <3>2 DEF Pass
  <2>6. x = out[i]
    BY <1>2, <1>4, <2>4, <2>5, PrimeDivisor
  <2> QED
    BY <1>2, <1>4, <2>6 DEF Range
<1>5. PrintsPrimes
  BY <1>0, <1>4 DEF PrintsPrimes, InOrder
<1> QED
  BY <1>3, <1>5 DEF SieveSound

(* However its processes are scheduled, whatever the limit, the size of    *)
(* the pipes and the number of processes the kernel can hold, user/primes  *)
(* prints the primes in order and without a gap, all of them before main   *)
(* ends unless a fork() failed, and leaves no process behind.              *)
THEOREM SieveIsSound == SieveSpec => []SieveSound
<1>1. SieveInv /\ [SieveNext]_sieveVars => SieveInv'
  <2> SUFFICES ASSUME SieveInv, [SieveNext]_sieveVars PROVE SieveInv'
    OBVIOUS
  <2>1. CASE SieveNext
    BY <2>1, SieveKept DEF SieveNext
  <2>2. CASE UNCHANGED sieveVars
    <3>1. /\ place' = place /\ pipe' = pipe /\ rfds' = rfds /\ wfds' = wfds
          /\ primo' = primo /\ numero' = numero /\ out' = out
          /\ failed' = failed
      BY <2>2 DEF sieveVars
    <3>2. SieveTypeOK' /\ Chained' /\ Printed' /\ FailedLast'
      BY <3>1 DEF SieveInv, SieveControl, SieveTypeOK, Chained, Printed,
                  FailedLast
    <3>3. Ends' /\ InHand' /\ InOrder'
      BY <3>1 DEF SieveInv, Ends, Writer, Reader, InHand, Pass, InOrder
    <3>4. Flows' /\ Drained'
      BY <3>1 DEF SieveInv, Flows, Flow, Lo, Hi, Pass, Drained
    <3> QED
      BY <3>2, <3>3, <3>4 DEF SieveInv, SieveControl
  <2> QED
    BY <2>1, <2>2
<1> QED
  BY <1>1, SieveInitial, SieveComplete, PTL DEF SieveSpec
-----------------------------------------------------------------------------
\* The list of user/umalloc.c: in the order of addresses, and no two free
\* blocks touch.
InList(l) ==
  /\ l \in [DOMAIN l -> [ptr : Nat, size : Nat]] /\ DOMAIN l \subseteq Nat
  /\ Base \in DOMAIN l /\ l[Base].size = 0
  /\ \A a \in DOMAIN l : a # Base => a >= HeapStart /\ l[a].size > 0
  /\ \A a, b \in DOMAIN l : a # Base /\ a < b => a + l[a].size < b
Linked(l) ==
  \A a \in DOMAIN l :
    \/ l[a].ptr = Base /\ \A b \in DOMAIN l : b <= a
    \/ /\ l[a].ptr \in DOMAIN l /\ l[a].ptr > a
       /\ \A b \in DOMAIN l : b <= a \/ l[a].ptr <= b

\* The blocks that are handed out.
Handed(u) ==
  /\ u \in [DOMAIN u -> Nat] /\ DOMAIN u \subseteq Nat
  /\ \A a \in DOMAIN u : a >= HeapStart /\ u[a] > 0
  /\ \A a, b \in DOMAIN u : a < b => a + u[a] <= b

\* Both together.
Tiling(l, u, e) ==
  /\ e \in Nat /\ e >= HeapStart
  /\ \A a \in DOMAIN l : a # Base => a + l[a].size <= e
  /\ \A a \in DOMAIN u : a + u[a] <= e
  /\ \A a \in DOMAIN l, b \in DOMAIN u :
       a # Base => a + l[a].size <= b \/ b + u[b] <= a
  /\ \A x \in HeapStart .. e - 1 :
       \/ \E a \in DOMAIN l : a # Base /\ a <= x /\ x < a + l[a].size
       \/ \E a \in DOMAIN u : a <= x /\ x < a + u[a]

Heaped(l, u, e) == InList(l) /\ Linked(l) /\ Handed(u) /\ Tiling(l, u, e)

\* The loop that runs.
Calling ==
  /\ freep \in DOMAIN list
  /\ call \in [loop : {"none", "fit", "place"}, p : DOMAIN list, nunits : Nat,
               bp : Nat]
  /\ call.loop = "fit" => call.nunits > 0
  /\ call.loop = "place" => call.bp \in DOMAIN used

HeapInv == Heaped(list, used, brk) /\ Calling
-----------------------------------------------------------------------------
\* A block is handed out.
LEMMA HandOut ==
  ASSUME NEW u, Handed(u), NEW x \in Nat, NEW n \in Nat,
         x >= HeapStart, n > 0,
         \A a \in DOMAIN u : a + u[a] <= x \/ x + n <= a,
         NEW v, v = Added(u, x, n)
  PROVE  Handed(v) /\ x \notin DOMAIN u
<1>1. /\ DOMAIN v = DOMAIN u \cup {x} /\ v[x] = n
      /\ \A y \in DOMAIN u : y # x => v[y] = u[y]
      /\ v = [y \in DOMAIN v |-> v[y]]
  BY DEF Added
<1>2. \A a \in DOMAIN u :
        a \in Nat /\ u[a] \in Nat /\ u[a] > 0 /\ a >= HeapStart
  BY DEF Handed
<1>3. x \notin DOMAIN u
  BY <1>2
<1>4. \A a \in DOMAIN v :
        a \in Nat /\ v[a] \in Nat /\ a >= HeapStart /\ v[a] > 0
  BY <1>1, <1>2
<1>5. ASSUME NEW a \in DOMAIN v, NEW b \in DOMAIN v, a < b
      PROVE  a + v[a] <= b
  <2>1. CASE a = x
    <3>1. b \in DOMAIN u /\ b # x /\ b \in Nat /\ u[b] > 0
      BY <1>1, <1>2, <1>5, <2>1
    <3> QED
      BY <1>1, <1>2, <1>5, <2>1, <3>1
  <2>2. CASE a # x
    <3>1. a \in DOMAIN u /\ v[a] = u[a]
      BY <1>1, <2>2
    <3>2. CASE b = x
      BY <1>2, <1>5, <3>1, <3>2
    <3>3. CASE b # x
      BY <1>1, <1>5, <3>1, <3>3 DEF Handed
    <3> QED
      BY <3>2, <3>3
  <2> QED
    BY <2>1, <2>2
<1>6. v \in [DOMAIN v -> Nat] /\ DOMAIN v \subseteq Nat
  BY <1>1, <1>4
<1> QED
  BY <1>3, <1>4, <1>5, <1>6 DEF Handed

\* The types of the list, one block at a time.
LEMMA InListIs ==
  ASSUME NEW l, InList(l), NEW a \in DOMAIN l
  PROVE  a \in Nat /\ l[a].ptr \in Nat /\ l[a].size \in Nat
  BY DEF InList

\* The block after p.
LEMMA NextBlock ==
  ASSUME NEW l, InList(l), Linked(l), NEW p \in DOMAIN l, NEW n, n = l[p].ptr
  PROVE  /\ n \in DOMAIN l /\ n \in Nat /\ p \in Nat
         /\ n # p \/ (n = Base /\ p = Base /\ \A b \in DOMAIN l : b = Base)
         /\ n # Base => n > p /\ \A b \in DOMAIN l : b <= p \/ n <= b
         /\ n = Base => \A b \in DOMAIN l : b <= p
<1>1. \A b \in DOMAIN l : b \in Nat
  BY DEF InList
<1>2. Base \in DOMAIN l /\ Base = 0
  BY DEF InList, Base
<1>3. CASE n = Base /\ \A b \in DOMAIN l : b <= p
  BY <1>1, <1>2, <1>3
<1>4. CASE n \in DOMAIN l /\ n > p /\ \A b \in DOMAIN l : b <= p \/ n <= b
  BY <1>1, <1>2, <1>4
<1> QED
  BY <1>3, <1>4 DEF Linked

\* sbrk() makes the heap larger.
HeapGrown(l, u, e, n) ==
  /\ Heaped(l, Added(u, e, n), e + n)
  /\ DOMAIN Added(u, e, n) = DOMAIN u \cup {e}

LEMMA MoreHeap ==
  ASSUME NEW l, NEW u, NEW e \in Nat, Heaped(l, u, e), NEW n \in Nat \ {0}
  PROVE  HeapGrown(l, u, e, n)
<1>a. PICK v : v = Added(u, e, n)
  OBVIOUS
<1>b. PICK m \in Nat : m = e + n
  OBVIOUS
<1>c. n \in Nat /\ n > 0
  OBVIOUS
<1>0. InList(l) /\ Linked(l) /\ Handed(u) /\ Tiling(l, u, e)
  BY DEF Heaped
<1>1. e \in Nat /\ e >= HeapStart /\ \A a \in DOMAIN u : a + u[a] <= e
  BY <1>0 DEF Tiling
<1>2. Handed(v) /\ e \notin DOMAIN u
  BY <1>0, <1>1, <1>a, <1>c, HandOut
<1>3. /\ DOMAIN v = DOMAIN u \cup {e} /\ v[e] = n
      /\ \A y \in DOMAIN u : v[y] = u[y]
  BY <1>2, <1>a DEF Added
<1>4. \A a \in DOMAIN u : a \in Nat /\ u[a] \in Nat
  BY <1>0 DEF Handed
<1>5. \A a \in DOMAIN l : a \in Nat /\ l[a].size \in Nat
  BY <1>0 DEF InList
<1>6. Tiling(l, v, m)
  <2>1. m \in Nat /\ m >= HeapStart
    BY <1>1, <1>b, <1>c DEF HeapStart
  <2>2. \A a \in DOMAIN l : a # Base => a + l[a].size <= m
    BY <1>0, <1>1, <1>5, <1>b, <1>c DEF Tiling
  <2>3. \A a \in DOMAIN v : a + v[a] <= m
    BY <1>1, <1>3, <1>4, <1>b, <1>c
  <2>4. ASSUME NEW a \in DOMAIN l, NEW b \in DOMAIN v, a # Base
        PROVE  a + l[a].size <= b \/ b + v[b] <= a
    <3>1. CASE b = e
      BY <1>0, <2>4, <3>1 DEF Tiling
    <3>2. CASE b \in DOMAIN u
      BY <1>0, <1>3, <2>4, <3>2 DEF Tiling
    <3> QED
      BY <1>3, <3>1, <3>2
  <2>5. ASSUME NEW x \in HeapStart .. m - 1
        PROVE  \/ \E a \in DOMAIN l : a # Base /\ a <= x /\ x < a + l[a].size
               \/ \E a \in DOMAIN v : a <= x /\ x < a + v[a]
    <3>1. CASE x < e
      <4>1. x \in HeapStart .. e - 1
        BY <1>1, <3>1 DEF HeapStart
      <4>2. \/ \E a \in DOMAIN l : a # Base /\ a <= x /\ x < a + l[a].size
            \/ \E a \in DOMAIN u : a <= x /\ x < a + u[a]
        BY <1>0, <4>1 DEF Tiling
      <4> QED
        BY <1>3, <4>2
    <3>2. CASE ~(x < e)
      <4>1. e \in DOMAIN v /\ e <= x /\ x < e + v[e]
        BY <1>1, <1>3, <1>b, <1>c, <3>2 DEF HeapStart
      <4> QED
        BY <4>1
    <3> QED
      BY <3>1, <3>2
  <2> QED
    BY <2>1, <2>2, <2>3, <2>4, <2>5 DEF Tiling
<1> QED
  BY <1>0, <1>2, <1>3, <1>6, <1>a, <1>b DEF Heaped, HeapGrown

\* malloc() takes a block that is just large enough.
LEMMA TakeAll ==
  ASSUME NEW l, NEW u, NEW e, Heaped(l, u, e), NEW p \in DOMAIN l,
         NEW q, q = l[p].ptr, NEW n \in Nat, n > 0, l[q].size = n,
         NEW m, m = Removed([l EXCEPT ![p].ptr = l[q].ptr], {q}),
         NEW v, v = Added(u, q, n)
  PROVE  Heaped(m, v, e) /\ p \in DOMAIN m
<1>0. InList(l) /\ Linked(l) /\ Handed(u) /\ Tiling(l, u, e)
  BY DEF Heaped
<1>1. /\ q \in DOMAIN l /\ q \in Nat /\ p \in Nat /\ q # Base /\ q > p
      /\ \A b \in DOMAIN l : b <= p \/ q <= b
      /\ \A b \in DOMAIN l :
           b \in Nat /\ l[b].size \in Nat /\ l[b].ptr \in Nat
      /\ q >= HeapStart
  <2>1. q \in DOMAIN l /\ q \in Nat /\ p \in Nat
    BY <1>0, NextBlock
  <2>2. q # Base
    BY <1>0 DEF InList
  <2>3. q > p /\ \A b \in DOMAIN l : b <= p \/ q <= b
    BY <1>0, <2>2, NextBlock
  <2>4. \A b \in DOMAIN l : b \in Nat /\ l[b].size \in Nat /\ l[b].ptr \in Nat
    BY <1>0, InListIs
  <2> QED
    BY <1>0, <2>1, <2>2, <2>3, <2>4 DEF InList
<1>2. PICK r \in Nat : r = l[q].ptr
  BY <1>1
<1>3. /\ DOMAIN m = DOMAIN l \ {q} /\ p \in DOMAIN m /\ m[p].ptr = r
      /\ \A a \in DOMAIN m : m[a].size = l[a].size
      /\ \A a \in DOMAIN m : a # p => m[a].ptr = l[a].ptr
      /\ m \in [DOMAIN m -> [ptr : Nat, size : Nat]]
  <2>1. l \in [DOMAIN l -> [ptr : Nat, size : Nat]]
    BY <1>0 DEF InList
  <2>2. p # q
    BY <1>1
  <2>3. [l EXCEPT ![p].ptr = r] \in [DOMAIN l -> [ptr : Nat, size : Nat]]
    BY <2>1
  <2>4. PICK k \in [DOMAIN l -> [ptr : Nat, size : Nat]] :
          k = [l EXCEPT ![p].ptr = r]
    BY <2>3
  <2>5. /\ k[p].ptr = r /\ \A a \in DOMAIN l : k[a].size = l[a].size
        /\ \A a \in DOMAIN l : a # p => k[a].ptr = l[a].ptr
    BY <2>1, <2>4
  <2>6. m = [x \in DOMAIN l \ {q} |-> k[x]]
    BY <1>2, <2>4 DEF Removed
  <2> QED
    BY <2>2, <2>4, <2>5, <2>6
<1>4. InList(m)
  <2>1. DOMAIN m \subseteq Nat /\ Base \in DOMAIN m /\ m[Base].size = 0
    BY <1>0, <1>1, <1>3 DEF InList
  <2>2. \A a \in DOMAIN m : a # Base => a >= HeapStart /\ m[a].size > 0
    BY <1>0, <1>3 DEF InList
  <2>3. \A a, b \in DOMAIN m : a # Base /\ a < b => a + m[a].size < b
    BY <1>0, <1>3 DEF InList
  <2> QED
    BY <1>3, <2>1, <2>2, <2>3 DEF InList
<1>5. Linked(m)
  <2> SUFFICES ASSUME NEW a \in DOMAIN m
               PROVE  \/ m[a].ptr = Base /\ \A b \in DOMAIN m : b <= a
                      \/ /\ m[a].ptr \in DOMAIN m /\ m[a].ptr > a
                         /\ \A b \in DOMAIN m : b <= a \/ m[a].ptr <= b
    BY DEF Linked
  <2>1. CASE a = p
    <3>1. /\ r = Base => \A b \in DOMAIN l : b <= q
          /\ r # Base => /\ r \in DOMAIN l /\ r > q
                         /\ \A b \in DOMAIN l : b <= q \/ r <= b
      BY <1>0, <1>1, <1>2, NextBlock
    <3>2. \A b \in DOMAIN m : b \in DOMAIN l /\ b # q
      BY <1>3
    <3>3. CASE r = Base
      <4>1. ASSUME NEW b \in DOMAIN m PROVE b <= p
        <5>1. b \in Nat /\ b # q /\ b <= q /\ (b <= p \/ q <= b)
          BY <1>1, <3>1, <3>2, <3>3
        <5> QED
          BY <1>1, <5>1
      <4> QED
        BY <1>3, <2>1, <3>3, <4>1
    <3>4. CASE r # Base
      <4>1. r \in DOMAIN m /\ r > p
        BY <1>1, <1>3, <3>1, <3>4
      <4>2. ASSUME NEW b \in DOMAIN m PROVE b <= p \/ r <= b
        <5>1. /\ b \in Nat /\ b # q /\ (b <= q \/ r <= b)
              /\ b <= p \/ q <= b
          BY <1>1, <3>1, <3>2, <3>4
        <5> QED
          BY <1>1, <5>1
      <4> QED
        BY <1>3, <2>1, <4>1, <4>2
    <3> QED
      BY <3>3, <3>4
  <2>2. CASE a # p
    <3>1. a \in DOMAIN l /\ m[a].ptr = l[a].ptr
      BY <1>3, <2>2
    <3>2. \/ l[a].ptr = Base /\ \A b \in DOMAIN l : b <= a
          \/ /\ l[a].ptr \in DOMAIN l /\ l[a].ptr > a
             /\ \A b \in DOMAIN l : b <= a \/ l[a].ptr <= b
      BY <1>0, <3>1 DEF Linked
    <3>3. l[a].ptr # q
      BY <1>1, <2>2, <3>1, <3>2
    <3> QED
      BY <1>3, <3>1, <3>2, <3>3
  <2> QED
    BY <2>1, <2>2
<1>6. /\ e \in Nat /\ e >= HeapStart
      /\ \A b \in DOMAIN l : b # Base => b + l[b].size <= e
      /\ \A b \in DOMAIN u : b + u[b] <= e
      /\ \A a \in DOMAIN l, b \in DOMAIN u :
           a # Base => a + l[a].size <= b \/ b + u[b] <= a
  BY <1>0 DEF Tiling
<1>7. Handed(v) /\ q \notin DOMAIN u
  BY <1>0, <1>1, <1>6, HandOut
<1>8. /\ DOMAIN v = DOMAIN u \cup {q} /\ v[q] = n
      /\ \A y \in DOMAIN u : v[y] = u[y]
  BY <1>7 DEF Added
<1>9. Tiling(m, v, e)
  <2>1. \A a \in DOMAIN m : a # Base => a + m[a].size <= e
    BY <1>3, <1>6
  <2>2. \A a \in DOMAIN v : a + v[a] <= e
    BY <1>1, <1>6, <1>8
  <2>3. ASSUME NEW a \in DOMAIN m, NEW b \in DOMAIN v, a # Base
        PROVE  a + m[a].size <= b \/ b + v[b] <= a
    <3>1. a \in DOMAIN l /\ a # q /\ m[a].size = l[a].size
      BY <1>3
    <3>2. CASE b \in DOMAIN u
      BY <1>6, <1>8, <2>3, <3>1, <3>2
    <3>3. CASE b = q
      <4>1. a < q \/ q < a
        BY <1>1, <3>1
      <4>2. a < q => a + l[a].size < q
        BY <1>0, <1>1, <2>3, <3>1 DEF InList
      <4>3. q < a => q + l[q].size < a
        BY <1>0, <1>1, <2>3, <3>1 DEF InList
      <4> QED
        BY <1>1, <1>8, <3>1, <3>3, <4>1, <4>2, <4>3
    <3> QED
      BY <1>8, <3>2, <3>3
  <2>4. ASSUME NEW x \in HeapStart .. e - 1
        PROVE  \/ \E a \in DOMAIN m : a # Base /\ a <= x /\ x < a + m[a].size
               \/ \E a \in DOMAIN v : a <= x /\ x < a + v[a]
    <3>1. CASE \E a \in DOMAIN u : a <= x /\ x < a + u[a]
      BY <1>8, <3>1
    <3>2. CASE \E a \in DOMAIN l : a # Base /\ a <= x /\ x < a + l[a].size
      <4>1. PICK a \in DOMAIN l : a # Base /\ a <= x /\ x < a + l[a].size
        BY <3>2
      <4>2. CASE a = q
        <5>1. q \in DOMAIN v /\ q <= x /\ x < q + v[q]
          BY <1>8, <4>1, <4>2
        <5> QED
          BY <5>1
      <4>3. CASE a # q
        <5>1. a \in DOMAIN m /\ m[a].size = l[a].size
          BY <1>3, <4>3
        <5> QED
          BY <4>1, <5>1
      <4> QED
        BY <4>2, <4>3
    <3> QED
      BY <1>0, <3>1, <3>2 DEF Tiling
  <2> QED
    BY <1>6, <2>1, <2>2, <2>3, <2>4 DEF Tiling
<1> QED
  BY <1>3, <1>4, <1>5, <1>7, <1>9 DEF Heaped

\* malloc() takes the end of a larger block.
LEMMA TakeEnd ==
  ASSUME NEW l, NEW u, NEW e, Heaped(l, u, e), NEW q \in DOMAIN l,
         NEW n \in Nat, n > 0, l[q].size > n,
         NEW m, m = [l EXCEPT ![q].size = @ - n],
         NEW x, x = q + (l[q].size - n), NEW v, v = Added(u, x, n)
  PROVE  Heaped(m, v, e) /\ DOMAIN m = DOMAIN l
<1>0. InList(l) /\ Linked(l) /\ Handed(u) /\ Tiling(l, u, e)
  BY DEF Heaped
<1>1. /\ \A b \in DOMAIN l :
           b \in Nat /\ l[b].size \in Nat /\ l[b].ptr \in Nat
      /\ q \in Nat /\ q # Base /\ q >= HeapStart
  <2>1. \A b \in DOMAIN l : b \in Nat /\ l[b].size \in Nat /\ l[b].ptr \in Nat
    BY <1>0, InListIs
  <2> QED
    BY <1>0, <2>1 DEF InList
<1>2. PICK s \in Nat : s = l[q].size - n /\ s > 0 /\ l[q].size = s + n
  BY <1>1
<1>3. /\ DOMAIN m = DOMAIN l /\ m[q].size = s
      /\ \A a \in DOMAIN l : m[a].ptr = l[a].ptr
      /\ \A a \in DOMAIN l : a # q => m[a].size = l[a].size
      /\ m \in [DOMAIN m -> [ptr : Nat, size : Nat]]
  <2>1. l \in [DOMAIN l -> [ptr : Nat, size : Nat]]
    BY <1>0 DEF InList
  <2>2. m = [l EXCEPT ![q].size = s]
    BY <1>2
  <2> QED
    BY <2>1, <2>2
<1>4. InList(m)
  <2>1. DOMAIN m \subseteq Nat /\ Base \in DOMAIN m /\ m[Base].size = 0
    BY <1>0, <1>1, <1>3 DEF InList
  <2>2. \A a \in DOMAIN m : a # Base => a >= HeapStart /\ m[a].size > 0
    BY <1>0, <1>2, <1>3 DEF InList
  <2>3. ASSUME NEW a \in DOMAIN m, NEW b \in DOMAIN m, a # Base, a < b
        PROVE  a + m[a].size < b
    <3>1. a \in DOMAIN l /\ b \in DOMAIN l
      BY <1>3
    <3>2. a + l[a].size < b
      BY <1>0, <2>3, <3>1 DEF InList
    <3> QED
      BY <1>1, <1>2, <1>3, <3>1, <3>2
  <2> QED
    BY <1>3, <2>1, <2>2, <2>3 DEF InList
<1>5. Linked(m)
  BY <1>0, <1>3 DEF Linked
<1>6. /\ e \in Nat /\ e >= HeapStart
      /\ \A b \in DOMAIN l : b # Base => b + l[b].size <= e
      /\ \A b \in DOMAIN u : b + u[b] <= e
      /\ \A a \in DOMAIN l, b \in DOMAIN u :
           a # Base => a + l[a].size <= b \/ b + u[b] <= a
  BY <1>0 DEF Tiling
<1>7. /\ x \in Nat /\ x >= HeapStart /\ x = q + s /\ x + n = q + l[q].size
      /\ \A a \in DOMAIN u : a \in Nat /\ u[a] \in Nat /\ u[a] > 0
  <2>1. \A a \in DOMAIN u : a \in Nat /\ u[a] \in Nat /\ u[a] > 0
    BY <1>0 DEF Handed
  <2> QED
    BY <1>1, <1>2, <2>1 DEF HeapStart
<1>8. \A a \in DOMAIN u : a + u[a] <= x \/ x + n <= a
  <2> SUFFICES ASSUME NEW a \in DOMAIN u
               PROVE  a + u[a] <= x \/ x + n <= a
    OBVIOUS
  <2>1. q + l[q].size <= a \/ a + u[a] <= q
    BY <1>1, <1>6
  <2> QED
    BY <1>1, <1>2, <1>7, <2>1
<1>9. Handed(v) /\ x \notin DOMAIN u
  BY <1>0, <1>7, <1>8, HandOut
<1>10. /\ DOMAIN v = DOMAIN u \cup {x} /\ v[x] = n
       /\ \A y \in DOMAIN u : v[y] = u[y]
  BY <1>9 DEF Added
<1>11. Tiling(m, v, e)
  <2>1. ASSUME NEW a \in DOMAIN m, a # Base PROVE a + m[a].size <= e
    BY <1>1, <1>2, <1>3, <1>6, <2>1
  <2>2. \A a \in DOMAIN v : a + v[a] <= e
    BY <1>1, <1>6, <1>7, <1>10
  <2>3. ASSUME NEW a \in DOMAIN m, NEW b \in DOMAIN v, a # Base
        PROVE  a + m[a].size <= b \/ b + v[b] <= a
    <3>1. a \in DOMAIN l
      BY <1>3
    <3>2. CASE b \in DOMAIN u
      <4>1. a + l[a].size <= b \/ b + u[b] <= a
        BY <1>6, <2>3, <3>1, <3>2
      <4>2. b \in Nat /\ u[b] \in Nat
        BY <1>7, <3>2
      <4> QED
        BY <1>1, <1>2, <1>3, <1>10, <3>1, <3>2, <4>1, <4>2
    <3>3. CASE b = x
      <4>1. a = q \/ a < q \/ q < a
        BY <1>1, <3>1
      <4>2. a < q => a + l[a].size < q
        BY <1>0, <1>1, <2>3, <3>1 DEF InList
      <4>3. q < a => q + l[q].size < a
        BY <1>0, <1>1, <2>3, <3>1 DEF InList
      <4> QED
        BY <1>1, <1>2, <1>3, <1>7, <1>10, <3>1, <3>3, <4>1, <4>2, <4>3
    <3> QED
      BY <1>10, <3>2, <3>3
  <2>4. ASSUME NEW y \in HeapStart .. e - 1
        PROVE  \/ \E a \in DOMAIN m : a # Base /\ a <= y /\ y < a + m[a].size
               \/ \E a \in DOMAIN v : a <= y /\ y < a + v[a]
    <3>1. CASE \E a \in DOMAIN u : a <= y /\ y < a + u[a]
      BY <1>10, <3>1
    <3>2. CASE \E a \in DOMAIN l : a # Base /\ a <= y /\ y < a + l[a].size
      <4>1. PICK a \in DOMAIN l : a # Base /\ a <= y /\ y < a + l[a].size
        BY <3>2
      <4>2. CASE a = q /\ ~(y < q + s)
        <5>1. x \in DOMAIN v /\ x <= y /\ y < x + v[x]
          BY <1>1, <1>6, <1>7, <1>10, <4>1, <4>2 DEF HeapStart
        <5> QED
          BY <5>1
      <4>3. CASE a # q \/ y < q + s
        <5>1. a \in DOMAIN m /\ y < a + m[a].size
          BY <1>3, <4>1, <4>3
        <5> QED
          BY <4>1, <5>1
      <4> QED
        BY <4>2, <4>3
    <3> QED
      BY <1>0, <3>1, <3>2 DEF Tiling
  <2> QED
    BY <1>6, <2>1, <2>2, <2>3, <2>4 DEF Tiling
<1> QED
  BY <1>3, <1>4, <1>5, <1>9, <1>11 DEF Heaped

\* The place of the block x that comes back is between p and n.
Place(l, u, p, x, n) ==
  /\ p \in DOMAIN l /\ n \in DOMAIN l /\ x \in DOMAIN u
  /\ p \in Nat /\ n \in Nat /\ x \in Nat /\ u[x] \in Nat /\ u[x] > 0
  /\ p < x /\ x >= HeapStart /\ x \notin DOMAIN l /\ n = l[p].ptr
  /\ n # Base => x + u[x] <= n /\ p < n
  /\ \A b \in DOMAIN l : b <= p \/ (n # Base /\ n <= b)
  /\ p # Base => p + l[p].size <= x

LEMMA PlaceFound ==
  ASSUME NEW l, NEW u, NEW e, Heaped(l, u, e), NEW p \in DOMAIN l,
         NEW n, n = l[p].ptr, NEW x \in DOMAIN u,
         (x > p /\ x < n) \/ (p >= n /\ (x > p \/ x < n))
  PROVE  Place(l, u, p, x, n)
<1>0. InList(l) /\ Linked(l) /\ Handed(u) /\ Tiling(l, u, e)
  BY DEF Heaped
<1>1. /\ n \in DOMAIN l /\ n \in Nat /\ p \in Nat
      /\ n # Base => n > p /\ \A b \in DOMAIN l : b <= p \/ n <= b
      /\ n = Base => \A b \in DOMAIN l : b <= p
  BY <1>0, NextBlock
<1>2. x \in Nat /\ u[x] \in Nat /\ u[x] > 0 /\ x >= HeapStart
  BY <1>0 DEF Handed
<1>3. p < x /\ (n # Base => x < n)
  BY <1>1, <1>2 DEF Base
<1>4. \A b \in DOMAIN l : b \in Nat /\ l[b].size \in Nat
  BY <1>0, InListIs
<1>5. \A b \in DOMAIN l : b # Base =>
        l[b].size > 0 /\ (b + l[b].size <= x \/ x + u[x] <= b)
  BY <1>0 DEF Tiling, InList
<1>6. x # Base
  BY <1>2 DEF Base, HeapStart
<1>7. x \notin DOMAIN l
  BY <1>2, <1>4, <1>5, <1>6
<1>8. n # Base => x + u[x] <= n
  BY <1>1, <1>2, <1>3, <1>4, <1>5
<1>9. p # Base => p + l[p].size <= x
  BY <1>1, <1>2, <1>3, <1>4, <1>5
<1> QED
  BY <1>1, <1>2, <1>3, <1>7, <1>8, <1>9 DEF Place

\* The block h, of size z, that free() leaves in the list: x with the block
\* after it, when they touch, and with the block before it.  Block t after h
\* is the next one, and R are the blocks that are no more.
Joined(l, u, p, x, n, h, z, t, R) ==
  /\ \/ h = x /\ (p # Base => p + l[p].size < x)
     \/ h = p /\ p # Base /\ p + l[p].size = x
  /\ \/ /\ t = n /\ R = {} /\ h + z = x + u[x]
        /\ n # Base => x + u[x] < n
     \/ /\ t = l[n].ptr /\ R = {n} /\ n # Base /\ x + u[x] = n
        /\ h + z = n + l[n].size
  /\ h \in Nat /\ z \in Nat /\ t \in Nat

NewList(l, p, x, h, z, t, R, m) ==
  /\ m \in [DOMAIN m -> [ptr : Nat, size : Nat]]
  /\ DOMAIN m = (DOMAIN l \ R) \cup {h}
  /\ m[h].ptr = t /\ m[h].size = z
  /\ h = x => m[p].ptr = x
  /\ \A a \in DOMAIN m : a # h => m[a].size = l[a].size
  /\ \A a \in DOMAIN m : a # h /\ a # p => m[a].ptr = l[a].ptr

\* The blocks of the new list and the others are apart from h.
LEMMA JoinApart ==
  ASSUME NEW l, NEW u, NEW e, Heaped(l, u, e), NEW p, NEW x, NEW n,
         Place(l, u, p, x, n), NEW h, NEW z, NEW t, NEW R,
         Joined(l, u, p, x, n, h, z, t, R)
  PROVE  /\ h # Base /\ h >= HeapStart /\ z > 0 /\ h + z <= e
         /\ h <= x /\ x + u[x] <= h + z /\ p <= h
         /\ \A b \in DOMAIN l \ R : b # h /\ b # Base =>
              b + l[b].size < h \/ h + z < b
         /\ \A b \in DOMAIN u : b # x => b + u[b] <= h \/ h + z <= b
<1>0. InList(l) /\ Linked(l) /\ Handed(u) /\ Tiling(l, u, e)
  BY DEF Heaped
<1>1. \A b \in DOMAIN l : b \in Nat /\ l[b].size \in Nat
  BY <1>0, InListIs
<1>2. \A b \in DOMAIN u : b \in Nat /\ u[b] \in Nat
  BY <1>0 DEF Handed
<1>3. /\ p \in DOMAIN l /\ n \in DOMAIN l /\ x \in DOMAIN u
      /\ p \in Nat /\ n \in Nat /\ x \in Nat /\ u[x] \in Nat /\ u[x] > 0
      /\ p < x /\ x >= HeapStart
      /\ n # Base => x + u[x] <= n /\ p < n
      /\ \A b \in DOMAIN l : b <= p \/ (n # Base /\ n <= b)
  BY DEF Place
<1>4. h \in Nat /\ z \in Nat /\ h <= x /\ p <= h
  BY <1>3 DEF Joined
<1>5. /\ e \in Nat /\ x + u[x] <= e
      /\ n # Base => n + l[n].size <= e /\ l[n].size > 0
      /\ p # Base => p >= HeapStart
  BY <1>0, <1>3 DEF Tiling, InList
<1>6. l[n].size \in Nat /\ l[p].size \in Nat
  BY <1>1, <1>3
<1>7. x + u[x] <= h + z /\ h + z <= e
  BY <1>3, <1>4, <1>5, <1>6 DEF Joined
<1>8. h # Base /\ h >= HeapStart /\ z > 0
  BY <1>3, <1>4, <1>5, <1>7 DEF Joined, Base, HeapStart
<1>9. ASSUME NEW b \in DOMAIN l \ R, b # h, b # Base
      PROVE  b + l[b].size < h \/ h + z < b
  <2>1. b \in Nat /\ l[b].size \in Nat
    BY <1>1
  <2>2. CASE b <= p
    <3>1. b < p => b + l[b].size < p
      BY <1>0, <1>3, <1>9 DEF InList
    <3>2. CASE b < p
      BY <1>3, <1>4, <2>1, <3>1, <3>2
    <3>3. CASE b = p
      BY <1>3, <1>4, <1>9, <3>3 DEF Joined
    <3> QED
      BY <1>3, <2>1, <2>2, <3>2, <3>3
  <2>3. CASE n # Base /\ n <= b
    <3>1. n < b => n + l[n].size < b
      BY <1>0, <1>3, <2>3 DEF InList
    <3>2. CASE R = {} /\ h + z = x + u[x] /\ x + u[x] < n
      BY <1>3, <1>4, <2>1, <2>3, <3>2
    <3>3. CASE R = {n} /\ h + z = n + l[n].size
      BY <1>3, <1>4, <1>6, <2>1, <2>3, <3>1, <3>3
    <3> QED
      BY <2>3, <3>2, <3>3 DEF Joined
  <2> QED
    BY <1>3, <2>2, <2>3
<1>10. ASSUME NEW b \in DOMAIN u, b # x
       PROVE  b + u[b] <= h \/ h + z <= b
  <2>1. b \in Nat /\ u[b] \in Nat /\ u[b] > 0
    BY <1>0 DEF Handed
  <2>2. b + u[b] <= x \/ x + u[x] <= b
    <3>1. b < x \/ x < b
      BY <1>3, <1>10, <2>1
    <3>2. b < x => b + u[b] <= x
      BY <1>0, <1>3 DEF Handed
    <3>3. x < b => x + u[x] <= b
      BY <1>0, <1>3 DEF Handed
    <3> QED
      BY <3>1, <3>2, <3>3
  <2>3. p # Base => p + l[p].size <= b \/ b + u[b] <= p
    BY <1>0, <1>3 DEF Tiling
  <2>4. n # Base => n + l[n].size <= b \/ b + u[b] <= n
    BY <1>0, <1>3 DEF Tiling
  <2>5. CASE b + u[b] <= x
    <3>1. CASE h = x
      BY <2>5, <3>1
    <3>2. CASE h = p /\ p # Base /\ p + l[p].size = x
      BY <1>3, <1>6, <2>1, <2>3, <2>5, <3>2
    <3> QED
      BY <3>1, <3>2 DEF Joined
  <2>6. CASE x + u[x] <= b
    <3>1. CASE h + z = x + u[x]
      BY <2>6, <3>1
    <3>2. CASE n # Base /\ x + u[x] = n /\ h + z = n + l[n].size
      BY <1>3, <1>6, <2>1, <2>4, <2>6, <3>2
    <3> QED
      BY <3>1, <3>2 DEF Joined
  <2> QED
    BY <2>2, <2>5, <2>6
<1> QED
  BY <1>4, <1>7, <1>8, <1>9, <1>10

\* The new list is in order again.
LEMMA JoinLinked ==
  ASSUME NEW l, NEW u, NEW e, Heaped(l, u, e), NEW p, NEW x, NEW n,
         Place(l, u, p, x, n), NEW h, NEW z, NEW t, NEW R,
         Joined(l, u, p, x, n, h, z, t, R), NEW m,
         NewList(l, p, x, h, z, t, R, m)
  PROVE  Linked(m)
<1>0. InList(l) /\ Linked(l)
  BY DEF Heaped
<1>1. /\ h <= x /\ p <= h /\ x + u[x] <= h + z /\ h \in Nat /\ z \in Nat
      /\ h = x \/ h = p
  <2>1. /\ h <= x /\ p <= h /\ x + u[x] <= h + z
    BY JoinApart
  <2> QED
    BY <2>1 DEF Joined
<1>2. /\ p \in DOMAIN l /\ n \in DOMAIN l /\ p \in Nat /\ n \in Nat
      /\ x \in Nat /\ u[x] \in Nat /\ u[x] > 0 /\ p < x /\ n = l[p].ptr
      /\ n # Base => x + u[x] <= n /\ p < n
      /\ \A b \in DOMAIN l : b <= p \/ (n # Base /\ n <= b)
  BY DEF Place
<1>3. \A b \in DOMAIN l : b \in Nat
  BY <1>0, InListIs
<1>4. /\ DOMAIN m = (DOMAIN l \ R) \cup {h} /\ m[h].ptr = t
      /\ h = x => m[p].ptr = x
      /\ \A a \in DOMAIN m : a # h /\ a # p => m[a].ptr = l[a].ptr
  BY DEF NewList
<1>5. R = {} \/ (R = {n} /\ n # Base)
  BY DEF Joined
<1>6. n # Base => h < n
  BY <1>1, <1>2
<1> SUFFICES ASSUME NEW a \in DOMAIN m
             PROVE  \/ m[a].ptr = Base /\ \A b \in DOMAIN m : b <= a
                    \/ /\ m[a].ptr \in DOMAIN m /\ m[a].ptr > a
                       /\ \A b \in DOMAIN m : b <= a \/ m[a].ptr <= b
  BY DEF Linked
<1>7. CASE a = h
  <2>1. CASE t = n /\ R = {}
    <3>1. CASE n = Base
      <4>1. ASSUME NEW b \in DOMAIN m PROVE b <= h
        <5>1. b = h \/ (b \in DOMAIN l /\ b \in Nat /\ b <= p)
          BY <1>2, <1>3, <1>4, <3>1
        <5> QED
          BY <1>1, <1>2, <5>1
      <4> QED
        BY <1>4, <1>7, <2>1, <3>1, <4>1
    <3>2. CASE n # Base
      <4>1. ASSUME NEW b \in DOMAIN m PROVE b <= h \/ n <= b
        <5>1. b = h \/ (b \in DOMAIN l /\ b \in Nat /\ (b <= p \/ n <= b))
          BY <1>2, <1>3, <1>4
        <5> QED
          BY <1>1, <1>2, <5>1
      <4>2. n \in DOMAIN m /\ n > h
        BY <1>2, <1>4, <1>6, <2>1, <3>2
      <4> QED
        BY <1>4, <1>7, <2>1, <4>1, <4>2
    <3> QED
      BY <3>1, <3>2
  <2>2. CASE t = l[n].ptr /\ R = {n} /\ n # Base
    <3>0. /\ t = Base => \A b \in DOMAIN l : b <= n
          /\ t # Base => /\ t \in DOMAIN l /\ t > n /\ t \in Nat
                         /\ \A b \in DOMAIN l : b <= n \/ t <= b
      BY <1>0, <1>2, <2>2, NextBlock
    <3>1. ASSUME NEW b \in DOMAIN m, b # h
          PROVE  b \in DOMAIN l /\ b \in Nat /\ b # n /\ (b <= p \/ n < b)
      <4>1. b \in DOMAIN l /\ b # n
        BY <1>4, <2>2, <3>1
      <4> QED
        BY <1>2, <1>3, <4>1
    <3>2. CASE t = Base
      <4>1. ASSUME NEW b \in DOMAIN m PROVE b <= h
        <5>1. CASE b = h
          BY <1>1, <5>1
        <5>2. CASE b # h
          <6>1. b \in Nat /\ b <= n /\ (b <= p \/ n < b)
            BY <3>0, <3>1, <3>2, <5>2
          <6> QED
            BY <1>1, <1>2, <6>1
        <5> QED
          BY <5>1, <5>2
      <4> QED
        BY <1>4, <1>7, <3>2, <4>1
    <3>3. CASE t # Base
      <4>1. ASSUME NEW b \in DOMAIN m PROVE b <= h \/ t <= b
        <5>1. CASE b = h
          BY <1>1, <5>1
        <5>2. CASE b # h
          <6>1. b \in Nat /\ (b <= n \/ t <= b) /\ (b <= p \/ n < b)
            BY <3>0, <3>1, <3>3, <5>2
          <6> QED
            BY <1>1, <1>2, <6>1
        <5> QED
          BY <5>1, <5>2
      <4>2. t \in DOMAIN m /\ t > h
        BY <1>1, <1>2, <1>4, <1>6, <2>2, <3>0, <3>3
      <4> QED
        BY <1>4, <1>7, <4>1, <4>2
    <3> QED
      BY <3>2, <3>3
  <2> QED
    BY <2>1, <2>2 DEF Joined
<1>8. CASE a = p /\ h = x
  <2>1. m[a].ptr = x /\ x \in DOMAIN m /\ x > p
    BY <1>2, <1>4, <1>8
  <2>2. ASSUME NEW b \in DOMAIN m PROVE b <= p \/ x <= b
    <3>1. \/ b = x
          \/ b \in DOMAIN l /\ b \in Nat /\ (b <= p \/ (n # Base /\ n <= b))
      BY <1>2, <1>3, <1>4, <1>8
    <3> QED
      BY <1>2, <3>1
  <2> QED
    BY <1>8, <2>1, <2>2
<1>9. CASE a # h /\ a # p
  <2>1. /\ a \in DOMAIN l /\ a \in Nat /\ m[a].ptr = l[a].ptr
        /\ a < p \/ (n # Base /\ n <= a)
    <3>1. a \in DOMAIN l /\ m[a].ptr = l[a].ptr
      BY <1>4, <1>9
    <3> QED
      BY <1>2, <1>3, <1>9, <3>1
  <2>2. CASE l[a].ptr = Base /\ \A b \in DOMAIN l : b <= a
    <3>1. p <= a
      BY <1>2, <2>2
    <3>2. h <= a
      BY <1>1, <1>2, <1>6, <2>1, <3>1
    <3>3. \A b \in DOMAIN m : b <= a
      BY <1>4, <2>2, <3>2
    <3> QED
      BY <2>1, <2>2, <3>3
  <2>3. CASE /\ l[a].ptr \in DOMAIN l /\ l[a].ptr > a
             /\ \A b \in DOMAIN l : b <= a \/ l[a].ptr <= b
    <3>1. PICK s \in Nat : s = l[a].ptr /\ s \in DOMAIN l
      BY <1>3, <2>3
    <3>2. p <= a \/ s <= p
      BY <1>2, <2>3, <3>1
    <3>3. h <= a \/ s <= h
      BY <1>1, <1>2, <1>6, <2>1, <3>1, <3>2
    <3>4. n # Base => s # n
      BY <1>2, <2>1, <2>3, <3>1, <3>2
    <3>5. s \in DOMAIN m
      BY <1>4, <1>5, <3>1, <3>4
    <3>6. \A b \in DOMAIN m : b <= a \/ s <= b
      BY <1>4, <2>3, <3>1, <3>3
    <3> QED
      BY <2>1, <2>3, <3>1, <3>5, <3>6
  <2> QED
    BY <1>0, <2>1, <2>2, <2>3 DEF Linked
<1> QED
  BY <1>1, <1>7, <1>8, <1>9

\* And the heap is tiled again.
LEMMA JoinHeaped ==
  ASSUME NEW l, NEW u, NEW e, Heaped(l, u, e), NEW p, NEW x, NEW n,
         Place(l, u, p, x, n), NEW h, NEW z, NEW t, NEW R,
         Joined(l, u, p, x, n, h, z, t, R), NEW m,
         NewList(l, p, x, h, z, t, R, m), NEW v, v = Removed(u, {x})
  PROVE  Heaped(m, v, e)
<1>0. InList(l) /\ Linked(l) /\ Handed(u) /\ Tiling(l, u, e)
  BY DEF Heaped
<1>1. /\ h # Base /\ h >= HeapStart /\ z > 0 /\ h + z <= e /\ h <= x
      /\ x + u[x] <= h + z
      /\ \A b \in DOMAIN l \ R : b # h /\ b # Base =>
           b + l[b].size < h \/ h + z < b
      /\ \A b \in DOMAIN u : b # x => b + u[b] <= h \/ h + z <= b
  BY JoinApart
<1>2. /\ h \in Nat /\ z \in Nat
      /\ R = {} \/ (R = {n} /\ n # Base)
  BY DEF Joined
<1>3. \A b \in DOMAIN l : b \in Nat /\ l[b].size \in Nat
  BY <1>0, InListIs
<1>4. /\ DOMAIN m = (DOMAIN l \ R) \cup {h} /\ m[h].size = z
      /\ m \in [DOMAIN m -> [ptr : Nat, size : Nat]]
      /\ \A a \in DOMAIN m : a # h => m[a].size = l[a].size
  BY DEF NewList
<1>5. ASSUME NEW a \in DOMAIN m, a # h
      PROVE  /\ a \in DOMAIN l \ R /\ a \in Nat /\ m[a].size = l[a].size
             /\ l[a].size \in Nat
  BY <1>3, <1>4, <1>5
<1>6. InList(m)
  <2>1. DOMAIN m \subseteq Nat
    BY <1>2, <1>3, <1>4
  <2>2. Base \in DOMAIN m /\ m[Base].size = 0
    BY <1>0, <1>1, <1>2, <1>4 DEF InList
  <2>3. ASSUME NEW a \in DOMAIN m, a # Base
        PROVE  a >= HeapStart /\ m[a].size > 0
    <3>1. CASE a = h
      BY <1>1, <1>4, <3>1
    <3>2. CASE a # h
      BY <1>0, <1>5, <2>3, <3>2 DEF InList
    <3> QED
      BY <3>1, <3>2
  <2>4. ASSUME NEW a \in DOMAIN m, NEW b \in DOMAIN m, a # Base, a < b
        PROVE  a + m[a].size < b
    <3>1. CASE a = h
      <4>1. b # h /\ b \in Nat /\ b # Base
        BY <1>2, <1>5, <2>1, <2>4, <3>1 DEF Base
      <4>2. b + l[b].size < h \/ h + z < b
        BY <1>1, <1>5, <4>1
      <4>3. l[b].size \in Nat
        BY <1>5, <4>1
      <4> QED
        BY <1>2, <1>4, <2>4, <3>1, <4>1, <4>2, <4>3
    <3>2. CASE a # h
      <4>0. a \in Nat /\ m[a].size = l[a].size /\ a \in DOMAIN l \ R
            /\ l[a].size \in Nat
        BY <1>5, <3>2
      <4>1. CASE b = h
        <5>1. a + l[a].size < h \/ h + z < a
          BY <1>1, <2>4, <3>2, <4>0
        <5> QED
          BY <1>2, <2>4, <4>0, <4>1, <5>1
      <4>2. CASE b # h
        BY <1>0, <1>5, <2>4, <4>0, <4>2 DEF InList
      <4> QED
        BY <4>1, <4>2
    <3> QED
      BY <3>1, <3>2
  <2> QED
    BY <1>4, <2>1, <2>2, <2>3, <2>4 DEF InList
<1>7. Linked(m)
  BY JoinLinked
<1>8. x \in DOMAIN u /\ x \in Nat /\ u[x] \in Nat /\ p < x /\ p \in Nat
  BY DEF Place
<1>9. /\ Handed(v) /\ DOMAIN v = DOMAIN u \ {x}
      /\ \A a \in DOMAIN v : v[a] = u[a]
  <2>1. /\ DOMAIN v = DOMAIN u \ {x} /\ \A a \in DOMAIN v : v[a] = u[a]
        /\ v = [y \in DOMAIN v |-> v[y]]
    BY DEF Removed
  <2>2. v \in [DOMAIN v -> Nat] /\ DOMAIN v \subseteq Nat
    BY <1>0, <2>1 DEF Handed
  <2> QED
    BY <1>0, <2>1, <2>2 DEF Handed
<1>10. Tiling(m, v, e)
  <2>0. /\ e \in Nat /\ e >= HeapStart
        /\ \A b \in DOMAIN l : b # Base => b + l[b].size <= e
        /\ \A b \in DOMAIN u : b + u[b] <= e
        /\ \A a \in DOMAIN l, b \in DOMAIN u :
             a # Base => a + l[a].size <= b \/ b + u[b] <= a
    BY <1>0 DEF Tiling
  <2>1. ASSUME NEW a \in DOMAIN m, a # Base PROVE a + m[a].size <= e
    <3>1. CASE a = h
      BY <1>1, <1>4, <3>1
    <3>2. CASE a # h
      BY <1>5, <2>0, <2>1, <3>2
    <3> QED
      BY <3>1, <3>2
  <2>2. \A a \in DOMAIN v : a + v[a] <= e
    BY <1>9, <2>0
  <2>3. ASSUME NEW a \in DOMAIN m, NEW b \in DOMAIN v, a # Base
        PROVE  a + m[a].size <= b \/ b + v[b] <= a
    <3>0. b \in DOMAIN u /\ b # x /\ v[b] = u[b]
      BY <1>9
    <3>1. CASE a = h
      BY <1>1, <1>4, <3>0, <3>1
    <3>2. CASE a # h
      BY <1>5, <2>0, <2>3, <3>0, <3>2
    <3> QED
      BY <3>1, <3>2
  <2>4. ASSUME NEW y \in HeapStart .. e - 1
        PROVE  \/ \E a \in DOMAIN m : a # Base /\ a <= y /\ y < a + m[a].size
               \/ \E a \in DOMAIN v : a <= y /\ y < a + v[a]
    <3>0. y \in Nat
      BY <2>0 DEF HeapStart
    <3>h. ASSUME h <= y, y < h + z
          PROVE  \E a \in DOMAIN m : a # Base /\ a <= y /\ y < a + m[a].size
      <4>1. h \in DOMAIN m /\ h # Base /\ y < h + m[h].size
        BY <1>1, <1>4, <3>h
      <4> QED
        BY <3>h, <4>1
    <3>1. CASE \E a \in DOMAIN u : a <= y /\ y < a + u[a]
      <4>1. PICK a \in DOMAIN u : a <= y /\ y < a + u[a]
        BY <3>1
      <4>2. CASE a = x
        <5>1. h <= y /\ y < h + z
          BY <1>1, <1>2, <1>8, <3>0, <4>1, <4>2
        <5> QED
          BY <3>h, <5>1
      <4>3. CASE a # x
        <5>1. a \in DOMAIN v /\ y < a + v[a]
          BY <1>9, <4>1, <4>3
        <5> QED
          BY <4>1, <5>1
      <4> QED
        BY <4>2, <4>3
    <3>2. CASE \E a \in DOMAIN l : a # Base /\ a <= y /\ y < a + l[a].size
      <4>1. PICK a \in DOMAIN l : a # Base /\ a <= y /\ y < a + l[a].size
        BY <3>2
      <4>2. CASE a \in DOMAIN m /\ a # h
        BY <1>5, <4>1, <4>2
      <4>3. CASE a = h
        <5>1. a = p /\ p + l[p].size = x
          <6>1. x \notin DOMAIN l
            BY DEF Place
          <6> QED
            BY <4>1, <4>3, <6>1 DEF Joined
        <5>2. h <= y /\ y < h + z
          BY <1>1, <1>2, <1>8, <3>0, <4>1, <4>3, <5>1
        <5> QED
          BY <3>h, <5>2
      <4>4. CASE a \notin DOMAIN m
        <5>1. R = {n} /\ a = n
          BY <1>2, <1>4, <4>1, <4>4
        <5>2. n \in Nat /\ l[n].size \in Nat /\ h + z = n + l[n].size
              /\ x + u[x] = n
          BY <1>3, <4>1, <5>1 DEF Joined
        <5>3. h <= y /\ y < h + z
          BY <1>1, <1>2, <1>8, <3>0, <4>1, <5>1, <5>2
        <5> QED
          BY <3>h, <5>3
      <4> QED
        BY <4>2, <4>3, <4>4
    <3> QED
      BY <1>0, <3>1, <3>2 DEF Tiling
  <2> QED
    BY <2>0, <2>1, <2>2, <2>3, <2>4 DEF Tiling
<1> QED
  BY <1>6, <1>7, <1>9, <1>10 DEF Heaped

\* The list that free() leaves, when it merges with the block before and
\* when it does not.
LEMMA LinkList ==
  ASSUME NEW l, InList(l), NEW p \in DOMAIN l, NEW x, x \notin DOMAIN l,
         NEW R, p \notin R, NEW node \in [ptr : Nat, size : Nat],
         x \in Nat, NEW below, below = Removed(l, R)
  PROVE  /\ \A m : m = [below EXCEPT ![p] = [ptr  |-> node.ptr,
                                       size |-> @.size + node.size]] =>
              \A z : z = l[p].size + node.size =>
                NewList(l, p, x, p, z, node.ptr, R, m)
         /\ \A m : m = Added([below EXCEPT ![p].ptr = x], x, node) =>
              NewList(l, p, x, x, node.size, node.ptr, R, m)
<1>1. l \in [DOMAIN l -> [ptr : Nat, size : Nat]]
  BY DEF InList
<1>2. /\ DOMAIN below = DOMAIN l \ R /\ p \in DOMAIN below
      /\ \A a \in DOMAIN below : below[a] = l[a]
      /\ below \in [DOMAIN l \ R -> [ptr : Nat, size : Nat]]
  BY <1>1 DEF Removed
<1>3. ASSUME NEW m, m = [below EXCEPT ![p] = [ptr  |-> node.ptr,
                                       size |-> @.size + node.size]],
             NEW z, z = l[p].size + node.size
      PROVE  NewList(l, p, x, p, z, node.ptr, R, m)
  <2>0. /\ node.ptr \in Nat /\ node.size \in Nat
        /\ l[p].size \in Nat /\ z \in Nat
    BY <1>1, <1>3
  <2>1. m = [below EXCEPT ![p] = [ptr |-> node.ptr, size |-> z]]
    BY <1>2, <1>3
  <2>2. /\ DOMAIN m = DOMAIN below /\ m[p].ptr = node.ptr /\ m[p].size = z
        /\ \A a \in DOMAIN m : a # p => m[a] = l[a]
        /\ m \in [DOMAIN m -> [ptr : Nat, size : Nat]]
    BY <1>2, <2>0, <2>1
  <2>3. DOMAIN m = (DOMAIN l \ R) \cup {p} /\ p # x
    BY <1>2, <2>2
  <2> QED
    BY <2>2, <2>3 DEF NewList
<1>4. ASSUME NEW m, m = Added([below EXCEPT ![p].ptr = x], x, node)
      PROVE  NewList(l, p, x, x, node.size, node.ptr, R, m)
  <2>1. PICK k : k = [below EXCEPT ![p].ptr = x]
    OBVIOUS
  <2>2. /\ DOMAIN k = DOMAIN l \ R /\ k[p].ptr = x
        /\ k \in [DOMAIN l \ R -> [ptr : Nat, size : Nat]]
        /\ \A a \in DOMAIN k : k[a].size = l[a].size
        /\ \A a \in DOMAIN k : a # p => k[a].ptr = l[a].ptr
    BY <1>2, <2>1
  <2>3. /\ DOMAIN m = DOMAIN k \cup {x} /\ m[x] = node
        /\ \A y \in DOMAIN k : y # x => m[y] = k[y]
        /\ m = [y \in DOMAIN m |-> m[y]]
    BY <1>4, <2>1 DEF Added
  <2>4. p # x /\ p \in DOMAIN k
    BY <1>2, <2>2
  <2>5. m \in [DOMAIN m -> [ptr : Nat, size : Nat]]
    BY <2>2, <2>3
  <2> QED
    BY <2>2, <2>3, <2>4, <2>5 DEF NewList
<1> QED
  BY <1>3, <1>4

\* free() puts the block in its place.
LEMMA LinkHeaped ==
  ASSUME HeapInv, Link
  PROVE  Heaped(list', used', brk) /\ call.p \in DOMAIN list'
<1>0. /\ Heaped(list, used, brk) /\ InList(list) /\ Handed(used)
  BY DEF HeapInv, Heaped
<1>1. PICK p \in DOMAIN list, x \in DOMAIN used, n \in Nat :
        p = call.p /\ x = call.bp /\ n = list[p].ptr
  BY <1>0 DEF HeapInv, Calling, Link, InList
<1>2. Place(list, used, p, x, n)
  <2>1. (x > p /\ x < n) \/ (p >= n /\ (x > p \/ x < n))
    BY <1>1 DEF Link, Belongs, Seen
  <2> QED
    BY <1>0, <2>1, <1>1, PlaceFound
<1>3. /\ n \in DOMAIN list /\ p \in Nat /\ n \in Nat /\ x \in Nat
      /\ used[x] \in Nat /\ used[x] > 0 /\ p < x /\ x >= HeapStart
      /\ x \notin DOMAIN list
      /\ n # Base => x + used[x] <= n /\ p < n
      /\ p # Base => p + list[p].size <= x
  BY <1>2 DEF Place
<1>4. /\ list[p].size \in Nat /\ list[n].size \in Nat /\ list[n].ptr \in Nat
      /\ list[Base].size = 0
  BY <1>0, <1>3, InListIs DEF InList
<1>5. PICK up \in BOOLEAN : up <=> (x + used[x] = n)
  OBVIOUS
<1>6. PICK R : R = IF up THEN {n} ELSE {}
  OBVIOUS
<1>7. PICK node : node = IF up THEN [ptr  |-> list[n].ptr,
                                     size |-> used[x] + list[n].size]
                         ELSE [ptr |-> n, size |-> used[x]]
  OBVIOUS
<1>8. node \in [ptr : Nat, size : Nat]
  BY <1>3, <1>4, <1>7
<1>9. PICK below : below = Removed(list, R)
  OBVIOUS
<1>10. /\ list' = IF p + list[p].size = x
                 THEN [below EXCEPT ![p] = [ptr  |-> node.ptr,
                                            size |-> @.size + node.size]]
                 ELSE Added([below EXCEPT ![p].ptr = x], x, node)
       /\ used' = Removed(used, {x})
  BY <1>1, <1>5, <1>6, <1>7, <1>9 DEF Link, Seen
<1>11. up => n # Base /\ p < n
  BY <1>3, <1>5 DEF Base
<1>12. p \notin R
  BY <1>3, <1>6, <1>11
<1>13. ~up /\ n # Base => x + used[x] < n
  BY <1>3, <1>5
<1>14. CASE p + list[p].size = x
  <2>1. p # Base
    BY <1>3, <1>4, <1>14 DEF Base, HeapStart
  <2>2. PICK z \in Nat : z = list[p].size + node.size
    BY <1>4, <1>8
  <2>3. NewList(list, p, x, p, z, node.ptr, R, list')
    BY <1>0, <1>3, <1>8, <1>9, <1>10, <1>12, <1>14, <2>2, LinkList
  <2>4. Joined(list, used, p, x, n, p, z, node.ptr, R)
    <3>1. CASE up
      <4>1. /\ node.ptr = list[n].ptr /\ node.size = used[x] + list[n].size
            /\ R = {n} /\ n # Base /\ x + used[x] = n
        BY <1>5, <1>6, <1>7, <1>11, <3>1
      <4>2. p + z = n + list[n].size
        BY <1>3, <1>4, <1>14, <2>2, <4>1
      <4> QED
        BY <1>3, <1>4, <1>14, <2>1, <4>1, <4>2 DEF Joined
    <3>2. CASE ~up
      <4>1. node.ptr = n /\ node.size = used[x] /\ R = {}
        BY <1>6, <1>7, <3>2
      <4>2. p + z = x + used[x]
        BY <1>3, <1>4, <1>14, <2>2, <4>1
      <4> QED
        BY <1>3, <1>13, <1>14, <2>1, <3>2, <4>1, <4>2 DEF Joined
    <3> QED
      BY <3>1, <3>2
  <2>5. Heaped(list', used', brk)
    BY <1>0, <1>2, <1>10, <2>3, <2>4, JoinHeaped
  <2> QED
    BY <1>1, <2>3, <2>5 DEF NewList
<1>15. CASE p + list[p].size # x
  <2>1. p # Base => p + list[p].size < x
    BY <1>3, <1>4, <1>15
  <2>2. NewList(list, p, x, x, node.size, node.ptr, R, list')
    BY <1>0, <1>3, <1>8, <1>9, <1>10, <1>12, <1>15, LinkList
  <2>3. Joined(list, used, p, x, n, x, node.size, node.ptr, R)
    <3>1. CASE up
      <4>1. /\ node.ptr = list[n].ptr /\ node.size = used[x] + list[n].size
            /\ R = {n} /\ n # Base /\ x + used[x] = n
        BY <1>5, <1>6, <1>7, <1>11, <3>1
      <4>2. x + node.size = n + list[n].size
        BY <1>3, <1>4, <4>1
      <4> QED
        BY <1>3, <1>4, <1>8, <2>1, <4>1, <4>2 DEF Joined
    <3>2. CASE ~up
      <4>1. node.ptr = n /\ node.size = used[x] /\ R = {}
        BY <1>6, <1>7, <3>2
      <4> QED
        BY <1>3, <1>13, <2>1, <3>2, <4>1 DEF Joined
    <3> QED
      BY <3>1, <3>2
  <2>4. Heaped(list', used', brk)
    BY <1>0, <1>2, <1>10, <2>2, <2>3, JoinHeaped
  <2>5. p \in DOMAIN list'
    BY <1>12, <2>2 DEF NewList
  <2> QED
    BY <1>1, <2>4, <2>5
<1> QED
  BY <1>14, <1>15

LEMMA HeapInitial == HeapInit => HeapInv
<1> SUFFICES ASSUME HeapInit PROVE HeapInv
  OBVIOUS
<1>1. /\ DOMAIN list = {Base} /\ list[Base].ptr = Base /\ list[Base].size = 0
      /\ DOMAIN used = {} /\ freep = Base /\ brk = HeapStart
      /\ list \in [DOMAIN list -> [ptr : Nat, size : Nat]]
      /\ used \in [DOMAIN used -> Nat]
  BY DEF HeapInit, Base
<1>2. InList(list) /\ Linked(list) /\ Handed(used)
  BY <1>1 DEF InList, Linked, Handed, Base
<1>3. Tiling(list, used, brk)
  BY <1>1 DEF Tiling, HeapStart
<1>4. Calling
  BY <1>1 DEF Calling, HeapInit, NoCall, Base
<1> QED
  BY <1>2, <1>3, <1>4 DEF HeapInv, Heaped

LEMMA HeapKept ==
  ASSUME HeapInv, HeapNext
  PROVE  HeapInv'
<1>0. /\ Heaped(list, used, brk) /\ Calling /\ InList(list) /\ Linked(list)
      /\ brk \in Nat
  BY DEF HeapInv, Heaped, Tiling
<1>1. /\ freep \in DOMAIN list /\ call.p \in DOMAIN list
      /\ call.nunits \in Nat /\ call.bp \in Nat /\ Base \in DOMAIN list
      /\ call \in [loop : {"none", "fit", "place"}, p : DOMAIN list,
                   nunits : Nat, bp : Nat]
  BY <1>0 DEF Calling, InList
<1>2. Seen \in DOMAIN list /\ Seen \in Nat
  BY <1>0, <1>1, NextBlock DEF Seen
<1>3. NoCall = [loop |-> "none", p |-> Base, nunits |-> 0, bp |-> 0]
  BY DEF NoCall, Base
<1>4. ASSUME NEW n \in Requests, malloc(n) PROVE HeapInv'
  <2>1. n \in Nat /\ n > 0
    BY HeapAssumption
  <2>2. call' = [loop |-> "fit", p |-> freep, nunits |-> n, bp |-> 0]
    BY <1>3, <1>4 DEF malloc
  <2>3. list' = list /\ freep' = freep /\ used' = used /\ brk' = brk
    BY <1>4 DEF malloc
  <2>4. Calling'
    BY <1>1, <2>1, <2>2, <2>3 DEF Calling
  <2> QED
    BY <1>0, <2>3, <2>4 DEF HeapInv
<1>5. ASSUME NEW a \in DOMAIN used, free(a) PROVE HeapInv'
  <2>1. a \in Nat
    BY <1>0 DEF Heaped, Handed
  <2>2. call' = [loop |-> "place", p |-> freep, nunits |-> 0, bp |-> a]
    BY <1>3, <1>5 DEF free
  <2>3. list' = list /\ freep' = freep /\ used' = used /\ brk' = brk
    BY <1>5 DEF free
  <2>4. Calling'
    BY <1>1, <2>1, <2>2, <2>3 DEF Calling
  <2> QED
    BY <1>0, <2>3, <2>4 DEF HeapInv
<1>6. CASE FitNext \/ PlaceNext
  <2>1. /\ list' = list /\ freep' = freep /\ used' = used /\ brk' = brk
        /\ call' = [call EXCEPT !.p = Seen]
    BY <1>6 DEF FitNext, PlaceNext
  <2>2. Calling'
    BY <1>0, <1>1, <1>2, <2>1 DEF Calling
  <2> QED
    BY <1>0, <2>1, <2>2 DEF HeapInv
<1>7. CASE Take
  <2>0. /\ call.loop = "fit" /\ list[Seen].size >= call.nunits
        /\ call.nunits > 0 /\ list[Seen].size \in Nat
    BY <1>0, <1>2, <1>7, InListIs DEF Take, Fits, Calling
  <2>1. /\ used' = Added(used, Seen + (list[Seen].size - call.nunits),
                        call.nunits)
        /\ freep' = call.p /\ call' = NoCall /\ brk' = brk
    BY <1>7 DEF Take
  <2>2. Heaped(list', used', brk) /\ call.p \in DOMAIN list'
    <3>1. CASE list[Seen].size = call.nunits
      <4>1. Seen + (list[Seen].size - call.nunits) = Seen
        BY <1>1, <1>2, <3>1
      <4>2. used' = Added(used, Seen, call.nunits)
        BY <2>1, <4>1
      <4>3. list' = Removed([list EXCEPT ![call.p].ptr = list[Seen].ptr],
                            {Seen})
        BY <1>7, <3>1 DEF Take
      <4>4. PICK p \in DOMAIN list, q \in Nat, n \in Nat :
              p = call.p /\ q = Seen /\ n = call.nunits
        BY <1>1, <1>2
      <4>5. /\ q = list[p].ptr /\ n > 0 /\ list[q].size = n
            /\ used' = Added(used, q, n)
            /\ list' = Removed([list EXCEPT ![p].ptr = list[q].ptr], {q})
        BY <2>0, <3>1, <4>2, <4>3, <4>4 DEF Seen
      <4>6. Heaped(list', used', brk) /\ p \in DOMAIN list'
        BY <1>0, <4>5, TakeAll
      <4> QED
        BY <4>4, <4>6
    <3>2. CASE list[Seen].size # call.nunits
      <4>1. PICK q \in DOMAIN list, n \in Nat : q = Seen /\ n = call.nunits
        BY <1>1, <1>2
      <4>2. /\ n > 0 /\ list[q].size > n
            /\ used' = Added(used, q + (list[q].size - n), n)
        BY <1>1, <2>0, <2>1, <3>2, <4>1
      <4>3. list' = [list EXCEPT ![q].size = @ - n]
        BY <1>7, <3>2, <4>1 DEF Take
      <4>4. Heaped(list', used', brk) /\ DOMAIN list' = DOMAIN list
        BY <1>0, <4>2, <4>3, TakeEnd
      <4> QED
        BY <1>1, <4>4
    <3> QED
      BY <3>1, <3>2
  <2>3. Base \in DOMAIN list'
    BY <2>2 DEF Heaped, InList
  <2>4. Calling'
    BY <1>3, <2>1, <2>2, <2>3 DEF Calling
  <2> QED
    BY <2>1, <2>2, <2>4 DEF HeapInv
<1>8. CASE MoreCore
  <2>1. call.loop = "fit" /\ call.nunits > 0
    BY <1>0, <1>8 DEF MoreCore, Calling
  <2>2. PICK nu \in Nat :
          nu = IF call.nunits < MoreUnits THEN MoreUnits ELSE call.nunits
    BY <1>1, HeapAssumption
  <2>3. /\ brk' = brk + nu /\ used' = Added(used, brk, nu) /\ list' = list
        /\ freep' = freep
        /\ call' = [call EXCEPT !.loop = "place", !.p = freep, !.bp = brk]
    BY <1>8, <2>2 DEF MoreCore
  <2>4. nu > 0
    BY <1>1, <2>1, <2>2, HeapAssumption
  <2>5. Heaped(list, used', brk') /\ DOMAIN used' = DOMAIN used \cup {brk}
    <3>1. Heaped(list, used, brk) /\ brk \in Nat /\ nu \in Nat \ {0}
      BY <1>0, <2>4
    <3>2. HeapGrown(list, used, brk, nu)
      BY <3>1, MoreHeap
    <3> QED
      BY <2>3, <3>2 DEF HeapGrown
  <2>6. call' = [loop |-> "place", p |-> freep, nunits |-> call.nunits,
                 bp |-> brk]
    BY <1>1, <2>3
  <2>7. Calling'
    BY <1>0, <1>1, <2>3, <2>5, <2>6 DEF Calling
  <2> QED
    BY <2>3, <2>5, <2>7 DEF HeapInv
<1>9. CASE MallocFails
  <2>1. /\ list' = list /\ freep' = freep /\ used' = used /\ brk' = brk
        /\ call' = NoCall
    BY <1>9 DEF MallocFails
  <2>2. Calling'
    BY <1>1, <1>3, <2>1 DEF Calling
  <2> QED
    BY <1>0, <2>1, <2>2 DEF HeapInv
<1>10. CASE Link
  <2>1. Heaped(list', used', brk) /\ call.p \in DOMAIN list'
    BY <1>10, LinkHeaped
  <2>2. /\ freep' = call.p /\ brk' = brk
        /\ call' = IF call.nunits > 0
                   THEN [call EXCEPT !.loop = "fit", !.bp = Base] ELSE NoCall
    BY <1>10 DEF Link
  <2>3. Base \in DOMAIN list' /\ Base \in Nat
    BY <2>1 DEF Heaped, InList, Base
  <2>4. CASE call.nunits > 0
    <3>1. call' = [loop |-> "fit", p |-> call.p, nunits |-> call.nunits,
                   bp |-> Base]
      BY <1>1, <2>2, <2>4
    <3>2. Calling'
      BY <1>1, <2>1, <2>2, <2>3, <2>4, <3>1 DEF Calling
    <3> QED
      BY <2>1, <2>2, <3>2 DEF HeapInv
  <2>5. CASE ~(call.nunits > 0)
    <3>1. call' = [loop |-> "none", p |-> Base, nunits |-> 0, bp |-> 0]
      BY <1>3, <2>2, <2>5
    <3>2. freep' \in DOMAIN list'
      BY <2>1, <2>2
    <3>3. Calling'
      BY <2>3, <3>1, <3>2 DEF Calling
    <3> QED
      BY <2>1, <2>2, <3>3 DEF HeapInv
  <2> QED
    BY <2>4, <2>5
<1> QED
  BY <1>4, <1>5, <1>6, <1>7, <1>8, <1>9, <1>10 DEF HeapNext, Loop

LEMMA HeapIsTiled == HeapInv => HeapTiled
<1> SUFFICES ASSUME HeapInv PROVE HeapTiled
  OBVIOUS
<1>0. /\ InList(list) /\ Linked(list) /\ Handed(used)
      /\ Tiling(list, used, brk) /\ freep \in DOMAIN list
  BY DEF HeapInv, Heaped, Calling
<1>1. /\ \A a \in DOMAIN list : a \in Nat /\ list[a].size \in Nat
      /\ \A a \in DOMAIN used : /\ a \in Nat /\ used[a] \in Nat
                                /\ used[a] > 0 /\ a >= HeapStart
      /\ \A a \in Free : /\ a \in DOMAIN list /\ a # Base /\ a \in Nat
                         /\ list[a].size > 0 /\ a >= HeapStart
  BY <1>0, InListIs DEF InList, Handed, Free
<1>2. /\ brk \in Nat
      /\ \A a \in Free : a + list[a].size <= brk
      /\ \A a \in DOMAIN used : a + used[a] <= brk
      /\ \A a \in Free, b \in DOMAIN used :
           a + list[a].size <= b \/ b + used[b] <= a
  BY <1>0 DEF Tiling, Free
<1>3. ASSUME NEW a \in Free, a \in DOMAIN used PROVE FALSE
  BY <1>1, <1>2, <1>3
<1>4. ASSUME NEW a \in Free \cup DOMAIN used
      PROVE  \E s \in Nat :
               /\ s > 0 /\ a \in Nat /\ a >= HeapStart /\ a + s <= brk
               /\ Units(a) = a .. a + s - 1
               /\ a \in Free => s = list[a].size
               /\ a \in DOMAIN used => s = used[a]
  <2>1. CASE a \in Free
    BY <1>1, <1>2, <1>3, <2>1 DEF Units
  <2>2. CASE a \notin Free
    BY <1>1, <1>2, <2>2 DEF Units
  <2> QED
    BY <2>1, <2>2
<1>5. ASSUME NEW y \in HeapStart .. brk - 1
      PROVE  \E a \in Free \cup DOMAIN used : y \in Units(a)
  <2>0. y \in Nat
    BY <1>2 DEF HeapStart
  <2>1. CASE \E a \in DOMAIN list :
               a # Base /\ a <= y /\ y < a + list[a].size
    <3>1. PICK a \in Free : a <= y /\ y < a + list[a].size
      BY <2>1 DEF Free
    <3>2. y \in Units(a)
      BY <1>1, <2>0, <3>1 DEF Units
    <3> QED
      BY <3>2
  <2>2. CASE \E a \in DOMAIN used : a <= y /\ y < a + used[a]
    <3>1. PICK a \in DOMAIN used : a <= y /\ y < a + used[a]
      BY <2>2
    <3>2. y \in Units(a)
      BY <1>1, <1>3, <2>0, <3>1 DEF Units
    <3> QED
      BY <3>2
  <2> QED
    BY <1>0, <2>1, <2>2 DEF Tiling
<1>6. ASSUME NEW a \in Free \cup DOMAIN used, NEW b \in Free \cup DOMAIN used,
             a # b
      PROVE  Units(a) \cap Units(b) = {}
  <2>1. PICK s \in Nat : /\ a \in Nat /\ Units(a) = a .. a + s - 1
                         /\ a \in Free => s = list[a].size
                         /\ a \in DOMAIN used => s = used[a]
    BY <1>4
  <2>2. PICK r \in Nat : /\ b \in Nat /\ Units(b) = b .. b + r - 1
                         /\ b \in Free => r = list[b].size
                         /\ b \in DOMAIN used => r = used[b]
    BY <1>4
  <2>3. a + s <= b \/ b + r <= a
    <3>1. a < b \/ b < a
      BY <1>6, <2>1, <2>2
    <3>2. CASE a \in Free /\ b \in Free
      <4>1. a \in DOMAIN list /\ b \in DOMAIN list /\ a # Base /\ b # Base
        BY <1>1, <3>2
      <4>2. a < b => a + list[a].size < b
        BY <1>0, <4>1 DEF InList
      <4>3. b < a => b + list[b].size < a
        BY <1>0, <4>1 DEF InList
      <4> QED
        BY <2>1, <2>2, <3>1, <3>2, <4>2, <4>3
    <3>3. CASE a \in DOMAIN used /\ b \in DOMAIN used
      <4>1. a < b => a + used[a] <= b
        BY <1>0, <3>3 DEF Handed
      <4>2. b < a => b + used[b] <= a
        BY <1>0, <3>3 DEF Handed
      <4> QED
        BY <2>1, <2>2, <3>1, <3>3, <4>1, <4>2
    <3>4. CASE a \in Free /\ b \in DOMAIN used
      BY <1>2, <2>1, <2>2, <3>4
    <3>5. CASE a \in DOMAIN used /\ b \in Free
      BY <1>2, <2>1, <2>2, <3>5
    <3> QED
      BY <3>2, <3>3, <3>4, <3>5
  <2> QED
    BY <2>1, <2>2, <2>3
<1>7. ASSUME NEW a \in Free \cup DOMAIN used
      PROVE  Units(a) \subseteq HeapStart .. brk - 1
  BY <1>2, <1>4 DEF HeapStart
<1>8. ASSUME NEW a \in DOMAIN list
      PROVE  LET above == {b \in DOMAIN list : b > a}
             IN  /\ IF above = {} THEN list[a].ptr = Base
                    ELSE /\ list[a].ptr \in above
                         /\ \A b \in above : list[a].ptr <= b
                 /\ a + list[a].size \notin Free
  <2> DEFINE above == {b \in DOMAIN list : b > a}
  <2>1. IF above = {} THEN list[a].ptr = Base
        ELSE list[a].ptr \in above /\ \A b \in above : list[a].ptr <= b
    <3>1. CASE list[a].ptr = Base /\ \A b \in DOMAIN list : b <= a
      <4>1. above = {}
        BY <1>1, <3>1
      <4> QED
        BY <3>1, <4>1
    <3>2. CASE /\ list[a].ptr \in DOMAIN list /\ list[a].ptr > a
               /\ \A b \in DOMAIN list : b <= a \/ list[a].ptr <= b
      <4>1. list[a].ptr \in above
        BY <3>2
      <4>2. ASSUME NEW b \in above PROVE list[a].ptr <= b
        <5>1. b \in DOMAIN list /\ b > a /\ b \in Nat /\ a \in Nat
          BY <1>1
        <5>2. ~(b <= a)
          BY <5>1
        <5> QED
          BY <3>2, <5>1, <5>2
      <4> QED
        BY <4>1, <4>2
    <3> QED
      BY <1>0, <3>1, <3>2 DEF Linked
  <2>2. a + list[a].size \notin Free
    <3> SUFFICES ASSUME NEW c \in Free, c = a + list[a].size PROVE FALSE
      OBVIOUS
    <3>1. CASE a = Base
      BY <1>0, <1>1, <3>1 DEF InList, Base, HeapStart
    <3>2. CASE a # Base
      <4>1. /\ c \in DOMAIN list /\ c \in Nat /\ a \in Nat
            /\ list[a].size \in Nat /\ list[a].size > 0
        BY <1>0, <1>1, <3>2 DEF InList
      <4>2. a < c
        BY <4>1
      <4>3. a + list[a].size < c
        BY <1>0, <3>2, <4>1, <4>2 DEF InList
      <4> QED
        BY <4>1, <4>3
    <3> QED
      BY <3>1, <3>2
  <2> QED
    BY <2>1, <2>2
<1>9. Free \cap DOMAIN used = {}
  BY <1>3
<1> QED
  BY <1>0, <1>5, <1>6, <1>7, <1>8, <1>9, Zenon DEF HeapTiled

(* Whatever calls of malloc() and free() a program makes, the blocks tile  *)
(* the heap at every turn of the loops of user/umalloc.c, and the list of  *)
(* free blocks is one cycle in the order of addresses in which no two      *)
(* touch.                                                                  *)
THEOREM HeapIsSound == HeapSpec => []HeapTiled
<1>1. HeapInv /\ [HeapNext]_heapVars => HeapInv'
  <2> SUFFICES ASSUME HeapInv, [HeapNext]_heapVars PROVE HeapInv'
    OBVIOUS
  <2>1. CASE HeapNext
    BY <2>1, HeapKept
  <2>2. CASE UNCHANGED heapVars
    BY <2>2 DEF heapVars, HeapInv, Calling
  <2> QED
    BY <2>1, <2>2
<1> QED
  BY <1>1, HeapInitial, HeapIsTiled, PTL DEF HeapSpec
-----------------------------------------------------------------------------
(***************************************************************************)
(* The memory of processes.                                                *)
(***************************************************************************)

\* The types of the memory.
Contents == {"none", "zero", "kernel", "text", "args"} \cup Processes
Ptes == [c : Contents, w : BOOLEAN, u : BOOLEAN]
NodeSet == {Node(l, va) : l \in 0 .. LEVELS - 1, va \in VPages}
PageTables == [nodes : SUBSET NodeSet, leaf : [VPages -> Ptes]]
Ops == {"none", "boot", "fork", "exec", "grow", "fault"}
JobPcs == {"idle", "halt", "args", "frame", "root", "page", "walk"}
Jobs == [op : Ops, pc : JobPcs, t : Processes \X {"cur", "new", "none"},
         todo : SUBSET VPages, old : Nat, sz : Nat, prog : Seq(Segments),
         seg : Nat, args : Nat]

MemType ==
  /\ pages \in Nat /\ nfree \in Nat /\ frame \in SUBSET Processes
  /\ tab \in [Tables -> PageTables]
  /\ sz \in [Processes -> Nat]
  /\ job \in [Processes -> Jobs]
  /\ image \in [Processes -> [VPages -> Contents]]

Fresh(op) == op \in {"boot", "fork", "exec"}
Mapping(j) == j.pc \in {"page", "walk"}

\* The job j of p fits its operation.
JobShape(p, j) ==
  /\ j.op = "none" => j.pc \in {"idle", "halt"} /\ j.t = NoTab
  /\ j.op # "none" => j.pc \notin {"idle", "halt"}
  /\ j.pc = "args" => j.op = "exec"
  /\ j.pc = "frame" => j.op \in {"boot", "fork"}
  /\ j.pc = "root" => Fresh(j.op)
  /\ j.op \in {"boot", "grow", "fault"} => j.t = Cur(p)
  /\ j.op = "exec" => j.t = New(p)
  /\ j.op = "fork" => j.t = Cur(j.t[1]) /\ j.t[1] # p
  /\ j.op # "exec" => j.args = 0
  /\ j.op \in {"boot", "fork"} => j.sz = 0
  /\ j.op = "boot" => j.seg = 0
  /\ ~Mapping(j) => j.todo = {} /\ j.seg = 0 /\ j.sz = 0
  /\ j.op = "exec" => j.prog \in Programs

NoUser(t) == \A v \in UserPages : t.leaf[v] = None
Special(V) == V \subseteq {TRAMPOLINE, TRAPFRAME}

\* What the operation j still has to map is not mapped, and comes after what
\* it has mapped.
TodoOK(j, t) ==
  /\ \A v \in j.todo : t.leaf[v] = None
  /\ Fresh(j.op) /\ j.seg = 0 => Special(j.todo) /\ NoUser(t) /\ j.sz = 0
  /\ ~(Fresh(j.op) /\ j.seg = 0) => j.todo \subseteq UserPages
  /\ j.op # "fault" =>
       \A v \in UserPages, w \in j.todo : t.leaf[v] # None => v < w

\* The image that kexec() has made so far.
ExecTop(j) ==
  IF j.seg = Len(j.prog) + 1 THEN j.sz + USERSTACK + 1 ELSE Loaded(j)
TextBefore(j, v) == \E i \in 1 .. j.seg - 1 : v \in Text(j.prog[i])
ExecOK(j, t) ==
  /\ j.seg <= Len(j.prog) + 1 /\ (j.seg > 0 => j.old = j.sz)
  /\ j.todo \cap UserPages \subseteq j.sz .. ExecTop(j) - 1
  /\ \A v \in UserPages :
       t.leaf[v] # None <=> v < ExecTop(j) /\ v \notin j.todo
  /\ \A v \in UserPages : t.leaf[v] # None =>
       /\ t.leaf[v].u
       /\ t.leaf[v].c = IF TextBefore(j, v) THEN "text" ELSE "zero"
  /\ \A i \in 1 .. j.seg - 1 : End(j.prog[i]) <= j.sz
  /\ j.sz = 0 \/ \E i \in 1 .. j.seg - 1 : End(j.prog[i]) = j.sz

\* The memory of the child is that of its parent, which has table c.
ForkOK(j, t, c) ==
  /\ j.seg \in {0, 1}
  /\ j.seg = 1 => \A v \in UserPages :
       /\ t.leaf[v] = IF v \in j.todo THEN None ELSE c.leaf[v]
       /\ v \in j.todo => c.leaf[v] # None

GrowOK(j, s) ==
  /\ j.old = Up(s) /\ s <= j.sz /\ Up(j.sz) <= TRAPFRAME
  /\ \A v \in j.todo : v >= j.old /\ v < Up(j.sz)
FaultOK(j, s) == j.todo \subseteq {j.old} /\ j.old < Up(s)

FillOK(j, t, c, s) ==
  /\ TodoOK(j, t)
  /\ j.op = "exec" => ExecOK(j, t)
  /\ j.op = "fork" => ForkOK(j, t, c)
  /\ j.op = "grow" => GrowOK(j, s)
  /\ j.op = "fault" => FaultOK(j, s)

\* A process with table c and size s, in operation j, finds im in its memory.
Reach(j, s) == IF j.op = "grow" THEN Up(j.sz) ELSE Up(s)
ImageOK(j, c, s, im) ==
  \A v \in UserPages :
    /\ im[v] = IF c.leaf[v] = None THEN "zero" ELSE c.leaf[v].c
    /\ c.leaf[v] # None => v < Reach(j, s)
SizeOK(s, im) ==
  Up(s) <= TRAPFRAME /\ \A v \in UserPages : v >= Up(s) => im[v] = "zero"
KernelOnly(t) == \A v \in {TRAMPOLINE, TRAPFRAME} : ~t.leaf[v].u

IsKid(q) == \E r \in Processes : job[r].op = "fork" /\ job[r].t = Cur(q)

JobsOK(p) == JobShape(p, job[p])
FillsOK(p) ==
  Mapping(job[p]) => FillOK(job[p], tab[job[p].t], tab[Cur(p)], sz[p])
HoldsImage(p) == ~IsKid(p) => ImageOK(job[p], tab[Cur(p)], sz[p], image[p])
SizesOK(p) == SizeOK(sz[p], image[p])
KernelsOK(p) == KernelOnly(tab[Cur(p)]) /\ KernelOnly(tab[New(p)])
\* A table is there only when there is a process, or one in the making.
AbsentOK(p) ==
  /\ p \notin frame =>
       tab[Cur(p)] = NoTable /\ sz[p] = 0 /\ image[p] = Image0
  /\ job[p].op \in {"exec", "fork", "grow", "fault"} => p \in frame
  /\ job[p].op = "boot" => /\ p \in frame <=> job[p].pc # "frame"
                           /\ sz[p] = 0 /\ image[p] = Image0
  /\ (job[p].op = "exec" /\ Mapping(job[p])) \/ tab[New(p)] = NoTable
  /\ job[p].pc = "root" => tab[job[p].t] = NoTable
KidOK(p) ==
  job[p].op = "fork" =>
    /\ job[Child(p)].op = "none"
    /\ Child(p) \in frame <=> job[p].pc # "frame"
    /\ sz[Child(p)] = 0 /\ image[Child(p)] = Image0

ProcOK(p) ==
  /\ JobsOK(p) /\ FillsOK(p) /\ HoldsImage(p) /\ SizesOK(p)
  /\ KernelsOK(p) /\ AbsentOK(p) /\ KidOK(p)

OneParent ==
  \A p, r \in Processes :
    job[p].op = "fork" /\ job[r].op = "fork" /\ job[p].t = job[r].t => p = r

\* The pages in use, table by table and job by job.
NodesOf(f) == [t \in Tables |-> f[t].nodes]
LeavesOf(f) == [t \in Tables |-> Mapped(f[t]) \cap UserPages]
TabPages(f) == Total(NodesOf(f)) + Total(LeavesOf(f))
TabsFinite(f) ==
  IsFiniteSet(Pairs(NodesOf(f))) /\ IsFiniteSet(Pairs(LeavesOf(f)))
UsedBy(t) == Cardinality(t.nodes) + Cardinality(Mapped(t) \cap UserPages)

HandFull(j) == j.pc = "walk" /\ j.todo \subseteq UserPages
HandsOf(f) == {p \in Processes : HandFull(f[p])}
ArgsOf(f) == [p \in Processes |-> 1 .. f[p].args]
JobPages(f) == Cardinality(HandsOf(f)) + Total(ArgsOf(f))
JobsFinite(f) == IsFiniteSet(HandsOf(f)) /\ IsFiniteSet(Pairs(ArgsOf(f)))
HeldBy(j) == (IF HandFull(j) THEN 1 ELSE 0) + j.args

Counted ==
  /\ IsFiniteSet(frame) /\ JobsFinite(job) /\ TabsFinite(tab)
  /\ nfree + Cardinality(frame) + JobPages(job) + TabPages(tab) = pages

MemInv ==
  MemType /\ (\A p \in Processes : ProcOK(p)) /\ OneParent /\ Counted

\* The same for a process p that has no child in the making: job j, tables c
\* and n, size s, memory im, and fr the processes that have a trapframe.
Filled(j, c, n) == IF j.op = "exec" THEN n ELSE c
Well(p, j, c, n, s, im, fr) ==
  /\ JobShape(p, j) /\ j.op # "fork"
  /\ Mapping(j) => FillOK(j, Filled(j, c, n), c, s)
  /\ ImageOK(j, c, s, im) /\ SizeOK(s, im) /\ KernelOnly(c) /\ KernelOnly(n)
  /\ p \notin fr => c = NoTable /\ s = 0 /\ im = Image0
  /\ j.op \in {"exec", "grow", "fault"} => p \in fr
  /\ j.op = "boot" => /\ p \in fr <=> j.pc # "frame"
                      /\ s = 0 /\ im = Image0
  /\ (j.op = "exec" /\ Mapping(j)) \/ n = NoTable
  /\ j.pc = "root" => Filled(j, c, n) = NoTable

\* And for one that fills the table k of its child q.
Parent(p, q, j, k, c, n, s, im, fr) ==
  /\ JobShape(p, j) /\ j.op = "fork" /\ j.t = Cur(q)
  /\ Mapping(j) => FillOK(j, k, c, s)
  /\ ImageOK(j, c, s, im) /\ SizeOK(s, im) /\ KernelOnly(c) /\ KernelOnly(n)
  /\ p \in fr /\ n = NoTable /\ (j.pc = "root" => k = NoTable)
  /\ KernelOnly(k) /\ (q \in fr <=> j.pc # "frame")
  /\ q \notin fr => k = NoTable
-----------------------------------------------------------------------------
\* The virtual pages: those of the user, and two above.
LEMMA MemConst ==
  /\ MAXVA \in Nat /\ TRAPFRAME \in Nat \ {0} /\ TRAMPOLINE = TRAPFRAME + 1
  /\ TRAMPOLINE \in VPages /\ TRAPFRAME \in VPages
  /\ TRAMPOLINE \notin UserPages /\ TRAPFRAME \notin UserPages
  /\ UserPages \subseteq VPages /\ VPages \subseteq Nat
  /\ \A v \in VPages : v \in UserPages \/ Fixed(v)
  /\ \A v \in Nat : v \in UserPages <=> v < TRAPFRAME
  /\ \A v : Fixed(v) <=> v \in {TRAMPOLINE, TRAPFRAME}
  /\ \A v \in UserPages : ~Fixed(v)
<1>1. MAXVA \in Nat /\ MAXVA > 2
  BY MemoryAssumption
<1> QED
  BY <1>1 DEF TRAMPOLINE, TRAPFRAME, VPages, UserPages, Fixed

\* Rounding up.
LEMMA UpRaw ==
  ASSUME NEW K \in Nat \ {0}, NEW m \in Nat, NEW d \in Int,
         d = (m + K - 1) \div K
  PROVE  d \in Nat /\ K * d >= m /\ K * d < m + K
  OBVIOUS

LEMMA UpBounds ==
  ASSUME NEW m \in Nat
  PROVE  /\ Up(m) \in Nat /\ Mul(PGSIZE, Up(m)) \in Int
         /\ Mul(PGSIZE, Up(m)) >= m /\ Mul(PGSIZE, Up(m)) < m + PGSIZE
<1>1. PGSIZE \in Nat \ {0}
  BY MemoryAssumption
<1>2. Up(m) \in Int
  BY <1>1 DEF Up
<1>3. PICK d \in Int : d = Up(m)
  BY <1>2
<1>4. d = (m + PGSIZE - 1) \div PGSIZE
  BY <1>3 DEF Up
<1>5. d \in Nat /\ PGSIZE * d >= m /\ PGSIZE * d < m + PGSIZE
  BY <1>1, <1>4, UpRaw
<1>6. Mul(PGSIZE, d) \in Int
  BY <1>1, MulType
<1> QED
  BY <1>1, <1>3, <1>5, <1>6 DEF Mul

LEMMA UpType == \A m \in Nat : Up(m) \in Nat
  BY UpBounds

\* Below one more page there is room for PGSIZE more bytes.
LEMMA MulRise ==
  ASSUME NEW K \in Nat \ {0}, NEW a \in Int, NEW b \in Int, a < b
  PROVE  K * a + K <= K * b
<1>1. b - a - 1 \in Nat
  OBVIOUS
<1>2. PICK c \in Nat : c = b - a - 1
  BY <1>1
<1>3. K * c \in Nat
  OBVIOUS
<1>4. K * b = K * a + K * c + K
  BY <1>2
<1>5. K * a \in Int /\ K * b \in Int
  OBVIOUS
<1> QED
  BY <1>3, <1>4, <1>5

LEMMA MulRises ==
  ASSUME NEW a \in Int, NEW b \in Int, a < b
  PROVE  Mul(PGSIZE, a) + PGSIZE <= Mul(PGSIZE, b)
  BY MulRise, MemoryAssumption DEF Mul

LEMMA UpMono ==
  ASSUME NEW m \in Nat, NEW n \in Nat, m <= n
  PROVE  Up(m) <= Up(n)
<1> SUFFICES ASSUME ~(Up(m) <= Up(n)) PROVE FALSE
  OBVIOUS
<1>1. /\ Up(m) \in Nat /\ Mul(PGSIZE, Up(m)) \in Int
      /\ Mul(PGSIZE, Up(m)) < m + PGSIZE
  BY UpBounds
<1>2. /\ Up(n) \in Nat /\ Mul(PGSIZE, Up(n)) \in Int
      /\ Mul(PGSIZE, Up(n)) >= n
  BY UpBounds
<1>3. PICK a \in Int, b \in Int : a = Up(n) /\ b = Up(m)
  BY <1>1, <1>2
<1>4. a < b
  BY <1>1, <1>2, <1>3
<1>5. Mul(PGSIZE, a) + PGSIZE <= Mul(PGSIZE, b)
  BY <1>4, MulRises
<1>6. PGSIZE \in Nat
  BY MemoryAssumption
<1> QED
  BY <1>1, <1>2, <1>3, <1>5, <1>6

\* A whole number of pages is its own round number.
LEMMA UpWhole ==
  ASSUME NEW s \in Nat
  PROVE  s * PGSIZE \in Nat /\ Up(s * PGSIZE) = s
<1>1. PGSIZE \in Nat \ {0}
  BY MemoryAssumption
<1>2. s * PGSIZE \in Nat
  BY <1>1
<1>3. PICK m \in Nat : m = s * PGSIZE
  BY <1>2
<1>4. m = Mul(PGSIZE, s)
  BY <1>1, <1>3 DEF Mul
<1>5. /\ Up(m) \in Nat /\ Mul(PGSIZE, Up(m)) \in Int
      /\ Mul(PGSIZE, Up(m)) >= m /\ Mul(PGSIZE, Up(m)) < m + PGSIZE
  BY UpBounds
<1>6. PICK u \in Int : u = Up(m)
  BY <1>5
<1>7. ~(u < s)
  <2> SUFFICES ASSUME u < s PROVE FALSE
    OBVIOUS
  <2>1. Mul(PGSIZE, u) + PGSIZE <= Mul(PGSIZE, s)
    BY MulRises
  <2> QED
    BY <1>1, <1>4, <1>5, <1>6, <2>1
<1>8. ~(s < u)
  <2> SUFFICES ASSUME s < u PROVE FALSE
    OBVIOUS
  <2>1. Mul(PGSIZE, s) + PGSIZE <= Mul(PGSIZE, u)
    BY MulRises
  <2> QED
    BY <1>1, <1>4, <1>5, <1>6, <2>1
<1>9. u = s
  BY <1>7, <1>8
<1> QED
  BY <1>2, <1>3, <1>6, <1>9

\* What sbrk() accepts ends below the trapframe.
LEMMA UpFits ==
  ASSUME NEW m \in Nat, m <= TRAPFRAME * PGSIZE
  PROVE  Up(m) <= TRAPFRAME
<1>1. TRAPFRAME \in Nat
  BY MemConst
<1>2. PICK n \in Nat : n = TRAPFRAME * PGSIZE
  BY <1>1, MemoryAssumption
<1>3. Up(n) = TRAPFRAME
  BY <1>1, <1>2, UpWhole
<1> QED
  BY <1>2, <1>3, UpMono

LEMMA UpZero == Up(0) = 0
<1>1. PICK z \in Nat : z = 0
  OBVIOUS
<1>2. z * PGSIZE = 0
  BY <1>1, MemoryAssumption
<1>3. Up(z * PGSIZE) = z
  BY UpWhole
<1> QED
  BY <1>1, <1>2, <1>3

LEMMA DivNat == \A K \in Nat \ {0} : \A m \in Nat : m \div K \in Nat
  OBVIOUS

\* The text of a segment ends with it.
LEMMA TextFits ==
  ASSUME NEW prog \in Programs, NEW i \in DOMAIN prog
  PROVE  /\ End(prog[i]) \in Nat
         /\ End(prog[i]) + USERSTACK + 1 <= TRAPFRAME
         /\ \A v \in Text(prog[i]) : v \in Nat /\ v < End(prog[i])
<1>1. prog \in Seq(Segments)
  BY MemoryAssumption
<1>2. PICK ph \in Segments : ph = prog[i]
  BY <1>1
<1>3. PICK a, b, c \in Nat : a = ph.vaddr /\ b = ph.memsz /\ c = ph.filesz
  BY DEF Segments
<1>4. c <= b /\ End(prog[i]) + USERSTACK + 1 <= TRAPFRAME
  BY <1>2, <1>3, MemoryAssumption
<1>5. Up(a + b) \in Nat /\ Up(a + c) \in Nat
  BY UpType
<1>6. a + c <= a + b
  BY <1>4
<1>7. PICK m, n \in Nat : m = a + c /\ n = a + b
  OBVIOUS
<1>8. Up(m) <= Up(n)
  BY <1>6, <1>7, UpMono
<1>9. a \div PGSIZE \in Nat
  BY DivNat, MemoryAssumption
<1>10. End(prog[i]) = Up(n)
  BY <1>2, <1>3, <1>7 DEF End
<1>11. Text(prog[i]) = a \div PGSIZE .. Up(m) - 1
  BY <1>2, <1>3, <1>7 DEF Text
<1>12. \A v \in Text(prog[i]) : v \in Nat /\ v < Up(n)
  BY <1>5, <1>7, <1>8, <1>9, <1>11
<1> QED
  BY <1>4, <1>5, <1>7, <1>10, <1>12
-----------------------------------------------------------------------------
\* The parts of a set add up.
LEMMA CardDisjoint ==
  ASSUME NEW S, NEW T, IsFiniteSet(S), IsFiniteSet(T), S \cap T = {}
  PROVE  /\ IsFiniteSet(S \cup T)
         /\ Cardinality(S) \in Nat /\ Cardinality(T) \in Nat
         /\ Cardinality(S \cup T) = Cardinality(S) + Cardinality(T)
<1>1. /\ IsFiniteSet(S \cup T)
      /\ Cardinality(S \cup T) =
           Cardinality(S) + Cardinality(T) - Cardinality(S \cap T)
  BY FS_Union
<1>2. Cardinality(S \cap T) = 0
  BY FS_EmptySet
<1>3. Cardinality(S) \in Nat /\ Cardinality(T) \in Nat
  BY FS_CardinalityType
<1> QED
  BY <1>1, <1>2, <1>3

\* Counting the pages of everybody: one entry of F changes.
LEMMA PairsOf ==
  ASSUME NEW F, NEW x
  PROVE  x \in Pairs(F) <=> \E a \in DOMAIN F : \E b \in F[a] : x = <<a, b>>
  BY DEF Pairs

LEMMA RowCard ==
  ASSUME NEW a, NEW S, IsFiniteSet(S)
  PROVE  IsFiniteSet({a} \X S) /\ Cardinality({a} \X S) = Cardinality(S)
<1>1. IsFiniteSet({a}) /\ Cardinality({a}) = 1
  BY FS_Singleton
<1>2. /\ IsFiniteSet({a} \X S)
      /\ Cardinality({a} \X S) = Cardinality({a}) * Cardinality(S)
  BY <1>1, FS_Product
<1>3. Cardinality(S) \in Nat
  BY FS_CardinalityType
<1> QED
  BY <1>1, <1>2, <1>3

LEMMA RowFinite ==
  ASSUME NEW F, NEW a \in DOMAIN F, IsFiniteSet(Pairs(F))
  PROVE  IsFiniteSet(F[a])
<1>1. {a} \X F[a] \subseteq Pairs(F)
  BY DEF Pairs
<1>2. IsFiniteSet({a} \X F[a])
  BY <1>1, FS_Subset
<1> DEFINE f == [x \in {a} \X F[a] |-> x[2]]
<1>4. f \in Surjection({a} \X F[a], F[a])
  <2>1. f \in [{a} \X F[a] -> F[a]]
    OBVIOUS
  <2>2. \A b \in F[a] : \E x \in {a} \X F[a] : f[x] = b
    <3> TAKE b \in F[a]
    <3>1. <<a, b>> \in {a} \X F[a] /\ f[<<a, b>>] = b
      OBVIOUS
    <3> QED
      BY <3>1
  <2> QED
    BY <2>1, <2>2 DEF Surjection
<1> QED
  BY <1>2, <1>4, FS_Surjection

LEMMA PairsChange ==
  ASSUME NEW F, NEW G, NEW a \in DOMAIN F, DOMAIN G = DOMAIN F,
         \A x \in DOMAIN F : x # a => G[x] = F[x],
         IsFiniteSet(Pairs(F)), IsFiniteSet(G[a])
  PROVE  /\ IsFiniteSet(Pairs(G)) /\ IsFiniteSet(F[a])
         /\ Cardinality(F[a]) \in Nat /\ Cardinality(G[a]) \in Nat
         /\ Total(F) \in Nat /\ Total(G) \in Nat
         /\ Total(G) + Cardinality(F[a]) = Total(F) + Cardinality(G[a])
<1> DEFINE R == Pairs(F) \ ({a} \X F[a])
<1>1. IsFiniteSet(F[a])
  BY RowFinite
<1>2. IsFiniteSet(R)
  BY FS_Subset
<1>3. Pairs(F) = R \cup ({a} \X F[a]) /\ R \cap ({a} \X F[a]) = {}
  BY DEF Pairs
<1>4. R = {x \in Pairs(F) : x[1] # a}
  BY PairsOf
<1>5. Pairs(G) = R \cup ({a} \X G[a]) /\ R \cap ({a} \X G[a]) = {}
  <2>1. \A x : x \in R <=> \E c \in DOMAIN F : \E b \in F[c] :
                               c # a /\ x = <<c, b>>
    BY <1>4, PairsOf
  <2> HIDE DEF R
  <2>2. \A x : x \in Pairs(G) <=> x \in R \/ x \in {a} \X G[a]
    <3> TAKE x
    <3>1. x \in Pairs(G) <=> \E c \in DOMAIN G : \E b \in G[c] : x = <<c, b>>
      BY PairsOf
    <3> QED
      BY <2>1, <3>1
  <2>3. \A x \in R : x \notin {a} \X G[a]
    BY <2>1
  <2> QED
    BY <2>2, <2>3
<1>6. /\ IsFiniteSet({a} \X F[a]) /\ IsFiniteSet({a} \X G[a])
      /\ Cardinality({a} \X F[a]) = Cardinality(F[a])
      /\ Cardinality({a} \X G[a]) = Cardinality(G[a])
  BY <1>1, RowCard
<1> HIDE DEF R
<1>7. /\ IsFiniteSet(Pairs(G))
      /\ Cardinality(Pairs(G)) = Cardinality(R) + Cardinality({a} \X G[a])
  <2>1. PICK T : T = {a} \X G[a]
    OBVIOUS
  <2>2. IsFiniteSet(T) /\ R \cap T = {} /\ Pairs(G) = R \cup T
    BY <1>5, <1>6, <2>1
  <2>3. /\ IsFiniteSet(R \cup T)
        /\ Cardinality(R \cup T) = Cardinality(R) + Cardinality(T)
    BY <1>2, <2>2, CardDisjoint
  <2> QED
    BY <2>1, <2>2, <2>3
<1>8. Cardinality(Pairs(F)) = Cardinality(R) + Cardinality({a} \X F[a])
  BY <1>2, <1>3, <1>6, CardDisjoint
<1>9. /\ Cardinality(R) \in Nat /\ Cardinality(F[a]) \in Nat
      /\ Cardinality(G[a]) \in Nat
  BY <1>1, <1>2, FS_CardinalityType
<1> QED
  BY <1>1, <1>6, <1>7, <1>8, <1>9 DEF Total
-----------------------------------------------------------------------------
\* The pages of the user are finitely many, and so are those of a table.
LEMMA UserFinite ==
  ASSUME NEW V
  PROVE  /\ IsFiniteSet(V \cap UserPages)
         /\ Cardinality(V \cap UserPages) \in Nat
<1>1. TRAPFRAME \in Nat
  BY MemConst
<1>2. IsFiniteSet(UserPages)
  BY <1>1, FS_Interval DEF UserPages
<1>3. IsFiniteSet(V \cap UserPages)
  BY <1>2, FS_Subset
<1> QED
  BY <1>3, FS_CardinalityType

\* One table changes.
LEMMA TabCount ==
  ASSUME NEW f, NEW g, NEW a \in Tables,
         \A x \in Tables : x # a => g[x] = f[x],
         TabsFinite(f), IsFiniteSet(g[a].nodes)
  PROVE  /\ TabsFinite(g) /\ IsFiniteSet(f[a].nodes)
         /\ TabPages(f) \in Nat /\ TabPages(g) \in Nat
         /\ UsedBy(f[a]) \in Nat /\ UsedBy(g[a]) \in Nat
         /\ TabPages(g) + UsedBy(f[a]) = TabPages(f) + UsedBy(g[a])
<1>1. PICK F, G : F = NodesOf(f) /\ G = NodesOf(g)
  OBVIOUS
<1>2. /\ DOMAIN F = Tables /\ DOMAIN G = Tables /\ F[a] = f[a].nodes
      /\ G[a] = g[a].nodes /\ \A x \in Tables : x # a => G[x] = F[x]
      /\ IsFiniteSet(Pairs(F))
  BY <1>1 DEF NodesOf, TabsFinite
<1>3. /\ IsFiniteSet(Pairs(G)) /\ IsFiniteSet(F[a])
      /\ Cardinality(F[a]) \in Nat /\ Cardinality(G[a]) \in Nat
      /\ Total(F) \in Nat /\ Total(G) \in Nat
      /\ Total(G) + Cardinality(F[a]) = Total(F) + Cardinality(G[a])
  BY <1>2, PairsChange
<1>4. PICK H, I : H = LeavesOf(f) /\ I = LeavesOf(g)
  OBVIOUS
<1>5. /\ H[a] = Mapped(f[a]) \cap UserPages
      /\ I[a] = Mapped(g[a]) \cap UserPages
  BY <1>4 DEF LeavesOf
<1>6. /\ DOMAIN H = Tables /\ DOMAIN I = Tables
      /\ \A x \in Tables : x # a => I[x] = H[x]
      /\ IsFiniteSet(Pairs(H)) /\ IsFiniteSet(I[a])
  <2>1. IsFiniteSet(I[a])
    BY <1>5, UserFinite
  <2> QED
    BY <1>4, <2>1 DEF LeavesOf, TabsFinite
<1>7. /\ IsFiniteSet(Pairs(I))
      /\ Cardinality(H[a]) \in Nat /\ Cardinality(I[a]) \in Nat
      /\ Total(H) \in Nat /\ Total(I) \in Nat
      /\ Total(I) + Cardinality(H[a]) = Total(H) + Cardinality(I[a])
  BY <1>6, PairsChange
<1>8. /\ UsedBy(f[a]) = Cardinality(F[a]) + Cardinality(H[a])
      /\ UsedBy(g[a]) = Cardinality(G[a]) + Cardinality(I[a])
  BY <1>2, <1>5 DEF UsedBy
<1>9. TabPages(f) = Total(F) + Total(H) /\ TabPages(g) = Total(G) + Total(I)
  BY <1>1, <1>4 DEF TabPages
<1>10. TabsFinite(g) /\ IsFiniteSet(f[a].nodes)
  BY <1>1, <1>2, <1>3, <1>4, <1>7 DEF TabsFinite
<1> QED
  BY <1>3, <1>7, <1>8, <1>9, <1>10

\* One job changes.
LEMMA JobCount ==
  ASSUME NEW f \in [Processes -> Jobs], NEW g \in [Processes -> Jobs],
         NEW p \in Processes, \A r \in Processes : r # p => g[r] = f[r],
         JobsFinite(f)
  PROVE  /\ JobsFinite(g)
         /\ JobPages(f) \in Nat /\ JobPages(g) \in Nat
         /\ HeldBy(f[p]) \in Nat /\ HeldBy(g[p]) \in Nat
         /\ JobPages(g) + HeldBy(f[p]) = JobPages(f) + HeldBy(g[p])
<1>1. PICK F, G : F = ArgsOf(f) /\ G = ArgsOf(g)
  OBVIOUS
<1>2. f[p].args \in Nat /\ g[p].args \in Nat
  BY DEF Jobs
<1>3. /\ DOMAIN F = Processes /\ DOMAIN G = Processes
      /\ F[p] = 1 .. f[p].args /\ G[p] = 1 .. g[p].args
      /\ \A r \in Processes : r # p => G[r] = F[r]
      /\ IsFiniteSet(Pairs(F))
  BY <1>1 DEF ArgsOf, JobsFinite
<1>4. /\ Cardinality(F[p]) = f[p].args /\ Cardinality(G[p]) = g[p].args
      /\ IsFiniteSet(G[p])
  <2>1. PICK m, n \in Nat : m = f[p].args /\ n = g[p].args
    BY <1>2
  <2>2. Cardinality(1 .. m) = m
    BY FS_Interval
  <2>3. Cardinality(1 .. n) = n /\ IsFiniteSet(1 .. n)
    BY FS_Interval
  <2> QED
    BY <1>3, <2>1, <2>2, <2>3
<1>5. /\ IsFiniteSet(Pairs(G))
      /\ Total(F) \in Nat /\ Total(G) \in Nat
      /\ Total(G) + f[p].args = Total(F) + g[p].args
  BY <1>3, <1>4, PairsChange
<1>6. PICK S, T : S = HandsOf(f) /\ T = HandsOf(g)
  OBVIOUS
<1>7. IsFiniteSet(S) /\ S \cup {p} = T \cup {p}
  BY <1>6 DEF HandsOf, JobsFinite
<1>8. /\ IsFiniteSet(S \cup {p})
      /\ Cardinality(S \cup {p}) =
           IF p \in S THEN Cardinality(S) ELSE Cardinality(S) + 1
  BY <1>7, FS_AddElement
<1>9. IsFiniteSet(T)
  BY <1>7, <1>8, FS_Subset
<1>10. Cardinality(T \cup {p}) =
         IF p \in T THEN Cardinality(T) ELSE Cardinality(T) + 1
  BY <1>9, FS_AddElement
<1>11. Cardinality(S) \in Nat /\ Cardinality(T) \in Nat
  BY <1>7, <1>9, FS_CardinalityType
<1>12. (p \in S <=> HandFull(f[p])) /\ (p \in T <=> HandFull(g[p]))
  BY <1>6 DEF HandsOf
<1>13. /\ HeldBy(f[p]) = (IF p \in S THEN 1 ELSE 0) + f[p].args
       /\ HeldBy(g[p]) = (IF p \in T THEN 1 ELSE 0) + g[p].args
  BY <1>12 DEF HeldBy
<1>14. /\ JobPages(f) = Cardinality(S) + Total(F)
       /\ JobPages(g) = Cardinality(T) + Total(G)
  BY <1>1, <1>6 DEF JobPages
<1>15. JobsFinite(g)
  BY <1>1, <1>5, <1>6, <1>9 DEF JobsFinite
<1>16. (IF p \in T THEN 0 ELSE 1) + Cardinality(T)
         = (IF p \in S THEN 0 ELSE 1) + Cardinality(S)
  <2>1. Cardinality(S \cup {p}) = Cardinality(T \cup {p})
    BY <1>7
  <2> QED
    BY <1>8, <1>10, <1>11, <2>1
<1> QED
  BY <1>2, <1>5, <1>11, <1>13, <1>14, <1>15, <1>16
-----------------------------------------------------------------------------
\* A step of p that changes its job, the table a and frame keeps the sum when
\* it does so where it changes something.
Balanced(p, a) ==
  /\ \A r \in Processes : r # p => job'[r] = job[r]
  /\ \A x \in Tables : x # a => tab'[x] = tab[x]
  /\ pages' = pages /\ IsFiniteSet(frame') /\ IsFiniteSet(tab'[a].nodes)
  /\ nfree' + Cardinality(frame') + HeldBy(job'[p]) + UsedBy(tab'[a])
       = nfree + Cardinality(frame) + HeldBy(job[p]) + UsedBy(tab[a])

LEMMA CountStep ==
  ASSUME MemType, MemType', Counted, NEW p \in Processes, NEW a \in Tables,
         Balanced(p, a)
  PROVE  Counted'
<1>1. PICK f, g \in [Processes -> Jobs] : f = job /\ g = job'
  BY DEF MemType
<1>2. PICK s, t : s = tab /\ t = tab'
  OBVIOUS
<1>3. /\ \A r \in Processes : r # p => g[r] = f[r]
      /\ \A x \in Tables : x # a => t[x] = s[x]
      /\ IsFiniteSet(t[a].nodes) /\ JobsFinite(f) /\ TabsFinite(s)
  BY <1>1, <1>2 DEF Balanced, Counted
<1>4. /\ JobsFinite(g)
      /\ JobPages(f) \in Nat /\ JobPages(g) \in Nat
      /\ HeldBy(f[p]) \in Nat /\ HeldBy(g[p]) \in Nat
      /\ JobPages(g) + HeldBy(f[p]) = JobPages(f) + HeldBy(g[p])
  BY <1>3, JobCount
<1>5. /\ TabsFinite(t)
      /\ TabPages(s) \in Nat /\ TabPages(t) \in Nat
      /\ UsedBy(s[a]) \in Nat /\ UsedBy(t[a]) \in Nat
      /\ TabPages(t) + UsedBy(s[a]) = TabPages(s) + UsedBy(t[a])
  BY <1>3, TabCount
<1>6. Cardinality(frame) \in Nat /\ Cardinality(frame') \in Nat
  BY FS_CardinalityType DEF Balanced, Counted
<1>7. nfree \in Nat /\ nfree' \in Nat
  BY DEF MemType
<1>8. nfree + Cardinality(frame) + JobPages(f) + TabPages(s) = pages
  BY <1>1, <1>2 DEF Counted
<1>9. nfree' + Cardinality(frame') + HeldBy(g[p]) + UsedBy(t[a])
        = nfree + Cardinality(frame) + HeldBy(f[p]) + UsedBy(s[a])
  BY <1>1, <1>2 DEF Balanced
<1>10. nfree' + Cardinality(frame') + JobPages(g) + TabPages(t) = pages
  BY <1>4, <1>5, <1>6, <1>7, <1>8, <1>9
<1>11. pages' = pages /\ IsFiniteSet(frame')
  BY DEF Balanced
<1>12. Counted' = /\ IsFiniteSet(frame') /\ JobsFinite(g) /\ TabsFinite(t)
                  /\ nfree' + Cardinality(frame') + JobPages(g) + TabPages(t)
                       = pages'
  BY <1>1, <1>2 DEF Counted
<1> QED
  BY <1>4, <1>5, <1>10, <1>11, <1>12

\* The names of tables are different.
LEMMA TabNames ==
  \A p \in Processes :
    /\ Cur(p) \in Tables /\ New(p) \in Tables /\ Cur(p)[1] = p
    /\ NoTab # Cur(p) /\ NoTab # New(p) /\ New(p)[1] = p
    /\ \A r \in Processes : /\ Cur(p) # New(r)
                            /\ Cur(p) = Cur(r) => p = r
                            /\ New(p) = New(r) => p = r
  BY DEF Cur, New, Tables, NoTab

LEMMA TargetOK ==
  ASSUME NEW p \in Processes, NEW j \in Jobs, JobShape(p, j), j.op # "none"
  PROVE  j.t \in Tables /\ j.t[1] \in Processes
<1>1. j.t[1] \in Processes
  BY DEF Jobs
<1>2. j.op \in Ops
  BY DEF Jobs
<1>3. CASE j.op = "exec"
  BY <1>1, <1>3, TabNames DEF JobShape
<1>4. CASE j.op = "fork"
  BY <1>1, <1>4, TabNames DEF JobShape
<1>5. CASE j.op \in {"boot", "grow", "fault"}
  BY <1>1, <1>5, TabNames DEF JobShape
<1> QED
  BY <1>2, <1>3, <1>4, <1>5 DEF Ops

\* What a step leaves as it is for r.
Untouched(r) ==
  /\ job'[r] = job[r] /\ sz'[r] = sz[r] /\ image'[r] = image[r]
  /\ tab'[Cur(r)] = tab[Cur(r)] /\ tab'[New(r)] = tab[New(r)]
  /\ r \in frame' <=> r \in frame

\* The processes that a step does not touch, and whose children it does not,
\* are well afterwards.
LEMMA KeepOthers ==
  ASSUME MemType, NEW r \in Processes, ProcOK(r), Untouched(r),
         job[r].op = "fork" => Untouched(Child(r)),
         IsKid(r) => IsKid(r)'
  PROVE  ProcOK(r)'
<1>1. job[r] \in Jobs /\ JobShape(r, job[r])
  BY DEF MemType, ProcOK, JobsOK
<1>2. job[r].op # "none" => tab'[job[r].t] = tab[job[r].t]
  <2>1. job[r].op \in Ops
    BY <1>1 DEF Jobs
  <2>2. CASE job[r].op = "exec"
    BY <1>1, <2>2 DEF JobShape, Untouched
  <2>3. CASE job[r].op = "fork"
    BY <1>1, <2>3 DEF JobShape, Untouched, Child
  <2>4. CASE job[r].op \in {"boot", "grow", "fault"}
    BY <1>1, <2>4 DEF JobShape, Untouched
  <2> QED
    BY <2>1, <2>2, <2>3, <2>4 DEF Ops
<1>3. JobsOK(r)'
  BY DEF ProcOK, JobsOK, Untouched
<1>4. FillsOK(r)'
  <2>1. Mapping(job[r]) => job[r].op # "none"
    BY <1>1 DEF JobShape, Mapping
  <2> QED
    BY <1>2, <2>1 DEF ProcOK, FillsOK, Untouched
<1>5. HoldsImage(r)'
  BY DEF ProcOK, HoldsImage, Untouched
<1>6. SizesOK(r)' /\ KernelsOK(r)'
  BY DEF ProcOK, SizesOK, KernelsOK, Untouched
<1>7. AbsentOK(r)'
  <2>1. job[r].pc = "root" => job[r].op # "none"
    BY <1>1 DEF JobShape, Fresh
  <2> QED
    BY <1>2, <2>1 DEF ProcOK, AbsentOK, Untouched
<1>8. KidOK(r)'
  BY DEF ProcOK, KidOK, Untouched, Child
<1> QED
  BY <1>3, <1>4, <1>5, <1>6, <1>7, <1>8 DEF ProcOK

\* A step of p on its own memory: p is nobody's child, and has none.
Private(p) ==
  /\ \A r \in Processes : r # p => Untouched(r)
  /\ ~IsKid(p) /\ job[p].op # "fork" /\ job'[p].op # "fork"

LEMMA PrivateStep ==
  ASSUME MemInv, NEW p \in Processes, Private(p)
  PROVE  /\ \A r \in Processes : r # p => ProcOK(r)'
         /\ OneParent' /\ ~IsKid(p)'
<1>1. \A r \in Processes : job[r].op = "fork" <=> job'[r].op = "fork"
  BY DEF Private, Untouched
<1>2. \A r \in Processes : job'[r].op = "fork" => r # p /\ job'[r] = job[r]
  BY DEF Private, Untouched
<1>3. OneParent'
  BY <1>1, <1>2 DEF OneParent, MemInv
<1>4. \A q \in Processes : IsKid(q)' <=> IsKid(q)
  BY <1>1, <1>2 DEF IsKid
<1>5. ASSUME NEW r \in Processes, r # p PROVE ProcOK(r)'
  <2>1. ProcOK(r) /\ Untouched(r) /\ MemType
    BY <1>5 DEF MemInv, Private
  <2>2. IsKid(r) => IsKid(r)'
    BY <1>4
  <2>3. job[r].op = "fork" => Untouched(Child(r))
    <3> SUFFICES ASSUME job[r].op = "fork" PROVE Untouched(Child(r))
      OBVIOUS
    <3>1. Child(r) \in Processes /\ job[r].t = Cur(Child(r))
      BY <2>1 DEF MemType, Jobs, ProcOK, JobsOK, JobShape, Child
    <3>2. Child(r) # p
      BY <3>1 DEF Private, IsKid
    <3> QED
      BY <3>1, <3>2 DEF Private
  <2> QED
    BY <2>1, <2>2, <2>3, KeepOthers
<1>6. ~IsKid(p)'
  BY <1>4 DEF Private
<1> QED
  BY <1>3, <1>5, <1>6

\* A step of p on the memory of q, its child before the step or after it.
Forks(p, q) ==
  /\ \A r \in Processes : r # p /\ r # q => Untouched(r)
  /\ job'[q] = job[q] /\ job[q].op # "fork" /\ ~IsKid(p) /\ p # q
  /\ \A r \in Processes : r # p /\ job[r].op = "fork" => job[r].t # Cur(q)
  /\ job[p].op = "fork" => job[p].t = Cur(q)
  /\ job'[p].op = "fork" => job'[p].t = Cur(q)

LEMMA ForkStep ==
  ASSUME MemInv, NEW p \in Processes, NEW q \in Processes, Forks(p, q)
  PROVE  /\ \A r \in Processes : r # p /\ r # q => ProcOK(r)'
         /\ OneParent' /\ ~IsKid(p)'
         /\ IsKid(q)' <=> job'[p].op = "fork"
<1>1. \A r \in Processes : r # p => job'[r] = job[r]
  BY DEF Forks, Untouched
<1>2. \A r, s \in Processes : Cur(r) = Cur(s) => r = s
  BY TabNames
<1>3. OneParent'
  <2> SUFFICES ASSUME NEW r \in Processes, NEW s \in Processes,
                      job'[r].op = "fork", job'[s].op = "fork",
                      job'[r].t = job'[s].t
               PROVE  r = s
    BY DEF OneParent
  <2>1. CASE r = p /\ s # p
    BY <1>1, <2>1 DEF Forks
  <2>2. CASE r # p /\ s = p
    BY <1>1, <2>2 DEF Forks
  <2>3. CASE r # p /\ s # p
    BY <1>1, <2>3 DEF OneParent, MemInv
  <2> QED
    BY <2>1, <2>2, <2>3
<1>4. \A r \in Processes : r # q => (IsKid(r)' <=> IsKid(r))
  <2> SUFFICES ASSUME NEW r \in Processes, r # q
               PROVE  IsKid(r)' <=> IsKid(r)
    OBVIOUS
  <2>1. \A s \in Processes : job[s].op = "fork" /\ job[s].t = Cur(r) => s # p
    BY <1>2 DEF Forks
  <2>2. \A s \in Processes :
          job'[s].op = "fork" /\ job'[s].t = Cur(r) => s # p
    BY <1>2 DEF Forks
  <2> QED
    BY <1>1, <2>1, <2>2 DEF IsKid
<1>5. ASSUME NEW r \in Processes, r # p, r # q PROVE ProcOK(r)'
  <2>1. ProcOK(r) /\ Untouched(r) /\ MemType
    BY <1>5 DEF MemInv, Forks
  <2>2. IsKid(r) => IsKid(r)'
    BY <1>4, <1>5
  <2>3. job[r].op = "fork" => Untouched(Child(r))
    <3> SUFFICES ASSUME job[r].op = "fork" PROVE Untouched(Child(r))
      OBVIOUS
    <3>1. Child(r) \in Processes /\ job[r].t = Cur(Child(r))
      BY <2>1 DEF MemType, Jobs, ProcOK, JobsOK, JobShape, Child
    <3>2. Child(r) # p
      BY <3>1 DEF Forks, IsKid
    <3>3. Child(r) # q
      BY <3>1, <1>5 DEF Forks
    <3> QED
      BY <3>1, <3>2, <3>3 DEF Forks
  <2> QED
    BY <2>1, <2>2, <2>3, KeepOthers
<1>6. ~IsKid(p)'
  BY <1>4 DEF Forks
<1>7. IsKid(q)' <=> job'[p].op = "fork"
  BY <1>1 DEF Forks, IsKid
<1> QED
  BY <1>3, <1>5, <1>6, <1>7
-----------------------------------------------------------------------------
\* Tables: none, one with pages unmapped, one that is freed.
LEMMA NoTableOK ==
  /\ None \in Ptes /\ NoTable \in PageTables /\ NoTable.nodes = {}
  /\ \A v \in VPages : NoTable.leaf[v] = None
  /\ KernelOnly(NoTable) /\ NoUser(NoTable)
  /\ IsFiniteSet(NoTable.nodes) /\ UsedBy(NoTable) = 0
<1>1. None \in Ptes
  BY DEF None, Pte, Ptes, Contents
<1>2. /\ NoTable.nodes = {} /\ NoTable.leaf = [v \in VPages |-> None]
  BY DEF NoTable
<1>3. NoTable \in PageTables
  BY <1>1 DEF NoTable, PageTables
<1>4. ~None.u
  BY DEF None, Pte
<1>5. KernelOnly(NoTable) /\ NoUser(NoTable)
  BY <1>2, <1>4, MemConst DEF KernelOnly, NoUser
<1>6. Mapped(NoTable) \cap UserPages = {}
  BY <1>2 DEF Mapped
<1>7. UsedBy(NoTable) = 0
  BY <1>2, <1>6, FS_EmptySet DEF UsedBy
<1> QED
  BY <1>1, <1>2, <1>3, <1>5, <1>7, FS_EmptySet

\* A table that has the pages of V no more.
Without(t, T, V) ==
  /\ T \in PageTables /\ T.nodes = t.nodes
  /\ \A v \in VPages : T.leaf[v] = IF v \in V THEN None ELSE t.leaf[v]

LEMMA UnmapOK ==
  ASSUME NEW t \in PageTables, NEW V
  PROVE  Without(t, Unmap(t, V), V)
<1>1. PICK T : T = Unmap(t, V)
  OBVIOUS
<1>2. PICK l : l = [v \in VPages |-> IF v \in V THEN None ELSE t.leaf[v]]
  OBVIOUS
<1>3. l \in [VPages -> Ptes]
  BY <1>2, NoTableOK DEF PageTables
<1>4. T = [t EXCEPT !.leaf = l]
  BY <1>1, <1>2 DEF Unmap
<1>5. T \in PageTables /\ T.nodes = t.nodes /\ T.leaf = l
  BY <1>3, <1>4 DEF PageTables
<1> QED
  BY <1>1, <1>2, <1>5 DEF Without

LEMMA UnmapCount ==
  ASSUME NEW t \in PageTables, NEW T, NEW V \in SUBSET UserPages,
         Without(t, T, V), IsFiniteSet(t.nodes)
  PROVE  /\ Size(t, V) \in Nat /\ UsedBy(T) \in Nat
         /\ UsedBy(T) + Size(t, V) = UsedBy(t)
         /\ KernelOnly(t) => KernelOnly(T)
<1>1. PICK M, N, D : /\ M = Mapped(t) \cap UserPages
                     /\ N = Mapped(T) \cap UserPages
                     /\ D = V \cap Mapped(t)
  OBVIOUS
<1>2. M = N \cup D /\ N \cap D = {} /\ D = D \cap UserPages
  BY <1>1, MemConst DEF Without, Mapped
<1>3. IsFiniteSet(N) /\ IsFiniteSet(D)
  BY <1>1, <1>2, UserFinite
<1>4. /\ Cardinality(N) \in Nat /\ Cardinality(D) \in Nat
      /\ Cardinality(N \cup D) = Cardinality(N) + Cardinality(D)
  BY <1>2, <1>3, CardDisjoint
<1>5. Cardinality(t.nodes) \in Nat /\ T.nodes = t.nodes
  BY FS_CardinalityType DEF Without
<1>6. KernelOnly(t) => KernelOnly(T)
  BY MemConst DEF KernelOnly, Without
<1>7. /\ UsedBy(T) = Cardinality(t.nodes) + Cardinality(N)
      /\ UsedBy(t) = Cardinality(t.nodes) + Cardinality(M)
      /\ Size(t, V) = Cardinality(D)
  BY <1>1, <1>5 DEF UsedBy, Size
<1> QED
  BY <1>2, <1>4, <1>5, <1>6, <1>7

\* proc_freepagetable() frees all there is when nothing is mapped above.
LEMMA ProcFreeOK ==
  ASSUME NEW t \in PageTables, NEW s \in Nat, s <= TRAPFRAME,
         IsFiniteSet(t.nodes),
         \A v \in UserPages : t.leaf[v] # None => v < s
  PROVE  ProcFree(t, s) = UsedBy(t) /\ ~FreewalkLeaf(t, s)
<1>1. (0 .. s - 1) \cap Mapped(t) = Mapped(t) \cap UserPages
  <2>1. \A v \in Mapped(t) : v \in Nat /\ t.leaf[v] # None
    BY MemConst DEF Mapped
  <2>2. \A v \in Nat : v \in 0 .. s - 1 <=> v < s
    OBVIOUS
  <2>3. \A v \in Nat : v < s => v \in UserPages
    BY MemConst
  <2> QED
    BY <2>1, <2>2, <2>3
<1>2. Size(t, 0 .. s - 1) = Cardinality(Mapped(t) \cap UserPages)
  BY <1>1 DEF Size
<1>3. ProcFree(t, s) = UsedBy(t)
  <2>1. Cardinality(Mapped(t) \cap UserPages) \in Nat
    BY UserFinite
  <2>2. Cardinality(t.nodes) \in Nat
    BY FS_CardinalityType
  <2> QED
    BY <1>2, <2>1, <2>2 DEF ProcFree, UsedBy
<1>4. \A v \in Mapped(t) : v \in 0 .. s - 1 \cup {TRAMPOLINE, TRAPFRAME}
  BY MemConst DEF Mapped
<1>5. ~FreewalkLeaf(t, s)
  BY <1>4 DEF FreewalkLeaf
<1> QED
  BY <1>3, <1>5

\* So what failed gives back everything.
LEMMA FreeRest ==
  ASSUME NEW t \in PageTables, NEW T, NEW V \in SUBSET UserPages,
         Without(t, T, V), NEW s \in Nat, s <= TRAPFRAME,
         IsFiniteSet(t.nodes),
         \A v \in UserPages : t.leaf[v] # None => v \in V \/ v < s
  PROVE  /\ Size(t, V) \in Nat /\ ProcFree(T, s) \in Nat
         /\ Size(t, V) + ProcFree(T, s) = UsedBy(t)
         /\ ~FreewalkLeaf(T, s)
<1>1. T \in PageTables /\ \A v \in UserPages : T.leaf[v] # None => v < s
  BY MemConst DEF Without
<1>2. ProcFree(T, s) = UsedBy(T) /\ ~FreewalkLeaf(T, s)
  <2>1. IsFiniteSet(T.nodes)
    BY DEF Without
  <2> QED
    BY <1>1, <2>1, ProcFreeOK
<1>3. /\ Size(t, V) \in Nat /\ UsedBy(T) \in Nat
      /\ UsedBy(T) + Size(t, V) = UsedBy(t)
  BY UnmapCount
<1> QED
  BY <1>2, <1>3
-----------------------------------------------------------------------------
\* Two records of the same operation.
SameOp(j, k) ==
  /\ k.op = j.op /\ k.old = j.old /\ k.sz = j.sz /\ k.prog = j.prog
  /\ k.seg = j.seg

LEMMA FillSame ==
  ASSUME NEW j, NEW k, NEW t, NEW T, NEW c, NEW s, SameOp(j, k),
         k.todo = j.todo, T.leaf = t.leaf, FillOK(j, t, c, s)
  PROVE  FillOK(k, T, c, s)
<1>1. Loaded(k) = Loaded(j) /\ ExecTop(k) = ExecTop(j)
  BY DEF SameOp, Loaded, ExecTop
<1>2. \A v : TextBefore(k, v) <=> TextBefore(j, v)
  BY DEF SameOp, TextBefore
<1>3. TodoOK(k, T)
  BY DEF FillOK, TodoOK, SameOp, NoUser
<1>4. k.op = "exec" => ExecOK(k, T)
  BY <1>1, <1>2 DEF FillOK, ExecOK, SameOp
<1>5. k.op = "fork" => ForkOK(k, T, c)
  BY DEF FillOK, ForkOK, SameOp
<1>6. k.op = "grow" => GrowOK(k, s)
  BY DEF FillOK, GrowOK, SameOp
<1>7. k.op = "fault" => FaultOK(k, s)
  BY DEF FillOK, FaultOK, SameOp
<1> QED
  BY <1>3, <1>4, <1>5, <1>6, <1>7 DEF FillOK

\* No text is read to pages above the image so far.
LEMMA TextBelow ==
  ASSUME NEW j \in Jobs, j.prog \in Programs, NEW t, ExecOK(j, t),
         NEW v \in Nat, v >= j.sz
  PROVE  ~TextBefore(j, v)
<1> SUFFICES ASSUME NEW i \in 1 .. j.seg - 1, v \in Text(j.prog[i])
             PROVE  FALSE
  BY DEF TextBefore
<1>1. PICK prog \in Programs : prog = j.prog
  OBVIOUS
<1>2. prog \in Seq(Segments) /\ j.seg \in Nat /\ j.sz \in Nat
  BY MemoryAssumption DEF Jobs
<1>3. j.seg <= Len(prog) + 1 /\ End(prog[i]) <= j.sz
  BY <1>1 DEF ExecOK
<1>4. i \in DOMAIN prog
  BY <1>2, <1>3
<1>5. End(prog[i]) \in Nat /\ v < End(prog[i])
  BY <1>1, <1>4, TextFits
<1> QED
  BY <1>2, <1>3, <1>5

\* The image fits.
LEMMA ExecTopOK ==
  ASSUME NEW j \in Jobs, j.prog \in Programs, NEW t, ExecOK(j, t)
  PROVE  /\ j.sz + USERSTACK + 1 <= TRAPFRAME
         /\ ExecTop(j) \in Nat /\ ExecTop(j) <= TRAPFRAME
         /\ j.seg <= Len(j.prog) => /\ Loaded(j) \in Nat
                                   /\ Loaded(j) + USERSTACK + 1 <= TRAPFRAME
                                   /\ Loaded(j) >= j.sz
<1>1. PICK prog \in Programs : prog = j.prog
  OBVIOUS
<1>2. prog \in Seq(Segments) /\ j.seg \in Nat /\ j.sz \in Nat
  BY MemoryAssumption DEF Jobs
<1>3. /\ j.seg <= Len(prog) + 1
      /\ j.sz = 0 \/ \E i \in 1 .. j.seg - 1 : End(prog[i]) = j.sz
  BY <1>1 DEF ExecOK
<1>4. \A i \in 1 .. Len(prog) :
        End(prog[i]) \in Nat /\ End(prog[i]) + USERSTACK + 1 <= TRAPFRAME
  BY <1>2, TextFits
<1>5. USERSTACK \in Nat /\ TRAPFRAME \in Nat /\ Len(prog) \in Nat
  BY <1>2, MemConst, MemoryAssumption
<1>6. j.sz + USERSTACK + 1 <= TRAPFRAME
  <2>1. CASE j.sz = 0
    BY <1>5, <2>1, MemoryAssumption
  <2>2. CASE \E i \in 1 .. j.seg - 1 : End(prog[i]) = j.sz
    BY <1>2, <1>3, <1>4, <1>5, <2>2
  <2> QED
    BY <1>3, <2>1, <2>2
<1>7. j.seg <= Len(prog) =>
        /\ Loaded(j) \in Nat /\ Loaded(j) + USERSTACK + 1 <= TRAPFRAME
        /\ Loaded(j) >= j.sz
  BY <1>1, <1>2, <1>4, <1>5, <1>6 DEF Loaded
<1>8. ExecTop(j) \in Nat /\ ExecTop(j) <= TRAPFRAME
  BY <1>1, <1>2, <1>3, <1>5, <1>6, <1>7 DEF ExecTop
<1> QED
  BY <1>1, <1>6, <1>7, <1>8

\* mappages() maps the next page, with entry e.
Maps(j, k, t, T, c, va, e) ==
  /\ va \in Lowest(j.todo) /\ SameOp(j, k) /\ k.todo = j.todo \ {va}
  /\ e # None
  /\ \A v \in VPages : T.leaf[v] = IF v = va THEN e ELSE t.leaf[v]
  /\ va \in UserPages /\ j.op = "fork" => e = c.leaf[va]
  /\ va \in UserPages /\ j.op = "exec" => e.u /\ e.c = "zero"

LEMMA FillMaps ==
  ASSUME NEW j \in Jobs, NEW k \in Jobs, NEW t, NEW T, NEW c, NEW s,
         NEW va, NEW e, NEW p \in Processes, JobShape(p, j),
         FillOK(j, t, c, s), Maps(j, k, t, T, c, va, e)
  PROVE  FillOK(k, T, c, s)
<1>1. /\ j.todo \in SUBSET VPages /\ va \in j.todo
      /\ SameOp(j, k) /\ k.todo = j.todo \ {va} /\ TodoOK(j, t)
  BY DEF Jobs, Maps, Lowest, FillOK
<1>2. \A v \in VPages : T.leaf[v] = IF v = va THEN e ELSE t.leaf[v]
  BY DEF Maps
<1>3. va \in UserPages => \A w \in k.todo : w > va
  <2>1. \A w \in j.todo : w \in Nat /\ (va \in UserPages => va <= w)
    BY <1>1, MemConst DEF Maps, Lowest
  <2> QED
    BY <1>1, <2>1, MemConst
<1>4. TodoOK(k, T)
  <2>1. \A v \in k.todo : T.leaf[v] = None
    BY <1>1, <1>2 DEF TodoOK
  <2>2. Fresh(k.op) /\ k.seg = 0 =>
          Special(k.todo) /\ NoUser(T) /\ k.sz = 0
    <3> SUFFICES ASSUME Fresh(k.op), k.seg = 0
                 PROVE  Special(k.todo) /\ NoUser(T) /\ k.sz = 0
      OBVIOUS
    <3>1. Special(j.todo) /\ NoUser(t) /\ j.sz = 0
      BY <1>1 DEF TodoOK, SameOp
    <3>2. va \notin UserPages
      BY <1>1, <3>1, MemConst DEF Special
    <3> QED
      BY <1>1, <1>2, <3>1, <3>2, MemConst DEF Special, NoUser, SameOp
  <2>3. ~(Fresh(k.op) /\ k.seg = 0) => k.todo \subseteq UserPages
    BY <1>1 DEF TodoOK, SameOp
  <2>4. k.op # "fault" =>
          \A v \in UserPages, w \in k.todo : T.leaf[v] # None => v < w
    BY <1>1, <1>2, <1>3, MemConst DEF TodoOK, SameOp
  <2> QED
    BY <2>1, <2>2, <2>3, <2>4 DEF TodoOK
<1>5. k.op = "exec" => ExecOK(k, T)
  <2> SUFFICES ASSUME k.op = "exec" PROVE ExecOK(k, T)
    OBVIOUS
  <2>1. Loaded(k) = Loaded(j) /\ ExecTop(k) = ExecTop(j) /\ ExecOK(j, t)
    BY <1>1 DEF SameOp, Loaded, ExecTop, FillOK
  <2>2. \A v : TextBefore(k, v) <=> TextBefore(j, v)
    BY <1>1 DEF SameOp, TextBefore
  <2>3. j.prog \in Programs /\ j.op = "exec"
    BY <1>1 DEF JobShape, SameOp
  <2>4. va \in UserPages => ~TextBefore(j, va) /\ va < ExecTop(j)
    <3> SUFFICES ASSUME va \in UserPages
                 PROVE  ~TextBefore(j, va) /\ va < ExecTop(j)
      OBVIOUS
    <3>1. va \in j.sz .. ExecTop(j) - 1
      BY <1>1, <2>1 DEF ExecOK
    <3>2. va \in Nat /\ va >= j.sz
      BY <3>1, MemConst DEF Jobs
    <3>3. ~TextBefore(j, va)
      BY <2>1, <2>3, <3>2, TextBelow
    <3>4. ExecTop(j) \in Int
      BY <2>1, <2>3, ExecTopOK
    <3> QED
      BY <3>1, <3>2, <3>3, <3>4
  <2>5. \A v \in UserPages :
          T.leaf[v] # None <=> v < ExecTop(k) /\ v \notin k.todo
    BY <1>1, <1>2, <2>1, <2>4, MemConst DEF ExecOK, Maps
  <2>6. \A v \in UserPages : T.leaf[v] # None =>
          /\ T.leaf[v].u
          /\ T.leaf[v].c = IF TextBefore(k, v) THEN "text" ELSE "zero"
    <3> SUFFICES ASSUME NEW v \in UserPages, T.leaf[v] # None
                 PROVE  /\ T.leaf[v].u
                        /\ T.leaf[v].c = IF TextBefore(k, v) THEN "text"
                                         ELSE "zero"
      OBVIOUS
    <3>1. CASE v = va
      <4>1. T.leaf[v] = e /\ e.u /\ e.c = "zero"
        BY <1>2, <2>3, <3>1, MemConst DEF Maps
      <4> QED
        BY <2>2, <2>4, <3>1, <4>1
    <3>2. CASE v # va
      <4>1. T.leaf[v] = t.leaf[v]
        BY <1>2, <3>2, MemConst
      <4> QED
        BY <2>1, <2>2, <4>1 DEF ExecOK
    <3> QED
      BY <3>1, <3>2
  <2>7. k.todo \cap UserPages \subseteq k.sz .. ExecTop(k) - 1
    BY <1>1, <2>1 DEF ExecOK, SameOp
  <2>8. /\ k.seg <= Len(k.prog) + 1 /\ (k.seg > 0 => k.old = k.sz)
        /\ \A i \in 1 .. k.seg - 1 : End(k.prog[i]) <= k.sz
        /\ k.sz = 0 \/ \E i \in 1 .. k.seg - 1 : End(k.prog[i]) = k.sz
    BY <1>1, <2>1 DEF ExecOK, SameOp
  <2> QED
    BY <2>5, <2>6, <2>7, <2>8 DEF ExecOK
<1>6. k.op = "fork" => ForkOK(k, T, c)
  BY <1>1, <1>2, MemConst DEF FillOK, ForkOK, SameOp, Maps
<1>7. k.op = "grow" => GrowOK(k, s)
  BY <1>1 DEF FillOK, GrowOK, SameOp
<1>8. k.op = "fault" => FaultOK(k, s)
  BY <1>1 DEF FillOK, FaultOK, SameOp
<1> QED
  BY <1>4, <1>5, <1>6, <1>7, <1>8 DEF FillOK
-----------------------------------------------------------------------------
\* From the invariant to one process, and back.
LEMMA WellNow ==
  ASSUME MemInv, NEW p \in Processes, job[p].op # "fork", ~IsKid(p)
  PROVE  Well(p, job[p], tab[Cur(p)], tab[New(p)], sz[p], image[p], frame)
<1>1. ProcOK(p)
  BY DEF MemInv
<1>2. job[p] \in Jobs /\ JobShape(p, job[p])
  BY <1>1 DEF MemInv, MemType, ProcOK, JobsOK
<1>3. Mapping(job[p]) \/ job[p].pc = "root" =>
        tab[job[p].t] = Filled(job[p], tab[Cur(p)], tab[New(p)])
  <2>1. job[p].op \in Ops
    BY <1>2 DEF Jobs
  <2> QED
    BY <1>2, <2>1 DEF JobShape, Filled, Mapping, Ops, Fresh
<1>4. Mapping(job[p]) =>
        FillOK(job[p], Filled(job[p], tab[Cur(p)], tab[New(p)]), tab[Cur(p)],
               sz[p])
  BY <1>1, <1>3 DEF ProcOK, FillsOK
<1>5. /\ ImageOK(job[p], tab[Cur(p)], sz[p], image[p])
      /\ SizeOK(sz[p], image[p])
      /\ KernelOnly(tab[Cur(p)]) /\ KernelOnly(tab[New(p)])
  BY <1>1 DEF ProcOK, HoldsImage, SizesOK, KernelsOK
<1>6. AbsentOK(p)
  BY <1>1 DEF ProcOK
<1>7. job[p].pc = "root" =>
        Filled(job[p], tab[Cur(p)], tab[New(p)]) = NoTable
  BY <1>3, <1>6 DEF AbsentOK
<1> QED
  BY <1>2, <1>4, <1>5, <1>6, <1>7 DEF Well, AbsentOK

LEMMA WellNext ==
  ASSUME MemType', NEW p \in Processes,
         Well(p, job'[p], tab'[Cur(p)], tab'[New(p)], sz'[p], image'[p],
              frame')
  PROVE  ProcOK(p)'
<1> DEFINE j == job'[p]
<1>1. j \in Jobs /\ JobShape(p, j) /\ j.op # "fork"
  BY DEF MemType, Well
<1>2. Mapping(j) \/ j.pc = "root" =>
        tab'[j.t] = Filled(j, tab'[Cur(p)], tab'[New(p)])
  <2>1. j.op \in Ops
    BY <1>1 DEF Jobs
  <2> QED
    BY <1>1, <2>1 DEF JobShape, Filled, Mapping, Ops, Fresh
<1>3. JobsOK(p)' /\ SizesOK(p)' /\ KernelsOK(p)' /\ HoldsImage(p)'
  BY DEF Well, JobsOK, SizesOK, KernelsOK, HoldsImage
<1>4. FillsOK(p)'
  BY <1>2 DEF Well, FillsOK
<1>5. AbsentOK(p)'
  BY <1>1, <1>2 DEF Well, AbsentOK
<1>6. KidOK(p)'
  BY <1>1 DEF KidOK
<1> QED
  BY <1>3, <1>4, <1>5, <1>6 DEF ProcOK

LEMMA PrivateInv ==
  ASSUME MemInv, MemType', Counted', NEW p \in Processes, Private(p),
         Well(p, job'[p], tab'[Cur(p)], tab'[New(p)], sz'[p], image'[p],
              frame')
  PROVE  MemInv'
<1>1. ProcOK(p)'
  BY WellNext
<1>2. (\A r \in Processes : r # p => ProcOK(r)') /\ OneParent'
  BY PrivateStep
<1> QED
  BY <1>1, <1>2 DEF MemInv

\* A process that is in an operation or runs is not a child in the making.
LEMMA NotKid ==
  ASSUME MemInv, NEW p \in Processes, job[p].op # "none"
  PROVE  ~IsKid(p)
<1> SUFFICES ASSUME NEW r \in Processes, job[r].op = "fork",
                    job[r].t = Cur(p)
             PROVE  FALSE
  BY DEF IsKid
<1>1. Child(r) = p
  BY TabNames DEF Child
<1>2. job[Child(r)].op = "none"
  BY DEF MemInv, ProcOK, KidOK
<1> QED
  BY <1>1, <1>2

LEMMA RunsOK ==
  ASSUME MemInv, NEW p \in Processes, Runs(p)
  PROVE  /\ ~IsKid(p) /\ p \in frame
         /\ job[p].op = "none" /\ job[p].pc = "idle" /\ job[p].t = NoTab
         /\ job[p].todo = {} /\ job[p].seg = 0 /\ job[p].sz = 0
         /\ job[p].args = 0 /\ HeldBy(job[p]) = 0
         /\ tab[New(p)] = NoTable
<1>1. ~IsKid(p) /\ p \in frame /\ job[p].pc = "idle"
  BY DEF Runs, Busy, IsKid, At
<1>2. ProcOK(p)
  BY DEF MemInv
<1>3. job[p].op = "none" /\ job[p].t = NoTab
  BY <1>1, <1>2 DEF ProcOK, JobsOK, JobShape
<1>4. /\ job[p].todo = {} /\ job[p].seg = 0 /\ job[p].sz = 0
      /\ job[p].args = 0
  BY <1>1, <1>2, <1>3 DEF ProcOK, JobsOK, JobShape, Mapping
<1>5. HeldBy(job[p]) = 0
  BY <1>1, <1>4 DEF HeldBy, HandFull
<1>6. tab[New(p)] = NoTable
  BY <1>2, <1>3 DEF ProcOK, AbsentOK
<1> QED
  BY <1>1, <1>3, <1>4, <1>5, <1>6

\* The parent of q, and q.
LEMMA ParentNow ==
  ASSUME MemInv, NEW p \in Processes, job[p].op = "fork"
  PROVE  \E q \in Processes :
           /\ q # p /\ Child(p) = q /\ job[p].t = Cur(q) /\ ~IsKid(p)
           /\ job[q].op = "none" /\ sz[q] = 0 /\ image[q] = Image0
           /\ \A r \in Processes :
                r # p /\ job[r].op = "fork" => job[r].t # Cur(q)
           /\ Parent(p, q, job[p], tab[Cur(q)], tab[Cur(p)], tab[New(p)],
                     sz[p], image[p], frame)
<1>1. ProcOK(p) /\ job[p] \in Jobs
  BY DEF MemInv, MemType
<1>2. JobShape(p, job[p])
  BY <1>1 DEF ProcOK, JobsOK
<1>3. PICK q \in Processes : q = job[p].t[1]
  BY <1>1 DEF Jobs
<1>4. q # p /\ Child(p) = q /\ job[p].t = Cur(q)
  BY <1>2, <1>3 DEF JobShape, Child
<1>5. ~IsKid(p)
  BY NotKid
<1>6. /\ job[q].op = "none" /\ sz[q] = 0 /\ image[q] = Image0
      /\ q \in frame <=> job[p].pc # "frame"
  BY <1>1, <1>4 DEF ProcOK, KidOK
<1>7. \A r \in Processes : r # p /\ job[r].op = "fork" => job[r].t # Cur(q)
  BY <1>4 DEF MemInv, OneParent
<1>8. ProcOK(q)
  BY DEF MemInv
<1>9. KernelOnly(tab[Cur(q)]) /\ (q \notin frame => tab[Cur(q)] = NoTable)
  BY <1>8 DEF ProcOK, KernelsOK, AbsentOK
<1>10. /\ p \in frame /\ tab[New(p)] = NoTable
       /\ job[p].pc = "root" => tab[Cur(q)] = NoTable
  BY <1>1, <1>4 DEF ProcOK, AbsentOK
<1>11. Mapping(job[p]) => FillOK(job[p], tab[Cur(q)], tab[Cur(p)], sz[p])
  BY <1>1, <1>4 DEF ProcOK, FillsOK
<1>12. /\ ImageOK(job[p], tab[Cur(p)], sz[p], image[p])
       /\ SizeOK(sz[p], image[p])
       /\ KernelOnly(tab[Cur(p)]) /\ KernelOnly(tab[New(p)])
  BY <1>1, <1>5 DEF ProcOK, HoldsImage, SizesOK, KernelsOK
<1>13. Parent(p, q, job[p], tab[Cur(q)], tab[Cur(p)], tab[New(p)], sz[p],
              image[p], frame)
  BY <1>2, <1>4, <1>6, <1>9, <1>10, <1>11, <1>12 DEF Parent
<1> QED
  BY <1>4, <1>5, <1>6, <1>7, <1>13

\* A step of the parent that goes on with the fork.
LEMMA ParentInv ==
  ASSUME MemInv, MemType', Counted', NEW p \in Processes, NEW q \in Processes,
         Forks(p, q), job'[p].op = "fork", job[q].op = "none",
         sz' = sz, image' = image, sz[q] = 0, image[q] = Image0,
         tab'[New(q)] = tab[New(q)],
         Parent(p, q, job'[p], tab'[Cur(q)], tab'[Cur(p)], tab'[New(p)],
                sz'[p], image'[p], frame')
  PROVE  MemInv'
<1>1. /\ \A r \in Processes : r # p /\ r # q => ProcOK(r)'
      /\ OneParent' /\ ~IsKid(p)' /\ IsKid(q)'
  BY ForkStep
<1> DEFINE j == job'[p]
<1>2. JobShape(p, j) /\ j.op = "fork" /\ j.t = Cur(q)
  BY DEF Parent
<1>3. Child(p)' = q /\ job'[q] = job[q]
  BY <1>2, TabNames DEF Child, Forks
<1>4. ProcOK(p)'
  <2>1. JobsOK(p)' /\ SizesOK(p)' /\ KernelsOK(p)' /\ HoldsImage(p)'
    BY DEF Parent, JobsOK, SizesOK, KernelsOK, HoldsImage
  <2>2. FillsOK(p)'
    BY <1>2 DEF Parent, FillsOK
  <2>3. AbsentOK(p)'
    BY <1>2 DEF Parent, AbsentOK
  <2>4. KidOK(p)'
    <3>1. q \in frame' <=> j.pc # "frame"
      BY DEF Parent
    <3> QED
      BY <1>3, <3>1 DEF KidOK
  <2> QED
    BY <2>1, <2>2, <2>3, <2>4 DEF ProcOK
<1>5. ProcOK(q)'
  <2>1. ProcOK(q)
    BY DEF MemInv
  <2>2. JobsOK(q)' /\ SizesOK(q)' /\ KidOK(q)'
    BY <1>3, <2>1 DEF ProcOK, JobsOK, SizesOK, KidOK
  <2>3. FillsOK(q)'
    BY <1>3, <2>1 DEF FillsOK, Mapping, ProcOK, JobsOK, JobShape
  <2>4. HoldsImage(q)'
    BY <1>1 DEF HoldsImage
  <2>5. KernelsOK(q)'
    BY <2>1 DEF Parent, ProcOK, KernelsOK
  <2>6. AbsentOK(q)'
    <3>1. job[q].pc # "root" /\ tab[New(q)] = NoTable
      BY <2>1 DEF ProcOK, JobsOK, JobShape, AbsentOK
    <3>2. q \notin frame' => tab'[Cur(q)] = NoTable
      BY DEF Parent
    <3> QED
      BY <1>3, <3>1, <3>2 DEF AbsentOK
  <2> QED
    BY <2>2, <2>3, <2>4, <2>5, <2>6 DEF ProcOK
<1> QED
  BY <1>1, <1>4, <1>5 DEF MemInv
-----------------------------------------------------------------------------
\* A fork that ends: neither is a parent any more, or a child.
LEMMA ForkEnds ==
  ASSUME MemInv, MemType', Counted', NEW p \in Processes, NEW q \in Processes,
         Forks(p, q),
         Well(p, job'[p], tab'[Cur(p)], tab'[New(p)], sz'[p], image'[p],
              frame'),
         Well(q, job'[q], tab'[Cur(q)], tab'[New(q)], sz'[q], image'[q],
              frame')
  PROVE  MemInv'
<1>1. ProcOK(p)' /\ ProcOK(q)'
  BY WellNext
<1>2. /\ \A r \in Processes : r # p /\ r # q => ProcOK(r)'
      /\ OneParent'
  BY ForkStep
<1> QED
  BY <1>1, <1>2 DEF MemInv

\* The job of a process that is in no operation.
NoJob(j) ==
  /\ j \in Jobs /\ j.op = "none" /\ j.pc \in {"idle", "halt"} /\ j.t = NoTab
  /\ j.todo = {} /\ j.seg = 0 /\ j.sz = 0 /\ j.args = 0

LEMMA IdleJobOK ==
  /\ NoJob(IdleJob) /\ HeldBy(IdleJob) = 0
  /\ \A j : NoJob(j) => HeldBy(j) = 0
<1>1. <<>> \in Seq(Segments) /\ NoTab \in Processes \X {"cur", "new", "none"}
  BY MemoryAssumption DEF NoTab
<1>2. IdleJob \in Jobs
  BY <1>1 DEF IdleJob, Jobs, Ops, JobPcs
<1>3. NoJob(IdleJob)
  BY <1>2 DEF NoJob, IdleJob
<1>4. \A j : NoJob(j) => HeldBy(j) = 0
  BY DEF NoJob, HeldBy, HandFull
<1> QED
  BY <1>3, <1>4

LEMMA EndedOK ==
  ASSUME NEW p
  PROVE  NoJob(Ended(FALSE)) /\ NoJob(Failed(p, FALSE))
<1>1. PICK y \in {"idle", "halt"} :
        Failed(p, FALSE) = [IdleJob EXCEPT !.pc = y]
  BY DEF Failed
<1>2. Ended(FALSE) = [IdleJob EXCEPT !.pc = "idle"]
  BY DEF Ended
<1>3. \A x \in {"idle", "halt"} : NoJob([IdleJob EXCEPT !.pc = x])
  <2> SUFFICES ASSUME NEW x \in {"idle", "halt"}
               PROVE  NoJob([IdleJob EXCEPT !.pc = x])
    OBVIOUS
  <2>1. PICK k : k = [IdleJob EXCEPT !.pc = x]
    OBVIOUS
  <2>2. IdleJob \in Jobs /\ x \in JobPcs
    BY IdleJobOK DEF NoJob, JobPcs
  <2>3. k \in Jobs
    BY <2>1, <2>2 DEF Jobs
  <2> QED
    BY <2>1, <2>3 DEF NoJob, IdleJob
<1> QED
  BY <1>1, <1>2, <1>3

LEMMA IdleWell ==
  ASSUME NEW p \in Processes, NEW j, NEW c, NEW n, NEW s, NEW im, NEW fr,
         NoJob(j), n = NoTable, SizeOK(s, im), KernelOnly(c),
         \A v \in UserPages :
           /\ im[v] = IF c.leaf[v] = None THEN "zero" ELSE c.leaf[v].c
           /\ c.leaf[v] # None => v < Up(s),
         p \in fr \/ (c = NoTable /\ s = 0 /\ im = Image0)
  PROVE  Well(p, j, c, n, s, im, fr)
<1>1. JobShape(p, j) /\ ~Mapping(j) /\ j.pc # "root"
  BY DEF NoJob, JobShape, Mapping, Fresh
<1>2. ImageOK(j, c, s, im)
  BY DEF ImageOK, Reach, NoJob
<1>3. KernelOnly(n)
  BY NoTableOK
<1> QED
  BY <1>1, <1>2, <1>3 DEF Well, NoJob

LEMMA TabFinite ==
  ASSUME Counted, NEW a \in Tables
  PROVE  IsFiniteSet(tab[a].nodes) /\ UsedBy(tab[a]) \in Nat
<1>1. IsFiniteSet(Pairs(NodesOf(tab)))
  BY DEF Counted, TabsFinite
<1>2. NodesOf(tab)[a] = tab[a].nodes /\ a \in DOMAIN NodesOf(tab)
  BY DEF NodesOf
<1>3. IsFiniteSet(tab[a].nodes)
  BY <1>1, <1>2, RowFinite
<1>4. /\ Cardinality(tab[a].nodes) \in Nat
      /\ Cardinality(Mapped(tab[a]) \cap UserPages) \in Nat
  BY <1>3, FS_CardinalityType, UserFinite
<1> QED
  BY <1>3, <1>4 DEF UsedBy

\* A step that changes only the job of p, its size and the free pages.
OnlyJob(p, j) ==
  /\ j \in Jobs /\ job' = [job EXCEPT ![p] = j]
  /\ UNCHANGED <<pages, frame, tab, image>>
  /\ nfree' \in Nat /\ sz' \in [Processes -> Nat]
  /\ \A r \in Processes : r # p => sz'[r] = sz[r]
  /\ job[p].op # "fork" /\ j.op # "fork" /\ ~IsKid(p)
  /\ nfree' + HeldBy(j) = nfree + HeldBy(job[p])

LEMMA OnlyJobInv ==
  ASSUME MemInv, NEW p \in Processes, NEW j, OnlyJob(p, j),
         Well(p, j, tab[Cur(p)], tab[New(p)], sz'[p], image[p], frame)
  PROVE  MemInv'
<1>1. MemType /\ Counted
  BY DEF MemInv
<1>2. job' \in [Processes -> Jobs] /\ job'[p] = j
  BY <1>1 DEF MemType, OnlyJob
<1>3. \A r \in Processes : r # p => job'[r] = job[r]
  BY <1>1 DEF MemType, OnlyJob
<1>4. MemType'
  BY <1>1, <1>2 DEF MemType, OnlyJob
<1>5. Private(p)
  BY <1>2, <1>3 DEF Private, Untouched, OnlyJob
<1>6. Balanced(p, Cur(p))
  <2>1. Cur(p) \in Tables
    BY TabNames
  <2>2. IsFiniteSet(tab[Cur(p)].nodes) /\ UsedBy(tab[Cur(p)]) \in Nat
    BY <1>1, <2>1, TabFinite
  <2>3. Cardinality(frame) \in Nat
    BY <1>1, FS_CardinalityType DEF Counted
  <2>4. HeldBy(j) \in Nat /\ HeldBy(job[p]) \in Nat
    <3>1. j.args \in Nat /\ job[p].args \in Nat
      BY <1>1 DEF OnlyJob, MemType, Jobs
    <3> QED
      BY <3>1 DEF HeldBy
  <2>5. nfree' + HeldBy(j) = nfree + HeldBy(job[p])
        /\ nfree \in Nat /\ nfree' \in Nat
    BY <1>1 DEF OnlyJob, MemType
  <2>6. /\ tab' = tab /\ frame' = frame /\ pages' = pages
        /\ IsFiniteSet(frame)
    BY <1>1 DEF OnlyJob, Counted
  <2>7. nfree' + Cardinality(frame) + HeldBy(j) + UsedBy(tab[Cur(p)])
          = nfree + Cardinality(frame) + HeldBy(job[p])
            + UsedBy(tab[Cur(p)])
    BY <2>2, <2>3, <2>4, <2>5
  <2> QED
    BY <1>2, <1>3, <2>2, <2>6, <2>7 DEF Balanced
<1>7. Counted'
  BY <1>1, <1>4, <1>6, TabNames, CountStep
<1>8. Well(p, job'[p], tab'[Cur(p)], tab'[New(p)], sz'[p], image'[p], frame')
  BY <1>2 DEF OnlyJob
<1> QED
  BY <1>4, <1>5, <1>7, <1>8, PrivateInv
-----------------------------------------------------------------------------
\* The calls that only begin or end an operation.

LEMMA SysExecInv ==
  ASSUME MemInv, NEW p \in Processes, NEW prog \in Programs, SysExec(p, prog)
  PROVE  MemInv'
<1>1. PICK j : j = [IdleJob EXCEPT !.op = "exec", !.pc = "args",
                                   !.t = New(p), !.prog = prog]
  OBVIOUS
<1>2. New(p) \in Processes \X {"cur", "new", "none"}
      /\ prog \in Seq(Segments)
  BY MemoryAssumption DEF New
<1>3. j \in Jobs
  BY <1>1, <1>2 DEF IdleJob, Jobs, Ops, JobPcs
<1>4. /\ j.op = "exec" /\ j.pc = "args" /\ j.t = New(p) /\ j.prog = prog
      /\ j.todo = {} /\ j.seg = 0 /\ j.sz = 0 /\ j.args = 0
  BY <1>1 DEF IdleJob
<1>5. Runs(p)
  BY DEF SysExec, Calls
<1>6. /\ ~IsKid(p) /\ p \in frame /\ job[p].op = "none"
      /\ HeldBy(job[p]) = 0 /\ tab[New(p)] = NoTable
  BY <1>5, RunsOK
<1>7. HeldBy(j) = 0
  BY <1>4 DEF HeldBy, HandFull
<1>8. OnlyJob(p, j)
  BY <1>1, <1>3, <1>4, <1>6, <1>7
     DEF SysExec, Go, OnlyJob, MemInv, MemType
<1>9. Well(p, job[p], tab[Cur(p)], tab[New(p)], sz[p], image[p], frame)
  BY <1>6, WellNow
<1>10. JobShape(p, j) /\ ~Mapping(j)
  BY <1>4 DEF JobShape, Mapping, Fresh
<1>11. ImageOK(j, tab[Cur(p)], sz[p], image[p])
  BY <1>4, <1>6, <1>9 DEF Well, ImageOK, Reach
<1>12. Well(p, j, tab[Cur(p)], tab[New(p)], sz[p], image[p], frame)
  BY <1>4, <1>6, <1>9, <1>10, <1>11 DEF Well
<1>13. sz' = sz
  BY DEF SysExec
<1> QED
  BY <1>8, <1>12, <1>13, OnlyJobInv

LEMMA FetchArgInv ==
  ASSUME MemInv, NEW p \in Processes, NEW bad \in BOOLEAN, FetchArg(p, bad)
  PROVE  MemInv'
<1>1. /\ job[p] \in Jobs /\ JobShape(p, job[p]) /\ job[p].pc = "args"
      /\ nfree \in Nat /\ sz \in [Processes -> Nat]
  BY DEF MemInv, MemType, ProcOK, JobsOK, FetchArg, At
<1>2. job[p].op = "exec" /\ ~Mapping(job[p]) /\ job[p].args \in Nat
  BY <1>1 DEF JobShape, Mapping, Jobs
<1>3. ~IsKid(p)
  BY <1>2, NotKid
<1>4. Well(p, job[p], tab[Cur(p)], tab[New(p)], sz[p], image[p], frame)
  BY <1>2, <1>3, WellNow
<1>5. tab[New(p)] = NoTable /\ p \in frame /\ HeldBy(job[p]) = job[p].args
  BY <1>1, <1>2, <1>4 DEF Well, HeldBy, HandFull
<1>6. /\ UNCHANGED <<pages, frame, tab, image>> /\ sz' = sz
  BY DEF FetchArg
<1>7. CASE nfree = 0 \/ bad
  <2>1. nfree' = nfree + job[p].args /\ job' = [job EXCEPT ![p] = IdleJob]
    BY <1>7 DEF FetchArg, Kfree, Go
  <2>2. OnlyJob(p, IdleJob)
    BY <1>1, <1>2, <1>3, <1>5, <1>6, <2>1, IdleJobOK DEF OnlyJob, NoJob
  <2>3. PICK c, im, s : c = tab[Cur(p)] /\ im = image[p] /\ s = sz[p]
    OBVIOUS
  <2>4. \A v \in UserPages :
          /\ im[v] = IF c.leaf[v] = None THEN "zero" ELSE c.leaf[v].c
          /\ c.leaf[v] # None => v < Up(s)
    BY <1>2, <1>4, <2>3 DEF Well, ImageOK, Reach
  <2>5. KernelOnly(c) /\ SizeOK(s, im)
    BY <1>4, <2>3 DEF Well
  <2>6. Well(p, IdleJob, c, NoTable, s, im, frame)
    BY <1>5, <2>4, <2>5, IdleJobOK, IdleWell
  <2> QED
    BY <1>5, <1>6, <2>2, <2>3, <2>6, OnlyJobInv
<1>8. CASE ~(nfree = 0 \/ bad)
  <2>1. PICK j, a : j = [job[p] EXCEPT !.args = a] /\ a = job[p].args + 1
    OBVIOUS
  <2>2. /\ nfree > 0 /\ nfree' = nfree - 1
        /\ job' = [job EXCEPT ![p] = j]
    BY <1>8, <2>1 DEF FetchArg, Kalloc, Go
  <2>3. j \in Jobs
    <3>1. a \in Nat
      BY <1>2, <2>1
    <3> QED
      BY <1>1, <2>1, <3>1 DEF Jobs
  <2>4. /\ j.op = "exec" /\ j.pc = "args" /\ j.t = job[p].t
        /\ j.prog = job[p].prog /\ j.todo = job[p].todo
        /\ j.seg = job[p].seg /\ j.sz = job[p].sz
        /\ j.args = job[p].args + 1
    BY <1>1, <1>2, <2>1 DEF Jobs
  <2>5. HeldBy(j) = job[p].args + 1
    BY <1>2, <2>4 DEF HeldBy, HandFull
  <2>6. OnlyJob(p, j)
    BY <1>1, <1>2, <1>3, <1>5, <1>6, <2>2, <2>3, <2>4, <2>5 DEF OnlyJob
  <2>7. JobShape(p, j) /\ ~Mapping(j)
    BY <1>1, <1>2, <2>4 DEF JobShape, Mapping, Fresh
  <2>8. ImageOK(j, tab[Cur(p)], sz[p], image[p])
    BY <1>2, <1>4, <2>4 DEF Well, ImageOK, Reach
  <2>9. Well(p, j, tab[Cur(p)], tab[New(p)], sz[p], image[p], frame)
    BY <1>4, <1>5, <2>4, <2>7, <2>8 DEF Well
  <2> QED
    BY <1>6, <2>6, <2>9, OnlyJobInv
<1> QED
  BY <1>7, <1>8

LEMMA KexecInv ==
  ASSUME MemInv, NEW p \in Processes, Kexec(p)
  PROVE  MemInv'
<1>1. /\ job[p] \in Jobs /\ JobShape(p, job[p]) /\ job[p].pc = "args"
      /\ nfree \in Nat /\ sz \in [Processes -> Nat]
  BY DEF MemInv, MemType, ProcOK, JobsOK, Kexec, At
<1>2. job[p].op = "exec" /\ ~Mapping(job[p]) /\ job[p].args \in Nat
  BY <1>1 DEF JobShape, Mapping, Jobs
<1>3. ~IsKid(p)
  BY <1>2, NotKid
<1>4. Well(p, job[p], tab[Cur(p)], tab[New(p)], sz[p], image[p], frame)
  BY <1>2, <1>3, WellNow
<1>5. PICK j : j = [job[p] EXCEPT !.pc = "root"]
  OBVIOUS
<1>6. j \in Jobs
  BY <1>1, <1>5 DEF Jobs, JobPcs
<1>7. /\ j.op = "exec" /\ j.pc = "root" /\ j.t = job[p].t
      /\ j.prog = job[p].prog /\ j.todo = job[p].todo
      /\ j.seg = job[p].seg /\ j.sz = job[p].sz /\ j.args = job[p].args
  BY <1>1, <1>2, <1>5 DEF Jobs
<1>8. HeldBy(j) = HeldBy(job[p])
  BY <1>1, <1>7 DEF HeldBy, HandFull
<1>9. OnlyJob(p, j)
  BY <1>1, <1>2, <1>3, <1>5, <1>6, <1>7, <1>8 DEF OnlyJob, Kexec, Go
<1>10. JobShape(p, j) /\ ~Mapping(j)
  BY <1>1, <1>2, <1>7 DEF JobShape, Mapping, Fresh
<1>11. ImageOK(j, tab[Cur(p)], sz[p], image[p])
  BY <1>2, <1>4, <1>7 DEF Well, ImageOK, Reach
<1>12. Filled(j, tab[Cur(p)], tab[New(p)]) = NoTable
  BY <1>2, <1>4, <1>7 DEF Well, Filled
<1>13. Well(p, j, tab[Cur(p)], tab[New(p)], sz[p], image[p], frame)
  BY <1>2, <1>4, <1>7, <1>10, <1>11, <1>12 DEF Well
<1>14. sz' = sz
  BY DEF Kexec
<1> QED
  BY <1>9, <1>13, <1>14, OnlyJobInv

LEMMA KexecInitInv ==
  ASSUME MemInv, NEW p \in Processes, NEW prog \in Programs,
         KexecInit(p, prog)
  PROVE  MemInv'
<1>1. PICK j : j = [IdleJob EXCEPT !.op = "exec", !.pc = "root",
                                   !.t = New(p), !.prog = prog]
  OBVIOUS
<1>2. New(p) \in Processes \X {"cur", "new", "none"}
      /\ prog \in Seq(Segments)
  BY MemoryAssumption DEF New
<1>3. j \in Jobs
  BY <1>1, <1>2 DEF IdleJob, Jobs, Ops, JobPcs
<1>4. /\ j.op = "exec" /\ j.pc = "root" /\ j.t = New(p) /\ j.prog = prog
      /\ j.todo = {} /\ j.seg = 0 /\ j.sz = 0 /\ j.args = 0
  BY <1>1 DEF IdleJob
<1>5. job[p].op = "boot" /\ job[p].pc = "page" /\ sz' = sz
  BY DEF KexecInit, Finds, At
<1>6. ~IsKid(p)
  BY <1>5, NotKid
<1>7. Well(p, job[p], tab[Cur(p)], tab[New(p)], sz[p], image[p], frame)
  BY <1>5, <1>6, WellNow
<1>8. p \in frame /\ tab[New(p)] = NoTable /\ job[p].args = 0
  BY <1>5, <1>7 DEF Well, JobShape
<1>9. HeldBy(j) = 0 /\ HeldBy(job[p]) = 0
  BY <1>4, <1>5, <1>8 DEF HeldBy, HandFull
<1>10. OnlyJob(p, j)
  BY <1>1, <1>3, <1>4, <1>5, <1>6, <1>9
     DEF KexecInit, Go, OnlyJob, MemInv, MemType
<1>11. JobShape(p, j) /\ ~Mapping(j)
  BY <1>4 DEF JobShape, Mapping, Fresh
<1>12. ImageOK(j, tab[Cur(p)], sz[p], image[p])
  BY <1>4, <1>5, <1>7 DEF Well, ImageOK, Reach
<1>13. Filled(j, tab[Cur(p)], tab[New(p)]) = NoTable
  BY <1>4, <1>8 DEF Filled
<1>14. Well(p, j, tab[Cur(p)], tab[New(p)], sz[p], image[p], frame)
  BY <1>4, <1>7, <1>8, <1>11, <1>12, <1>13 DEF Well
<1> QED
  BY <1>5, <1>10, <1>14, OnlyJobInv

LEMMA GrowInv ==
  ASSUME MemInv, NEW p \in Processes, NEW n \in Int, Grow(p, n)
  PROVE  MemInv'
<1>1. PICK s, m \in Nat : s = sz[p] /\ m = sz[p] + n
  BY DEF MemInv, MemType, Grow
<1>2. /\ Runs(p) /\ s <= m /\ m <= TRAPFRAME * PGSIZE /\ sz' = sz
  BY <1>1 DEF Grow, Calls
<1>3. Up(s) \in Nat /\ Up(m) \in Nat /\ Up(m) <= TRAPFRAME
  BY <1>2, UpType, UpFits
<1>4. Up(s) <= Up(m)
  BY <1>2, UpMono
<1>5. PICK V : V = Up(s) .. Up(m) - 1
  OBVIOUS
<1>6. V \in SUBSET VPages /\ V \in SUBSET UserPages
  BY <1>3, <1>5, MemConst
<1>7. PICK j : j = [IdleJob EXCEPT !.op = "grow", !.pc = "page",
                                   !.t = Cur(p), !.old = Up(s), !.sz = m,
                                   !.todo = V]
  OBVIOUS
<1>8. Cur(p) \in Processes \X {"cur", "new", "none"}
  BY DEF Cur
<1>9. j \in Jobs
  <2>1. IdleJob \in Jobs
    BY IdleJobOK DEF NoJob
  <2> QED
    BY <1>3, <1>6, <1>7, <1>8, <2>1 DEF Jobs, Ops, JobPcs
<1>10. /\ j.op = "grow" /\ j.pc = "page" /\ j.t = Cur(p) /\ j.old = Up(s)
       /\ j.sz = m /\ j.todo = V /\ j.seg = 0 /\ j.args = 0
  BY <1>7 DEF IdleJob
<1>11. /\ ~IsKid(p) /\ p \in frame /\ job[p].op = "none"
       /\ HeldBy(job[p]) = 0 /\ tab[New(p)] = NoTable
  BY <1>2, RunsOK
<1>12. HeldBy(j) = 0
  BY <1>10 DEF HeldBy, HandFull
<1>13. OnlyJob(p, j)
  BY <1>1, <1>5, <1>7, <1>9, <1>10, <1>11, <1>12
     DEF Grow, Go, OnlyJob, MemInv, MemType
<1>14. Well(p, job[p], tab[Cur(p)], tab[New(p)], s, image[p], frame)
  BY <1>1, <1>11, WellNow
<1>15. PICK c, im : c = tab[Cur(p)] /\ im = image[p]
  OBVIOUS
<1>16. \A v \in UserPages :
         /\ im[v] = IF c.leaf[v] = None THEN "zero" ELSE c.leaf[v].c
         /\ c.leaf[v] # None => v < Up(s)
  BY <1>11, <1>14, <1>15 DEF Well, ImageOK, Reach
<1>17. JobShape(p, j) /\ Mapping(j)
  BY <1>10 DEF JobShape, Mapping, Fresh
<1>18. ImageOK(j, c, s, im)
  <2>1. Reach(j, s) = Up(m)
    BY <1>10 DEF Reach
  <2> QED
    BY <1>3, <1>4, <1>16, <2>1, MemConst DEF ImageOK
<1>19. FillOK(j, c, c, s)
  <2>1. ~Fresh(j.op)
    BY <1>10 DEF Fresh
  <2>2. \A v \in V : v \in UserPages /\ v \in Nat /\ v >= Up(s) /\ v < Up(m)
    BY <1>3, <1>5, <1>6, MemConst
  <2>3. TodoOK(j, c)
    <3>1. \A v \in V : c.leaf[v] = None
      BY <1>3, <1>16, <2>2
    <3>2. \A v \in UserPages, w \in V : c.leaf[v] # None => v < w
      <4>1. \A v \in UserPages : v \in Nat
        BY MemConst
      <4> QED
        BY <1>3, <1>16, <2>2, <4>1
    <3> QED
      BY <1>6, <1>10, <2>1, <3>1, <3>2 DEF TodoOK
  <2>4. GrowOK(j, s)
    BY <1>2, <1>3, <1>10, <2>2 DEF GrowOK
  <2> QED
    BY <1>10, <2>3, <2>4 DEF FillOK
<1>20. Filled(j, c, NoTable) = c
  BY <1>10 DEF Filled
<1>21. Well(p, j, c, NoTable, s, im, frame)
  BY <1>10, <1>11, <1>14, <1>15, <1>17, <1>18, <1>19, <1>20 DEF Well
<1> QED
  BY <1>1, <1>2, <1>11, <1>13, <1>15, <1>21, OnlyJobInv

LEMMA GrowDoneInv ==
  ASSUME MemInv, NEW p \in Processes, GrowDone(p)
  PROVE  MemInv'
<1>1. /\ job[p].op = "grow" /\ job[p].pc = "page" /\ job[p].todo = {}
      /\ job[p] \in Jobs /\ sz \in [Processes -> Nat] /\ nfree \in Nat
  BY DEF GrowDone, Finds, At, MemInv, MemType
<1>2. PICK s, m \in Nat : s = sz[p] /\ m = job[p].sz
  BY <1>1 DEF Jobs
<1>3. ~IsKid(p)
  BY <1>1, NotKid
<1>4. Well(p, job[p], tab[Cur(p)], tab[New(p)], s, image[p], frame)
  BY <1>1, <1>2, <1>3, WellNow
<1>5. PICK c, im : c = tab[Cur(p)] /\ im = image[p]
  OBVIOUS
<1>6. /\ tab[New(p)] = NoTable /\ p \in frame /\ KernelOnly(c)
      /\ job[p].args = 0 /\ SizeOK(s, im)
  BY <1>1, <1>4, <1>5 DEF Well, JobShape
<1>7. GrowOK(job[p], s)
  BY <1>1, <1>4 DEF Well, Mapping, FillOK
<1>8. s <= m /\ Up(m) <= TRAPFRAME
  BY <1>2, <1>7 DEF GrowOK
<1>9. Up(s) <= Up(m) /\ Up(s) \in Nat /\ Up(m) \in Nat
  BY <1>8, UpMono, UpType
<1>10. \A v \in UserPages :
         /\ im[v] = IF c.leaf[v] = None THEN "zero" ELSE c.leaf[v].c
         /\ c.leaf[v] # None => v < Up(m)
  BY <1>1, <1>2, <1>4, <1>5 DEF Well, ImageOK, Reach
<1>11. SizeOK(m, im)
  <2>1. \A v \in UserPages : v \in Nat /\ (v >= Up(s) => im[v] = "zero")
    BY <1>6, MemConst DEF SizeOK
  <2>2. \A v \in UserPages : v >= Up(m) => im[v] = "zero"
    BY <1>9, <2>1
  <2> QED
    BY <1>8, <2>2 DEF SizeOK
<1>12. Well(p, IdleJob, c, NoTable, m, im, frame)
  BY <1>6, <1>10, <1>11, IdleJobOK, IdleWell
<1>13. sz' = [sz EXCEPT ![p] = m] /\ job' = [job EXCEPT ![p] = IdleJob]
  BY <1>2 DEF GrowDone, Go
<1>14. sz'[p] = m /\ sz' \in [Processes -> Nat]
       /\ \A r \in Processes : r # p => sz'[r] = sz[r]
  BY <1>1, <1>13
<1>15. HeldBy(job[p]) = 0
  BY <1>1, <1>6 DEF HeldBy, HandFull
<1>16. OnlyJob(p, IdleJob)
  BY <1>1, <1>3, <1>13, <1>14, <1>15, IdleJobOK
     DEF OnlyJob, NoJob, GrowDone
<1> QED
  BY <1>5, <1>6, <1>12, <1>14, <1>16, OnlyJobInv

LEMMA LazySbrkInv ==
  ASSUME MemInv, NEW p \in Processes, NEW n \in Int, LazySbrk(p, n)
  PROVE  MemInv'
<1>1. PICK s, m \in Nat : s = sz[p] /\ m = sz[p] + n
  BY DEF MemInv, MemType, LazySbrk
<1>2. /\ Runs(p) /\ s <= m /\ m <= TRAPFRAME * PGSIZE
      /\ sz' = [sz EXCEPT ![p] = m]
  BY <1>1 DEF LazySbrk, Calls
<1>3. /\ Up(s) \in Nat /\ Up(m) \in Nat /\ Up(m) <= TRAPFRAME
      /\ Up(s) <= Up(m)
  BY <1>2, UpType, UpFits, UpMono
<1>4. /\ ~IsKid(p) /\ p \in frame /\ job[p].op = "none"
      /\ job[p].pc = "idle" /\ job[p].t = NoTab /\ job[p].todo = {}
      /\ job[p].seg = 0 /\ job[p].sz = 0 /\ job[p].args = 0
      /\ tab[New(p)] = NoTable
  BY <1>2, RunsOK
<1>5. NoJob(job[p])
  BY <1>4 DEF NoJob, MemInv, MemType
<1>6. Well(p, job[p], tab[Cur(p)], tab[New(p)], s, image[p], frame)
  BY <1>1, <1>4, WellNow
<1>7. PICK c, im : c = tab[Cur(p)] /\ im = image[p]
  OBVIOUS
<1>8. \A v \in UserPages :
        /\ im[v] = IF c.leaf[v] = None THEN "zero" ELSE c.leaf[v].c
        /\ c.leaf[v] # None => v < Up(s)
  BY <1>4, <1>6, <1>7 DEF Well, ImageOK, Reach
<1>9. KernelOnly(c) /\ SizeOK(s, im)
  BY <1>6, <1>7 DEF Well
<1>10. SizeOK(m, im)
  BY <1>3, <1>9, MemConst DEF SizeOK
<1>11. \A v \in UserPages :
         /\ im[v] = IF c.leaf[v] = None THEN "zero" ELSE c.leaf[v].c
         /\ c.leaf[v] # None => v < Up(m)
  BY <1>3, <1>8, MemConst
<1>12. PICK j : j = job[p]
  OBVIOUS
<1>13. Well(p, j, c, NoTable, m, im, frame)
  BY <1>4, <1>5, <1>9, <1>10, <1>11, <1>12, IdleWell
<1>14. sz'[p] = m /\ sz' \in [Processes -> Nat]
       /\ \A r \in Processes : r # p => sz'[r] = sz[r]
  BY <1>2 DEF MemInv, MemType
<1>15. job' = [job EXCEPT ![p] = j]
  BY <1>12 DEF LazySbrk, MemInv, MemType
<1>16. OnlyJob(p, j)
  BY <1>4, <1>5, <1>12, <1>14, <1>15
     DEF OnlyJob, LazySbrk, MemInv, MemType, NoJob
<1> QED
  BY <1>4, <1>7, <1>13, <1>14, <1>16, OnlyJobInv

LEMMA VmfaultInv ==
  ASSUME MemInv, NEW p \in Processes, NEW va \in VPages, Vmfault(p, va)
  PROVE  MemInv'
<1>1. PICK s \in Nat : s = sz[p]
  BY DEF MemInv, MemType
<1>2. PICK c, im : c = tab[Cur(p)] /\ im = image[p]
  OBVIOUS
<1>3. Runs(p) /\ va < Up(s) /\ c.leaf[va] = None /\ sz' = sz
  BY <1>1, <1>2 DEF Vmfault
<1>4. PICK j : j = [IdleJob EXCEPT !.op = "fault", !.pc = "page",
                                   !.t = Cur(p), !.old = va, !.todo = {va}]
  OBVIOUS
<1>5. /\ Cur(p) \in Processes \X {"cur", "new", "none"}
      /\ va \in Nat /\ {va} \in SUBSET VPages
  BY MemConst DEF Cur
<1>6. j \in Jobs
  <2>1. IdleJob \in Jobs
    BY IdleJobOK DEF NoJob
  <2> QED
    BY <1>4, <1>5, <2>1 DEF Jobs, Ops, JobPcs
<1>7. /\ j.op = "fault" /\ j.pc = "page" /\ j.t = Cur(p) /\ j.old = va
      /\ j.todo = {va} /\ j.seg = 0 /\ j.args = 0
  BY <1>4 DEF IdleJob
<1>8. /\ ~IsKid(p) /\ p \in frame /\ job[p].op = "none"
      /\ HeldBy(job[p]) = 0 /\ tab[New(p)] = NoTable
  BY <1>3, RunsOK
<1>9. HeldBy(j) = 0
  BY <1>7 DEF HeldBy, HandFull
<1>10. OnlyJob(p, j)
  BY <1>4, <1>6, <1>7, <1>8, <1>9 DEF Vmfault, Go, OnlyJob, MemInv, MemType
<1>11. Well(p, job[p], c, tab[New(p)], s, im, frame)
  BY <1>1, <1>2, <1>8, WellNow
<1>12. JobShape(p, j) /\ Mapping(j)
  BY <1>7 DEF JobShape, Mapping, Fresh
<1>13. ImageOK(j, c, s, im)
  BY <1>7, <1>8, <1>11 DEF Well, ImageOK, Reach
<1>14. va \in UserPages
  <2>1. Up(s) <= TRAPFRAME /\ Up(s) \in Nat
    BY <1>11, UpType DEF Well, SizeOK
  <2> QED
    BY <1>3, <1>5, <2>1, MemConst
<1>15. FillOK(j, c, c, s)
  BY <1>3, <1>7, <1>14 DEF FillOK, TodoOK, FaultOK, Fresh
<1>16. Filled(j, c, NoTable) = c
  BY <1>7 DEF Filled
<1>17. Well(p, j, c, NoTable, s, im, frame)
  BY <1>7, <1>8, <1>11, <1>12, <1>13, <1>15, <1>16 DEF Well
<1> QED
  BY <1>1, <1>2, <1>3, <1>8, <1>10, <1>17, OnlyJobInv

LEMMA FaultDoneInv ==
  ASSUME MemInv, NEW p \in Processes, FaultDone(p)
  PROVE  MemInv'
<1>1. /\ job[p].op = "fault" /\ job[p].pc = "page" /\ sz' = sz
      /\ sz \in [Processes -> Nat] /\ nfree \in Nat
  BY DEF FaultDone, Finds, At, MemInv, MemType
<1>2. PICK c, im, s : c = tab[Cur(p)] /\ im = image[p] /\ s = sz[p]
  OBVIOUS
<1>3. ~IsKid(p)
  BY <1>1, NotKid
<1>4. Well(p, job[p], c, tab[New(p)], s, im, frame)
  BY <1>1, <1>2, <1>3, WellNow
<1>5. /\ tab[New(p)] = NoTable /\ p \in frame /\ KernelOnly(c)
      /\ job[p].args = 0 /\ SizeOK(s, im)
  BY <1>1, <1>4 DEF Well, JobShape
<1>6. \A v \in UserPages :
        /\ im[v] = IF c.leaf[v] = None THEN "zero" ELSE c.leaf[v].c
        /\ c.leaf[v] # None => v < Up(s)
  BY <1>1, <1>4 DEF Well, ImageOK, Reach
<1>7. Well(p, IdleJob, c, NoTable, s, im, frame)
  BY <1>5, <1>6, IdleJobOK, IdleWell
<1>8. HeldBy(job[p]) = 0
  BY <1>1, <1>5 DEF HeldBy, HandFull
<1>9. OnlyJob(p, IdleJob)
  BY <1>1, <1>3, <1>8, IdleJobOK DEF OnlyJob, NoJob, FaultDone, Go
<1> QED
  BY <1>1, <1>2, <1>5, <1>7, <1>9, OnlyJobInv
-----------------------------------------------------------------------------
\* A step of p on one of its own tables.
OnlyOwn(p, a, j, T) ==
  /\ j \in Jobs /\ job' = [job EXCEPT ![p] = j]
  /\ a \in {Cur(p), New(p)} /\ T \in PageTables /\ IsFiniteSet(T.nodes)
  /\ tab' = [tab EXCEPT ![a] = T]
  /\ pages' = pages /\ nfree' \in Nat
  /\ sz' \in [Processes -> Nat]
  /\ image' \in [Processes -> [VPages -> Contents]]
  /\ \A r \in Processes : r # p => sz'[r] = sz[r] /\ image'[r] = image[r]
  /\ frame' \in SUBSET Processes /\ IsFiniteSet(frame')
  /\ \A r \in Processes : r # p => (r \in frame' <=> r \in frame)
  /\ job[p].op # "fork" /\ j.op # "fork" /\ ~IsKid(p)
  /\ nfree' + Cardinality(frame') + HeldBy(j) + UsedBy(T)
       = nfree + Cardinality(frame) + HeldBy(job[p]) + UsedBy(tab[a])

LEMMA OnlyOwnInv ==
  ASSUME MemInv, NEW p \in Processes, NEW a, NEW j, NEW T,
         OnlyOwn(p, a, j, T),
         Well(p, j, IF a = Cur(p) THEN T ELSE tab[Cur(p)],
              IF a = New(p) THEN T ELSE tab[New(p)], sz'[p], image'[p],
              frame')
  PROVE  MemInv'
<1>1. MemType /\ Counted
  BY DEF MemInv
<1>2. a \in Tables
  BY TabNames DEF OnlyOwn
<1>3. job' \in [Processes -> Jobs] /\ job'[p] = j
      /\ \A r \in Processes : r # p => job'[r] = job[r]
  BY <1>1 DEF MemType, OnlyOwn
<1>4. tab' \in [Tables -> PageTables] /\ tab'[a] = T
      /\ \A x \in Tables : x # a => tab'[x] = tab[x]
  BY <1>1, <1>2 DEF MemType, OnlyOwn
<1>5. MemType'
  BY <1>1, <1>3, <1>4 DEF MemType, OnlyOwn
<1>6. \A r \in Processes : r # p =>
        /\ Cur(r) # a /\ New(r) # a /\ Cur(r) \in Tables /\ New(r) \in Tables
  BY TabNames DEF OnlyOwn
<1>7. Private(p)
  BY <1>3, <1>4, <1>6 DEF Private, Untouched, OnlyOwn
<1>8. Balanced(p, a)
  BY <1>3, <1>4 DEF Balanced, OnlyOwn
<1>9. Counted'
  BY <1>1, <1>2, <1>5, <1>8, CountStep
<1>10. /\ tab'[Cur(p)] = IF a = Cur(p) THEN T ELSE tab[Cur(p)]
       /\ tab'[New(p)] = IF a = New(p) THEN T ELSE tab[New(p)]
  BY <1>4, TabNames
<1>11. Well(p, job'[p], tab'[Cur(p)], tab'[New(p)], sz'[p], image'[p],
            frame')
  BY <1>3, <1>10
<1> QED
  BY <1>5, <1>7, <1>9, <1>11, PrivateInv

\* A process without memory is well.
LEMMA EmptyOK ==
  /\ SizeOK(0, Image0) /\ KernelOnly(NoTable)
  /\ Image0 \in [VPages -> Contents]
  /\ \A v \in UserPages :
       /\ Image0[v] = IF NoTable.leaf[v] = None THEN "zero"
                      ELSE NoTable.leaf[v].c
       /\ NoTable.leaf[v] # None => v < Up(0)
<1>1. \A v \in VPages : Image0[v] = "zero"
  BY DEF Image0
<1>2. \A v \in UserPages : v \in VPages
  BY MemConst
<1>3. Image0 \in [VPages -> Contents]
  BY DEF Image0, Contents
<1>4. SizeOK(0, Image0)
  BY <1>1, <1>2, UpZero, MemConst DEF SizeOK
<1> QED
  BY <1>1, <1>2, <1>3, <1>4, NoTableOK

LEMMA ExitInv ==
  ASSUME MemInv, NEW p \in Processes, Exit(p)
  PROVE  MemInv'
<1>1. Runs(p)
  BY DEF Exit
<1>2. PICK c, im : c = tab[Cur(p)] /\ im = image[p]
  OBVIOUS
<1>3. PICK s \in Nat : s = sz[p]
  BY DEF MemInv, MemType
<1>4. MemType /\ Counted
  BY DEF MemInv
<1>5. /\ ~IsKid(p) /\ p \in frame /\ job[p].op = "none"
      /\ HeldBy(job[p]) = 0 /\ tab[New(p)] = NoTable
  BY <1>1, RunsOK
<1>6. Well(p, job[p], c, tab[New(p)], s, im, frame)
  BY <1>2, <1>3, <1>5, WellNow
<1>7. Up(s) \in Nat /\ Up(s) <= TRAPFRAME
  BY <1>6, UpType DEF Well, SizeOK
<1>8. \A v \in UserPages : c.leaf[v] # None => v < Up(s)
  BY <1>5, <1>6 DEF Well, ImageOK, Reach
<1>9. c \in PageTables /\ IsFiniteSet(c.nodes) /\ UsedBy(c) \in Nat
  BY <1>2, <1>4, TabNames, TabFinite DEF MemType
<1>10. ProcFree(c, Up(s)) = UsedBy(c) /\ ~FreewalkLeaf(c, Up(s))
  <2>1. PICK u \in Nat : u = Up(s)
    BY <1>7
  <2> QED
    BY <1>7, <1>8, <1>9, <2>1, ProcFreeOK
<1>11. NoJob(Ended(FALSE)) /\ HeldBy(Ended(FALSE)) = 0
  BY EndedOK, IdleJobOK
<1>12. job' = [job EXCEPT ![p] = Ended(FALSE)]
  BY <1>2, <1>3, <1>10 DEF Exit, Go, Ended
<1>13. nfree' = nfree + (UsedBy(c) + 1) /\ nfree \in Nat
  BY <1>2, <1>3, <1>4, <1>10 DEF Exit, Kfree, MemType
<1>14. /\ frame' = frame \ {p} /\ IsFiniteSet(frame)
       /\ frame \in SUBSET Processes
  BY <1>4 DEF Exit, Counted, MemType
<1>15. /\ IsFiniteSet(frame') /\ Cardinality(frame') = Cardinality(frame) - 1
       /\ Cardinality(frame) \in Nat
  BY <1>5, <1>14, FS_RemoveElement, FS_CardinalityType
<1>16. nfree' + Cardinality(frame') + HeldBy(Ended(FALSE)) + UsedBy(NoTable)
         = nfree + Cardinality(frame) + HeldBy(job[p]) + UsedBy(c)
  <2>1. UsedBy(NoTable) = 0
    BY NoTableOK
  <2>2. PICK u, f, g, h, z : /\ u = UsedBy(c) /\ f = Cardinality(frame)
                             /\ g = Cardinality(frame')
                             /\ h = HeldBy(Ended(FALSE))
                             /\ z = HeldBy(job[p])
    OBVIOUS
  <2>3. /\ u \in Nat /\ f \in Nat /\ g = f - 1 /\ h = 0 /\ z = 0
        /\ nfree' = nfree + (u + 1) /\ nfree \in Nat
    BY <1>5, <1>9, <1>11, <1>13, <1>15, <2>2
  <2>4. nfree' + g + h + 0 = nfree + f + z + u
    BY <2>3
  <2> QED
    BY <2>1, <2>2, <2>4
<1>17. OnlyOwn(p, Cur(p), Ended(FALSE), NoTable)
  <2>1. /\ sz' \in [Processes -> Nat]
        /\ image' \in [Processes -> [VPages -> Contents]]
        /\ \A r \in Processes : r # p =>
             sz'[r] = sz[r] /\ image'[r] = image[r]
    BY <1>4, EmptyOK DEF Exit, MemType
  <2>2. tab' = [tab EXCEPT ![Cur(p)] = NoTable] /\ pages' = pages
    BY DEF Exit
  <2>3. nfree' \in Nat
    BY <1>9, <1>13
  <2> QED
    BY <1>2, <1>5, <1>11, <1>12, <1>14, <1>15, <1>16, <2>1, <2>2, <2>3,
       NoTableOK DEF OnlyOwn, NoJob
<1>18. sz'[p] = 0 /\ image'[p] = Image0
  BY <1>4 DEF Exit, MemType
<1>19. Well(p, Ended(FALSE), NoTable, NoTable, 0, Image0, frame')
  <2>1. PICK j, z : j = Ended(FALSE) /\ z = 0
    OBVIOUS
  <2>2. Well(p, j, NoTable, NoTable, z, Image0, frame')
    BY <1>11, <2>1, EmptyOK, IdleWell
  <2> QED
    BY <2>1, <2>2
<1> QED
  BY <1>5, <1>17, <1>18, <1>19, TabNames, OnlyOwnInv

LEMMA ShrinkInv ==
  ASSUME MemInv, NEW p \in Processes, NEW n \in Int, Shrink(p, n)
  PROVE  MemInv'
<1>1. PICK s \in Nat : s = sz[p]
  BY DEF MemInv, MemType
<1>2. n < 0 /\ Runs(p)
  BY DEF Shrink, Calls
<1>3. PICK m \in Nat : m = (IF sz[p] + n < 0 THEN sz[p] ELSE sz[p] + n)
                       /\ m <= s
  BY <1>1, <1>2
<1>4. PICK V : V = Dealloc(s, m)
  OBVIOUS
<1>5. PICK c, im, j : c = tab[Cur(p)] /\ im = image[p] /\ j = job[p]
  OBVIOUS
<1>6. MemType /\ Counted
  BY DEF MemInv
<1>7. /\ ~IsKid(p) /\ p \in frame /\ j.op = "none"
      /\ j.pc = "idle" /\ j.t = NoTab /\ j.todo = {} /\ j.seg = 0
      /\ j.sz = 0 /\ j.args = 0
      /\ HeldBy(j) = 0 /\ tab[New(p)] = NoTable
  BY <1>2, <1>5, RunsOK
<1>8. NoJob(j)
  BY <1>5, <1>6, <1>7 DEF NoJob, MemType
<1>9. Well(p, j, c, tab[New(p)], s, im, frame)
  BY <1>1, <1>5, <1>7, WellNow
<1>10. /\ Up(s) \in Nat /\ Up(s) <= TRAPFRAME /\ Up(m) \in Nat
       /\ Up(m) <= Up(s)
  BY <1>3, <1>9, UpType, UpMono DEF Well, SizeOK
<1>11. \A v \in UserPages :
         /\ im[v] = IF c.leaf[v] = None THEN "zero" ELSE c.leaf[v].c
         /\ c.leaf[v] # None => v < Up(s)
  BY <1>7, <1>9 DEF Well, ImageOK, Reach
<1>12. \A v \in Nat : v \in V <=> m < s /\ v >= Up(m) /\ v < Up(s)
  BY <1>3, <1>4, <1>10 DEF Dealloc
<1>13. V \in SUBSET UserPages
  <2>1. \A v \in V : v \in Nat /\ v < Up(s)
    BY <1>3, <1>4, <1>10 DEF Dealloc
  <2> QED
    BY <1>10, <2>1, MemConst
<1>14. c \in PageTables /\ IsFiniteSet(c.nodes) /\ UsedBy(c) \in Nat
  BY <1>5, <1>6, TabNames, TabFinite DEF MemType
<1>15. PICK T : T = Unmap(c, V)
  OBVIOUS
<1>16. Without(c, T, V)
  BY <1>14, <1>15, UnmapOK
<1>17. /\ Size(c, V) \in Nat /\ UsedBy(T) \in Nat
       /\ UsedBy(T) + Size(c, V) = UsedBy(c)
       /\ KernelOnly(T)
  BY <1>9, <1>13, <1>14, <1>16, UnmapCount DEF Well
<1>18. PICK ji : ji = [v \in VPages |-> IF v < Up(m) THEN im[v] ELSE "zero"]
  OBVIOUS
<1>19. /\ nfree' = nfree + Size(c, V) /\ tab' = [tab EXCEPT ![Cur(p)] = T]
       /\ sz' = [sz EXCEPT ![p] = m] /\ image' = [image EXCEPT ![p] = ji]
       /\ UNCHANGED <<pages, frame, job>>
  BY <1>1, <1>3, <1>4, <1>5, <1>15, <1>18 DEF Shrink, Kfree
<1>20. ji \in [VPages -> Contents]
  <2>1. im \in [VPages -> Contents]
    BY <1>5, <1>6 DEF MemType
  <2> QED
    BY <1>18, <2>1 DEF Contents
<1>21. /\ sz' \in [Processes -> Nat] /\ sz'[p] = m
       /\ image' \in [Processes -> [VPages -> Contents]] /\ image'[p] = ji
       /\ \A r \in Processes : r # p => sz'[r] = sz[r] /\ image'[r] = image[r]
  BY <1>6, <1>19, <1>20 DEF MemType
<1>22. OnlyOwn(p, Cur(p), j, T)
  <2>1. job' = [job EXCEPT ![p] = j] /\ j \in Jobs
    BY <1>5, <1>6, <1>19 DEF MemType
  <2>2. T \in PageTables /\ IsFiniteSet(T.nodes)
    BY <1>14, <1>16 DEF Without
  <2>3. /\ frame' \in SUBSET Processes /\ IsFiniteSet(frame')
        /\ frame' = frame /\ nfree \in Nat
    BY <1>6, <1>19 DEF MemType, Counted
  <2>4. Cardinality(frame) \in Nat
    BY <2>3, FS_CardinalityType
  <2>5. nfree' + Cardinality(frame') + HeldBy(j) + UsedBy(T)
          = nfree + Cardinality(frame) + HeldBy(j) + UsedBy(c)
    BY <1>7, <1>14, <1>17, <1>19, <2>3, <2>4
  <2>6. nfree' \in Nat
    BY <1>17, <1>19, <2>3
  <2> QED
    BY <1>5, <1>7, <1>19, <1>21, <2>1, <2>2, <2>3, <2>5, <2>6 DEF OnlyOwn
<1>23. Well(p, j, T, NoTable, m, ji, frame)
  <2>1. \A v \in UserPages : v \in Nat /\ v \in VPages
    BY MemConst
  <2>2. SizeOK(m, ji)
    <3>1. \A v \in UserPages : v >= Up(m) => ji[v] = "zero"
      BY <1>10, <1>18, <2>1
    <3> QED
      BY <1>10, <3>1, MemConst DEF SizeOK
  <2>3. \A v \in UserPages : T.leaf[v] = IF v \in V THEN None ELSE c.leaf[v]
    BY <1>16, <2>1 DEF Without
  <2>4. \A v \in UserPages : m >= s => v \notin V /\ Up(m) = Up(s)
    BY <1>3, <1>12, <2>1
  <2>5. \A v \in UserPages : im[v] = "zero" \/ v < Up(s)
    BY <1>11
  <2>6. \A v \in UserPages :
          /\ ji[v] = IF T.leaf[v] = None THEN "zero" ELSE T.leaf[v].c
          /\ T.leaf[v] # None => v < Up(m)
    <3> SUFFICES ASSUME NEW v \in UserPages
                 PROVE  /\ ji[v] = IF T.leaf[v] = None THEN "zero"
                                   ELSE T.leaf[v].c
                        /\ T.leaf[v] # None => v < Up(m)
      OBVIOUS
    <3>1. CASE v < Up(m)
      <4>1. v \notin V /\ ji[v] = im[v]
        BY <1>10, <1>12, <1>18, <2>1, <3>1
      <4> QED
        BY <1>11, <2>3, <3>1, <4>1
    <3>2. CASE ~(v < Up(m))
      <4>1. ji[v] = "zero"
        BY <1>18, <2>1, <3>2
      <4>2. T.leaf[v] = None
        <5>1. CASE m < s /\ v < Up(s)
          BY <1>10, <1>12, <2>1, <2>3, <3>2, <5>1
        <5>2. CASE ~(v < Up(s))
          BY <1>11, <2>3, <5>2
        <5>3. CASE m >= s
          BY <1>11, <2>3, <2>4, <3>2, <5>3
        <5> QED
          BY <1>3, <5>1, <5>2, <5>3
      <4> QED
        BY <4>1, <4>2
    <3> QED
      BY <3>1, <3>2
  <2> QED
    BY <1>7, <1>8, <1>17, <2>2, <2>6, IdleWell
<1>24. frame' = frame
  BY <1>19
<1> QED
  BY <1>7, <1>21, <1>22, <1>23, <1>24, TabNames, OnlyOwnInv

LEMMA StoreInv ==
  ASSUME MemInv, NEW p \in Processes, NEW va \in VPages, Store(p, va)
  PROVE  MemInv'
<1>1. PICK c, im, j, s : /\ c = tab[Cur(p)] /\ im = image[p] /\ j = job[p]
                         /\ s = sz[p]
  OBVIOUS
<1>2. MemType /\ Counted
  BY DEF MemInv
<1>3. Runs(p) /\ c.leaf[va].u /\ c.leaf[va].w
  BY <1>1 DEF Store, Walkaddr
<1>4. /\ ~IsKid(p) /\ p \in frame /\ j.op = "none"
      /\ j.pc = "idle" /\ j.t = NoTab /\ j.todo = {} /\ j.seg = 0
      /\ j.sz = 0 /\ j.args = 0
      /\ HeldBy(j) = 0 /\ tab[New(p)] = NoTable
  BY <1>1, <1>3, RunsOK
<1>5. NoJob(j)
  BY <1>1, <1>2, <1>4 DEF NoJob, MemType
<1>6. Well(p, j, c, tab[New(p)], s, im, frame)
  BY <1>1, <1>4, WellNow
<1>7. c \in PageTables /\ IsFiniteSet(c.nodes) /\ UsedBy(c) \in Nat
  BY <1>1, <1>2, TabNames, TabFinite DEF MemType
<1>8. va \in UserPages
  BY <1>3, <1>6, MemConst DEF Well, KernelOnly
<1>9. PICK e : e = [c.leaf[va] EXCEPT !.c = p]
  OBVIOUS
<1>10. c.leaf \in [VPages -> Ptes] /\ c.leaf[va] \in Ptes
  BY <1>7 DEF PageTables
<1>11. e \in Ptes /\ e.c = p /\ e.u = c.leaf[va].u
  BY <1>9, <1>10 DEF Ptes, Contents
<1>12. e # None /\ c.leaf[va] # None
  <2>1. ~None.u
    BY DEF None, Pte
  <2>2. e.u
    BY <1>3, <1>11
  <2> QED
    BY <1>3, <2>1, <2>2
<1>13. PICK l : l = [c.leaf EXCEPT ![va] = e]
  OBVIOUS
<1>14. l \in [VPages -> Ptes] /\ l[va] = e
       /\ \A v \in VPages : v # va => l[v] = c.leaf[v]
  BY <1>10, <1>11, <1>13
<1>15. PICK T : T = [c EXCEPT !.leaf = l]
  OBVIOUS
<1>16. T \in PageTables /\ T.leaf = l /\ T.nodes = c.nodes
  BY <1>7, <1>14, <1>15 DEF PageTables
<1>17. tab' = [tab EXCEPT ![Cur(p)] = T]
  <2>1. tab' = [tab EXCEPT ![Cur(p)].leaf[va].c = p]
    BY DEF Store
  <2> QED
    BY <1>1, <1>9, <1>13, <1>15, <2>1
<1>18. PICK ji : ji = [im EXCEPT ![va] = p]
  OBVIOUS
<1>19. image' = [image EXCEPT ![p] = ji]
  BY <1>1, <1>18 DEF Store
<1>20. ji \in [VPages -> Contents] /\ ji[va] = p
       /\ \A v \in VPages : v # va => ji[v] = im[v]
  <2>1. im \in [VPages -> Contents]
    BY <1>1, <1>2 DEF MemType
  <2> QED
    BY <1>18, <2>1 DEF Contents
<1>21. /\ image' \in [Processes -> [VPages -> Contents]] /\ image'[p] = ji
       /\ \A r \in Processes : r # p => image'[r] = image[r]
  BY <1>2, <1>19, <1>20 DEF MemType
<1>22. Mapped(T) = Mapped(c)
  BY <1>12, <1>14, <1>16 DEF Mapped
<1>23. UsedBy(T) = UsedBy(c)
  BY <1>16, <1>22 DEF UsedBy
<1>24. OnlyOwn(p, Cur(p), j, T)
  <2>1. job' = [job EXCEPT ![p] = j] /\ j \in Jobs
    BY <1>1, <1>2 DEF MemType, Store
  <2>2. /\ frame \in SUBSET Processes /\ IsFiniteSet(frame)
        /\ nfree \in Nat /\ sz \in [Processes -> Nat]
    BY <1>2 DEF MemType, Counted
  <2>3. UNCHANGED <<pages, nfree, frame, sz>>
    BY DEF Store
  <2> QED
    BY <1>1, <1>4, <1>7, <1>16, <1>17, <1>21, <1>23, <2>1, <2>2, <2>3
       DEF OnlyOwn
<1>25. Well(p, j, T, NoTable, s, ji, frame)
  <2>1. \A v \in UserPages : v \in Nat /\ v \in VPages
    BY MemConst
  <2>2. \A v \in UserPages :
          /\ im[v] = IF c.leaf[v] = None THEN "zero" ELSE c.leaf[v].c
          /\ c.leaf[v] # None => v < Up(s)
    BY <1>4, <1>6 DEF Well, ImageOK, Reach
  <2>3. \A v \in UserPages :
          /\ ji[v] = IF T.leaf[v] = None THEN "zero" ELSE T.leaf[v].c
          /\ T.leaf[v] # None => v < Up(s)
    BY <1>11, <1>12, <1>14, <1>16, <1>20, <2>1, <2>2
  <2>4. SizeOK(s, ji)
    <3>1. va < Up(s) /\ Up(s) \in Nat
      <4>1. s \in Nat
        BY <1>1, <1>2 DEF MemType
      <4> QED
        BY <1>8, <1>12, <2>2, <4>1, UpType
    <3>2. SizeOK(s, im)
      BY <1>6 DEF Well
    <3> QED
      BY <1>20, <2>1, <3>1, <3>2 DEF SizeOK
  <2>5. KernelOnly(T)
    <3>1. KernelOnly(c)
      BY <1>6 DEF Well
    <3> QED
      BY <1>8, <1>14, <1>16, <3>1, MemConst DEF KernelOnly
  <2> QED
    BY <1>4, <1>5, <2>3, <2>4, <2>5, IdleWell
<1>26. sz'[p] = s /\ frame' = frame
  BY <1>1 DEF Store
<1> QED
  BY <1>4, <1>21, <1>24, <1>25, <1>26, TabNames, OnlyOwnInv
-----------------------------------------------------------------------------
\* kexec() between two segments.
LEMMA ExecNow ==
  ASSUME MemInv, NEW p \in Processes, Finds(p, "exec")
  PROVE  /\ job[p] \in Jobs /\ JobShape(p, job[p]) /\ job[p].op = "exec"
         /\ job[p].pc = "page" /\ job[p].todo = {} /\ job[p].t = New(p)
         /\ job[p].prog \in Programs /\ ~IsKid(p) /\ p \in frame
         /\ HeldBy(job[p]) = job[p].args /\ job[p].args \in Nat
         /\ Well(p, job[p], tab[Cur(p)], tab[New(p)], sz[p], image[p], frame)
         /\ ExecOK(job[p], tab[New(p)]) /\ KernelOnly(tab[New(p)])
         /\ tab[New(p)] \in PageTables /\ IsFiniteSet(tab[New(p)].nodes)
         /\ UsedBy(tab[New(p)]) \in Nat
<1>1. MemType /\ Counted /\ ProcOK(p)
  BY DEF MemInv
<1>2. /\ job[p] \in Jobs /\ job[p].op = "exec" /\ job[p].pc = "page"
      /\ job[p].todo = {}
  BY <1>1 DEF Finds, At, MemType
<1>3. JobShape(p, job[p])
  BY <1>1 DEF ProcOK, JobsOK
<1>4. job[p].t = New(p) /\ job[p].prog \in Programs
  BY <1>2, <1>3 DEF JobShape
<1>5. ~IsKid(p)
  BY <1>2, NotKid
<1>6. Well(p, job[p], tab[Cur(p)], tab[New(p)], sz[p], image[p], frame)
  BY <1>2, <1>5, WellNow
<1>7. p \in frame /\ KernelOnly(tab[New(p)])
  BY <1>2, <1>6 DEF Well
<1>8. ExecOK(job[p], tab[New(p)])
  BY <1>2, <1>6 DEF Well, Mapping, Filled, FillOK
<1>9. HeldBy(job[p]) = job[p].args /\ job[p].args \in Nat
  BY <1>2 DEF HeldBy, HandFull, Jobs
<1>10. /\ tab[New(p)] \in PageTables /\ IsFiniteSet(tab[New(p)].nodes)
       /\ UsedBy(tab[New(p)]) \in Nat
  BY <1>1, TabNames, TabFinite DEF MemType
<1> QED
  BY <1>2, <1>3, <1>4, <1>5, <1>6, <1>7, <1>8, <1>9, <1>10

\* An entry with another content is still one.
LEMMA PteChange ==
  ASSUME NEW e \in Ptes, NEW x \in {"text", "args"} \cup Processes, e.u
  PROVE  LET f == [e EXCEPT !.c = x]
         IN  f \in Ptes /\ f.c = x /\ f.u /\ f # None /\ e # None
<1>1. PICK f : f = [e EXCEPT !.c = x]
  OBVIOUS
<1>2. f \in Ptes /\ f.c = x /\ f.u = e.u
  BY <1>1 DEF Ptes, Contents
<1>3. ~None.u
  BY DEF None, Pte
<1>4. f.u
  BY <1>2
<1>5. f # None /\ e # None
  BY <1>3, <1>4
<1> QED
  BY <1>1, <1>2, <1>4, <1>5

\* loadseg() finds the pages, and changes their content.
Reads(j, v) == j.seg > 0 /\ v \in Text(j.prog[j.seg])
Loads(j, t, T) ==
  /\ T \in PageTables /\ T.nodes = t.nodes
  /\ \A v \in VPages : Reads(j, v) =>
       /\ t.leaf[v] # None
       /\ T.leaf[v] # None /\ T.leaf[v].c = "text" /\ T.leaf[v].u
  /\ \A v \in VPages : ~Reads(j, v) => T.leaf[v] = t.leaf[v]

LEMMA LoadsegOK ==
  ASSUME NEW j \in Jobs, j.prog \in Programs, NEW t \in PageTables,
         ExecOK(j, t), j.todo = {}, j.seg <= Len(j.prog), NEW T,
         T = Loadseg(t, j)
  PROVE  /\ TextThere(t, j) /\ Loads(j, t, T)
         /\ \A v : Reads(j, v) => v \in UserPages /\ v < Loaded(j)
<1>1. PICK prog \in Programs : prog = j.prog
  OBVIOUS
<1>2. prog \in Seq(Segments) /\ j.seg \in Nat /\ j.sz \in Nat
  BY MemoryAssumption DEF Jobs
<1>3. j.seg > 0 => j.seg \in DOMAIN prog
  BY <1>1, <1>2
<1>4. /\ Loaded(j) \in Nat /\ Loaded(j) + USERSTACK + 1 <= TRAPFRAME
  BY ExecTopOK
<1>5. ExecTop(j) = Loaded(j)
  BY <1>1, <1>2 DEF ExecTop
<1>6. ASSUME NEW v, Reads(j, v)
      PROVE  v \in UserPages /\ v < Loaded(j)
  <2>1. v \in Nat /\ v < End(prog[j.seg]) /\ End(prog[j.seg]) \in Nat
    BY <1>1, <1>3, <1>6, TextFits DEF Reads
  <2>2. End(prog[j.seg]) <= Loaded(j)
    BY <1>1, <1>2, <1>4, <1>6, <2>1 DEF Loaded, Reads
  <2>3. v < Loaded(j)
    BY <1>4, <2>1, <2>2
  <2>4. USERSTACK \in Nat /\ TRAPFRAME \in Nat
    BY MemConst, MemoryAssumption
  <2>5. v < TRAPFRAME
    BY <1>4, <2>1, <2>3, <2>4
  <2> QED
    BY <2>1, <2>3, <2>5, MemConst
<1>7. \A v : Reads(j, v) => t.leaf[v] # None /\ t.leaf[v].u
  BY <1>5, <1>6 DEF ExecOK
<1>8. TextThere(t, j)
  BY <1>7 DEF TextThere, Walkaddr, Reads
<1>9. PICK l : l = [v \in VPages |->
                IF j.seg > 0 /\ v \in Text(j.prog[j.seg])
                  THEN [t.leaf[v] EXCEPT !.c = "text"] ELSE t.leaf[v]]
  OBVIOUS
<1>10. T = [t EXCEPT !.leaf = l]
  BY <1>9 DEF Loadseg
<1>11. \A v \in VPages : t.leaf[v] \in Ptes
  BY DEF PageTables
<1>12. ASSUME NEW v \in VPages, Reads(j, v)
       PROVE  l[v] \in Ptes /\ l[v].c = "text" /\ l[v].u /\ l[v] # None
  <2>1. l[v] = [t.leaf[v] EXCEPT !.c = "text"]
    BY <1>9, <1>12 DEF Reads
  <2>2. PICK e \in Ptes : e = t.leaf[v]
    BY <1>11
  <2>3. e.u
    BY <1>7, <1>12, <2>2
  <2>4. LET f == [e EXCEPT !.c = "text"]
        IN  f \in Ptes /\ f.c = "text" /\ f.u /\ f # None
    BY <2>3, PteChange
  <2> QED
    BY <2>1, <2>2, <2>4
<1>13. ASSUME NEW v \in VPages, ~Reads(j, v) PROVE l[v] = t.leaf[v]
  BY <1>9, <1>13 DEF Reads
<1>14. l \in [VPages -> Ptes]
  <2>1. \A v \in VPages : l[v] \in Ptes
    BY <1>11, <1>12, <1>13
  <2> QED
    BY <1>9, <2>1
<1>15. T \in PageTables /\ T.nodes = t.nodes /\ T.leaf = l
  BY <1>10, <1>14 DEF PageTables
<1>16. Loads(j, t, T)
  BY <1>7, <1>12, <1>13, <1>15 DEF Loads
<1> QED
  BY <1>6, <1>8, <1>16

\* The next segment.
NextSegment(j, k, top) ==
  /\ k.op = j.op /\ k.prog = j.prog /\ k.seg = j.seg + 1
  /\ k.sz = Loaded(j) /\ k.old = Loaded(j) /\ k.todo = Loaded(j) .. top - 1
  /\ top = IF j.seg < Len(j.prog) THEN End(j.prog[j.seg + 1])
           ELSE Loaded(j) + USERSTACK + 1

LEMMA SegmentOK ==
  ASSUME NEW j \in Jobs, NEW k, j.prog \in Programs, NEW t \in PageTables,
         NEW T, NEW top, ExecOK(j, t), j.todo = {}, j.seg <= Len(j.prog),
         Loads(j, t, T), NextSegment(j, k, top), j.op = "exec",
         \A v : Reads(j, v) => v \in UserPages /\ v < Loaded(j), NEW c, NEW s
  PROVE  /\ FillOK(k, T, c, s) /\ k.todo \in SUBSET VPages
         /\ k.sz \in Nat
<1>1. PICK prog \in Programs : prog = j.prog
  OBVIOUS
<1>2. prog \in Seq(Segments) /\ j.seg \in Nat /\ j.sz \in Nat
  BY MemoryAssumption DEF Jobs
<1>3. PICK b : b = Loaded(j)
  OBVIOUS
<1>4. b \in Nat /\ b + USERSTACK + 1 <= TRAPFRAME /\ b >= j.sz
  BY <1>3, ExecTopOK
<1>5. ExecTop(j) = b
  BY <1>1, <1>2, <1>3 DEF ExecTop
<1>6. USERSTACK \in Nat /\ TRAPFRAME \in Nat /\ Len(prog) \in Nat
  BY <1>2, MemConst, MemoryAssumption
<1>7. \A i \in 1 .. Len(prog) :
        /\ End(prog[i]) \in Nat
        /\ End(prog[i]) + USERSTACK + 1 <= TRAPFRAME
  BY <1>2, TextFits
<1>8. top \in Nat /\ top <= TRAPFRAME
  <2>1. CASE j.seg < Len(prog)
    <3>1. j.seg + 1 \in 1 .. Len(prog) /\ top = End(prog[j.seg + 1])
      BY <1>1, <1>2, <1>6, <2>1 DEF NextSegment
    <3>2. End(prog[j.seg + 1]) \in Nat
          /\ End(prog[j.seg + 1]) + USERSTACK + 1 <= TRAPFRAME
      BY <1>7, <3>1
    <3> QED
      BY <1>6, <3>1, <3>2
  <2>2. CASE ~(j.seg < Len(prog))
    <3>1. top = b + USERSTACK + 1
      BY <1>1, <1>3, <2>2 DEF NextSegment
    <3> QED
      BY <1>4, <1>6, <3>1
  <2> QED
    BY <2>1, <2>2
<1>9. \A v \in UserPages : v \in Nat /\ v \in VPages
  BY MemConst
<1>10. \A v \in k.todo : v \in Nat /\ v >= b /\ v < top
  BY <1>3, <1>4, <1>8 DEF NextSegment
<1>11. k.todo \subseteq UserPages /\ k.todo \in SUBSET VPages
  BY <1>6, <1>8, <1>9, <1>10, MemConst
<1>12. \A v \in UserPages : t.leaf[v] # None <=> v < b
  BY <1>5 DEF ExecOK
<1>13. \A v \in UserPages : T.leaf[v] # None <=> v < b
  BY <1>9, <1>12 DEF Loads
<1>14. k.op = "exec" /\ k.seg = j.seg + 1 /\ k.sz = b /\ k.old = b
       /\ k.prog = prog
  BY <1>1, <1>3 DEF NextSegment
<1>15. TodoOK(k, T)
  <2>1. ~(Fresh(k.op) /\ k.seg = 0)
    BY <1>2, <1>14
  <2>2. \A v \in k.todo : T.leaf[v] = None
    BY <1>4, <1>10, <1>11, <1>13
  <2>3. \A v \in UserPages, w \in k.todo : T.leaf[v] # None => v < w
    BY <1>4, <1>9, <1>10, <1>13
  <2> QED
    BY <1>11, <2>1, <2>2, <2>3 DEF TodoOK
<1>16. PICK et : et = ExecTop(k)
  OBVIOUS
<1>17. /\ et \in Nat /\ et >= b
       /\ \A v \in Nat : v >= b => (v < et <=> v < top)
  <2>1. CASE j.seg < Len(prog)
    <3>1. top = End(prog[j.seg + 1])
      BY <1>1, <2>1 DEF NextSegment
    <3>2. k.seg > 0 /\ k.seg # Len(prog) + 1
      BY <1>2, <1>6, <1>14, <2>1
    <3>3. et = IF top > b THEN top ELSE b
      BY <1>14, <1>16, <3>1, <3>2 DEF ExecTop, Loaded
    <3> QED
      BY <1>4, <1>8, <3>3
  <2>2. CASE ~(j.seg < Len(prog))
    <3>1. top = b + USERSTACK + 1
      BY <1>1, <1>3, <2>2 DEF NextSegment
    <3>2. k.seg = Len(prog) + 1
      BY <1>1, <1>2, <1>6, <1>14, <2>2
    <3>3. et = top
      BY <1>14, <1>16, <3>1, <3>2 DEF ExecTop
    <3> QED
      BY <1>4, <1>6, <1>8, <3>1, <3>3
  <2> QED
    BY <2>1, <2>2
<1>18. \A v \in Nat : v \in k.todo <=> v >= b /\ v < et
  <2>1. k.todo = b .. top - 1
    BY <1>3 DEF NextSegment
  <2>2. \A v \in Nat : v \in b .. top - 1 <=> v >= b /\ v < top
    BY <1>4, <1>8
  <2> QED
    BY <1>17, <2>1, <2>2
<1>19. \A v \in UserPages :
         T.leaf[v] # None <=> v < et /\ v \notin k.todo
  BY <1>4, <1>9, <1>13, <1>17, <1>18
<1>20. \A v : TextBefore(k, v) <=> TextBefore(j, v) \/ Reads(j, v)
  <2>1. \A i : i \in 1 .. k.seg - 1 <=>
                 i \in 1 .. j.seg - 1 \/ (j.seg > 0 /\ i = j.seg)
    BY <1>2, <1>14
  <2> QED
    BY <1>1, <1>14, <2>1 DEF TextBefore, Reads
<1>21. ASSUME NEW v \in UserPages, T.leaf[v] # None
       PROVE  /\ T.leaf[v].u
              /\ T.leaf[v].c = IF TextBefore(k, v) THEN "text" ELSE "zero"
  <2>1. CASE Reads(j, v)
    BY <1>9, <1>20, <2>1 DEF Loads
  <2>2. CASE ~Reads(j, v)
    <3>1. T.leaf[v] = t.leaf[v]
      BY <1>9, <2>2 DEF Loads
    <3> QED
      BY <1>20, <1>21, <2>2, <3>1 DEF ExecOK
  <2> QED
    BY <2>1, <2>2
<1>22. \A i \in 1 .. j.seg - 1 : End(prog[i]) \in Nat /\ End(prog[i]) <= j.sz
  <2>1. \A i \in 1 .. j.seg - 1 : i \in 1 .. Len(prog)
    BY <1>1, <1>2, <1>6
  <2> QED
    BY <1>1, <1>7, <2>1 DEF ExecOK
<1>23. j.seg > 0 => End(prog[j.seg]) \in Nat /\ End(prog[j.seg]) <= b
  <2>1. j.seg > 0 => j.seg \in 1 .. Len(prog)
    BY <1>1, <1>2, <1>6
  <2> QED
    BY <1>1, <1>2, <1>3, <1>7, <2>1 DEF Loaded
<1>24. \A i \in 1 .. k.seg - 1 : End(k.prog[i]) <= k.sz
  <2> SUFFICES ASSUME NEW i \in 1 .. k.seg - 1 PROVE End(prog[i]) <= b
    BY <1>14
  <2>1. CASE i \in 1 .. j.seg - 1
    BY <1>2, <1>4, <1>22, <2>1
  <2>2. CASE j.seg > 0 /\ i = j.seg
    BY <1>23, <2>2
  <2> QED
    BY <1>2, <1>14, <2>1, <2>2
<1>25. k.sz = 0 \/ \E i \in 1 .. k.seg - 1 : End(k.prog[i]) = k.sz
  <2>1. CASE b = j.sz
    <3>1. j.sz = 0 \/ \E i \in 1 .. j.seg - 1 : End(prog[i]) = j.sz
      BY <1>1 DEF ExecOK
    <3> QED
      BY <1>2, <1>14, <2>1, <3>1
  <2>2. CASE b # j.sz
    <3>1. j.seg > 0 /\ b = End(prog[j.seg])
      BY <1>1, <1>3, <2>2 DEF Loaded
    <3> QED
      BY <1>2, <1>14, <3>1
  <2> QED
    BY <2>1, <2>2
<1>26. ExecOK(k, T)
  <2>1. k.seg <= Len(k.prog) + 1
    BY <1>1, <1>2, <1>6, <1>14
  <2>2. k.todo \cap UserPages \subseteq k.sz .. ExecTop(k) - 1
    BY <1>4, <1>9, <1>14, <1>16, <1>17, <1>18
  <2> QED
    BY <1>14, <1>16, <1>19, <1>21, <1>24, <1>25, <2>1, <2>2 DEF ExecOK
<1> QED
  BY <1>4, <1>11, <1>14, <1>15, <1>26 DEF FillOK

LEMMA ExecSegmentInv ==
  ASSUME MemInv, NEW p \in Processes, ExecSegment(p)
  PROVE  MemInv'
<1>1. PICK j, n, c, s, im : /\ j = job[p] /\ n = tab[New(p)]
                            /\ c = tab[Cur(p)] /\ s = sz[p] /\ im = image[p]
  OBVIOUS
<1>2. Finds(p, "exec") /\ j.seg <= Len(j.prog)
  BY <1>1 DEF ExecSegment
<1>3. /\ j \in Jobs /\ JobShape(p, j) /\ j.op = "exec" /\ j.pc = "page"
      /\ j.todo = {} /\ j.t = New(p) /\ j.prog \in Programs /\ ~IsKid(p)
      /\ p \in frame /\ HeldBy(j) = j.args /\ j.args \in Nat
      /\ Well(p, j, c, n, s, im, frame) /\ ExecOK(j, n) /\ KernelOnly(n)
      /\ n \in PageTables /\ IsFiniteSet(n.nodes) /\ UsedBy(n) \in Nat
  BY <1>1, <1>2, ExecNow
<1>4. PICK T : T = Loadseg(n, j)
  OBVIOUS
<1>5. /\ TextThere(n, j) /\ Loads(j, n, T)
      /\ \A v : Reads(j, v) => v \in UserPages /\ v < Loaded(j)
  BY <1>2, <1>3, <1>4, LoadsegOK
<1>6. PICK b, top :
        /\ b = Loaded(j)
        /\ top = IF j.seg < Len(j.prog) THEN End(j.prog[j.seg + 1])
                 ELSE b + USERSTACK + 1
  OBVIOUS
<1>7. PICK V : V = b .. top - 1
  OBVIOUS
<1>8. PICK k : k = [j EXCEPT !.pc = "page", !.seg = j.seg + 1, !.sz = b,
                             !.old = b, !.todo = V]
  OBVIOUS
<1>9. /\ k.op = "exec" /\ k.pc = "page" /\ k.t = j.t /\ k.prog = j.prog
      /\ k.seg = j.seg + 1 /\ k.sz = b /\ k.old = b /\ k.todo = V
      /\ k.args = j.args
  BY <1>3, <1>8 DEF Jobs
<1>10. NextSegment(j, k, top)
  BY <1>3, <1>6, <1>7, <1>9 DEF NextSegment
<1>11. FillOK(k, T, c, s) /\ V \in SUBSET VPages /\ b \in Nat
  BY <1>2, <1>3, <1>5, <1>9, <1>10, SegmentOK
<1>12. k \in Jobs
  <2>1. j.seg + 1 \in Nat
    BY <1>3 DEF Jobs
  <2> QED
    BY <1>3, <1>8, <1>11, <2>1 DEF Jobs, JobPcs
<1>13. tab' = [tab EXCEPT ![New(p)] = T] /\ job' = [job EXCEPT ![p] = k]
  <2>1. tab[j.t] = n
    BY <1>1, <1>3
  <2>2. tab' = [tab EXCEPT ![j.t] = T]
    BY <1>1, <1>4, <2>1 DEF ExecSegment
  <2>3. job' = [job EXCEPT ![p] =
                  [j EXCEPT !.pc = IF TextThere(n, j) THEN j.pc ELSE "panic",
                     !.seg = j.seg + 1, !.sz = b, !.old = b, !.todo = V]]
    BY <1>1, <1>6, <1>7, <2>1 DEF ExecSegment, Go
  <2> QED
    BY <1>3, <1>5, <1>8, <2>2, <2>3
<1>14. UsedBy(T) = UsedBy(n) /\ T.nodes = n.nodes /\ T \in PageTables
  <2>1. Mapped(T) = Mapped(n)
    BY <1>5 DEF Loads, Mapped
  <2> QED
    BY <1>5, <2>1 DEF UsedBy, Loads
<1>15. HeldBy(k) = HeldBy(j)
  BY <1>3, <1>9 DEF HeldBy, HandFull
<1>16. OnlyOwn(p, New(p), k, T)
  <2>1. UNCHANGED <<pages, nfree, frame, sz, image>>
    BY DEF ExecSegment
  <2> QED
    BY <1>1, <1>3, <1>9, <1>12, <1>13, <1>14, <1>15, <2>1
       DEF OnlyOwn, MemInv, MemType, Counted
<1>17. Well(p, k, c, T, s, im, frame)
  <2>1. JobShape(p, k) /\ Mapping(k)
    BY <1>3, <1>9 DEF JobShape, Mapping, Fresh
  <2>2. ImageOK(k, c, s, im)
    BY <1>3, <1>9 DEF Well, ImageOK, Reach
  <2>3. KernelOnly(T)
    BY <1>3, <1>5, MemConst DEF KernelOnly, Loads
  <2>4. Filled(k, c, T) = T
    BY <1>9 DEF Filled
  <2> QED
    BY <1>3, <1>9, <1>11, <2>1, <2>2, <2>3, <2>4 DEF Well
<1>18. UNCHANGED <<frame, sz, image>>
  BY DEF ExecSegment
<1> QED
  BY <1>1, <1>16, <1>17, <1>18, TabNames, OnlyOwnInv
-----------------------------------------------------------------------------
\* kexec() fails: the new table goes, and p has what it had.
LEMMA NewGone ==
  ASSUME MemInv, NEW p \in Processes, Finds(p, "exec"),
         job' = [job EXCEPT ![p] = Ended(FALSE)],
         tab' = [tab EXCEPT ![New(p)] = NoTable],
         nfree' = nfree + (UsedBy(tab[New(p)]) + job[p].args),
         UNCHANGED <<pages, frame, sz, image>>
  PROVE  MemInv'
<1>1. PICK j, n, c, s, im, k :
        /\ j = job[p] /\ n = tab[New(p)] /\ c = tab[Cur(p)] /\ s = sz[p]
        /\ im = image[p] /\ k = Ended(FALSE)
  OBVIOUS
<1>2. /\ j.op = "exec" /\ ~IsKid(p) /\ p \in frame /\ HeldBy(j) = j.args
      /\ j.args \in Nat /\ Well(p, j, c, n, s, im, frame)
      /\ UsedBy(n) \in Nat
  BY <1>1, ExecNow
<1>3. NoJob(k) /\ HeldBy(k) = 0
  BY <1>1, EndedOK, IdleJobOK
<1>4. /\ frame \in SUBSET Processes /\ IsFiniteSet(frame) /\ nfree \in Nat
      /\ sz \in [Processes -> Nat]
      /\ image \in [Processes -> [VPages -> Contents]]
  BY DEF MemInv, MemType, Counted
<1>5. nfree' + Cardinality(frame') + HeldBy(k) + UsedBy(NoTable)
        = nfree + Cardinality(frame) + HeldBy(j) + UsedBy(n)
  <2>1. UsedBy(NoTable) = 0
    BY NoTableOK
  <2>2. Cardinality(frame) \in Nat
    BY <1>4, FS_CardinalityType
  <2>3. PICK f, u, a : f = Cardinality(frame) /\ u = UsedBy(n) /\ a = j.args
    OBVIOUS
  <2>4. nfree' = nfree + (u + a) /\ f \in Nat /\ u \in Nat /\ a \in Nat
        /\ nfree \in Nat
    BY <1>1, <1>2, <1>4, <2>2, <2>3
  <2>5. nfree' + f + 0 + 0 = nfree + f + a + u
    BY <2>4
  <2> QED
    BY <1>2, <1>3, <2>1, <2>3, <2>5
<1>6. OnlyOwn(p, New(p), k, NoTable)
  <2>1. nfree' \in Nat
    BY <1>1, <1>2, <1>4
  <2> QED
    BY <1>1, <1>2, <1>3, <1>4, <1>5, <2>1, NoTableOK DEF OnlyOwn, NoJob
<1>7. Well(p, k, c, NoTable, s, im, frame)
  <2>1. \A v \in UserPages :
          /\ im[v] = IF c.leaf[v] = None THEN "zero" ELSE c.leaf[v].c
          /\ c.leaf[v] # None => v < Up(s)
    BY <1>2 DEF Well, ImageOK, Reach
  <2>2. KernelOnly(c) /\ SizeOK(s, im)
    BY <1>2 DEF Well
  <2> QED
    BY <1>2, <1>3, <2>1, <2>2, IdleWell
<1> QED
  BY <1>1, <1>6, <1>7, TabNames, OnlyOwnInv

LEMMA ExecBadInv ==
  ASSUME MemInv, NEW p \in Processes, ExecBad(p)
  PROVE  MemInv'
<1>1. PICK j, n : j = job[p] /\ n = tab[New(p)]
  OBVIOUS
<1>2. Finds(p, "exec") /\ j.seg <= Len(j.prog)
  BY <1>1 DEF ExecBad
<1>3. /\ j \in Jobs /\ j.t = New(p) /\ j.prog \in Programs /\ ExecOK(j, n)
      /\ n \in PageTables /\ IsFiniteSet(n.nodes)
  BY <1>1, <1>2, ExecNow
<1>4. /\ Loaded(j) \in Nat /\ ExecTop(j) <= TRAPFRAME
      /\ ExecTop(j) = Loaded(j)
  <2>1. j.seg \in Nat /\ Len(j.prog) \in Nat
    BY <1>3 DEF Jobs
  <2> QED
    BY <1>2, <1>3, <2>1, ExecTopOK DEF ExecTop
<1>5. PICK b \in Nat : b = Loaded(j)
  BY <1>4
<1>6. \A v \in UserPages : n.leaf[v] # None => v < b
  BY <1>3, <1>4, <1>5 DEF ExecOK
<1>7. ProcFree(n, b) = UsedBy(n) /\ ~FreewalkLeaf(n, b)
  BY <1>3, <1>4, <1>5, <1>6, ProcFreeOK
<1>8. /\ job' = [job EXCEPT ![p] = Ended(FALSE)]
      /\ tab' = [tab EXCEPT ![New(p)] = NoTable]
      /\ nfree' = nfree + (UsedBy(n) + j.args)
      /\ UNCHANGED <<pages, frame, sz, image>>
  <2>1. tab[j.t] = n
    BY <1>1, <1>3
  <2>2. Ended(FreewalkLeaf(n, b)) = Ended(FALSE)
    BY <1>7 DEF Ended
  <2> QED
    BY <1>1, <1>3, <1>5, <1>7, <2>1, <2>2 DEF ExecBad, Go, Kfree
<1> QED
  BY <1>1, <1>2, <1>8, NewGone

\* uvmclear() hides a page from the user, which stays.
Clears(t, T, va) ==
  /\ T \in PageTables /\ T.nodes = t.nodes /\ Mapped(T) = Mapped(t)
  /\ \A v \in VPages : v # va => T.leaf[v] = t.leaf[v]
  /\ T.leaf[va] # None /\ T.leaf[va].c = t.leaf[va].c

LEMMA UvmclearOK ==
  ASSUME NEW t \in PageTables, NEW va \in UserPages, t.leaf[va].c # "none"
  PROVE  Clears(t, Uvmclear(t, va), va)
<1>1. t.leaf \in [VPages -> Ptes] /\ va \in VPages
  BY MemConst DEF PageTables
<1>2. PICK e \in Ptes : e = t.leaf[va]
  BY <1>1
<1>3. PICK f : f = [e EXCEPT !.u = FALSE]
  OBVIOUS
<1>4. f \in Ptes /\ f.c = e.c
  BY <1>3 DEF Ptes
<1>5. None.c = "none"
  BY DEF None, Pte
<1>6. f # None /\ e # None
  BY <1>2, <1>4, <1>5
<1>7. PICK l : l = [t.leaf EXCEPT ![va] = f]
  OBVIOUS
<1>8. l \in [VPages -> Ptes] /\ l[va] = f
      /\ \A v \in VPages : v # va => l[v] = t.leaf[v]
  BY <1>1, <1>4, <1>7
<1>9. PICK T : T = [t EXCEPT !.leaf = l]
  OBVIOUS
<1>10. T \in PageTables /\ T.leaf = l /\ T.nodes = t.nodes
  BY <1>8, <1>9 DEF PageTables
<1>11. Uvmclear(t, va) = T
  BY <1>2, <1>3, <1>7, <1>9 DEF Uvmclear
<1>12. Mapped(T) = Mapped(t)
  BY <1>2, <1>6, <1>8, <1>10 DEF Mapped
<1> QED
  BY <1>2, <1>4, <1>6, <1>8, <1>10, <1>11, <1>12 DEF Clears

\* The last thing kexec() has made is the stack, the guard page below it.
LEMMA StackOK ==
  ASSUME MemInv, NEW p \in Processes, Finds(p, "exec"),
         job[p].seg = Len(job[p].prog) + 1
  PROVE  /\ ImageTop(p) \in Nat /\ ImageTop(p) <= TRAPFRAME
         /\ job[p].sz \in UserPages /\ ImageTop(p) - 1 \in UserPages
         /\ job[p].sz < ImageTop(p) - 1
         /\ Clears(tab[New(p)], Guarded(p), job[p].sz)
         /\ \A v \in UserPages :
              /\ tab[New(p)].leaf[v] # None <=> v < ImageTop(p)
              /\ tab[New(p)].leaf[v] # None => tab[New(p)].leaf[v].u
              /\ tab[New(p)].leaf[v] # None =>
                   tab[New(p)].leaf[v].c =
                     IF TextBefore(job[p], v) THEN "text" ELSE "zero"
<1>1. PICK j, n : j = job[p] /\ n = tab[New(p)]
  OBVIOUS
<1>2. /\ j \in Jobs /\ j.prog \in Programs /\ ExecOK(j, n) /\ j.todo = {}
      /\ n \in PageTables
  BY <1>1, ExecNow
<1>3. PICK m \in Nat : m = j.sz
  BY <1>2 DEF Jobs
<1>4. m + USERSTACK + 1 <= TRAPFRAME
  BY <1>2, <1>3, ExecTopOK
<1>5. USERSTACK \in Nat /\ USERSTACK > 0 /\ TRAPFRAME \in Nat
  BY MemConst, MemoryAssumption
<1>6. PICK e : e = ImageTop(p)
  OBVIOUS
<1>7. e = m + USERSTACK + 1 /\ ExecTop(j) = e
  BY <1>1, <1>3, <1>6 DEF ImageTop, ExecTop
<1>8. /\ e \in Nat /\ e <= TRAPFRAME /\ m < e - 1 /\ e - 1 \in Nat
      /\ m < TRAPFRAME /\ e - 1 < TRAPFRAME
  BY <1>4, <1>5, <1>7
<1>9. m \in UserPages /\ e - 1 \in UserPages
  BY <1>8, MemConst
<1>10. \A v \in UserPages :
         /\ n.leaf[v] # None <=> v < e
         /\ n.leaf[v] # None => n.leaf[v].u
         /\ n.leaf[v] # None =>
              n.leaf[v].c = IF TextBefore(j, v) THEN "text" ELSE "zero"
  BY <1>2, <1>7 DEF ExecOK
<1>11. n.leaf[m].c # "none"
  BY <1>8, <1>9, <1>10
<1>12. Clears(n, Uvmclear(n, m), m)
  BY <1>2, <1>9, <1>11, UvmclearOK
<1>13. Guarded(p) = Uvmclear(n, m)
  BY <1>1, <1>3 DEF Guarded
<1> QED
  BY <1>1, <1>3, <1>6, <1>8, <1>9, <1>10, <1>12, <1>13

LEMMA ExecNoRoomInv ==
  ASSUME MemInv, NEW p \in Processes, ExecNoRoom(p)
  PROVE  MemInv'
<1>1. PICK j, n, T : j = job[p] /\ n = tab[New(p)] /\ T = Guarded(p)
  OBVIOUS
<1>2. Finds(p, "exec") /\ j.seg = Len(j.prog) + 1
  BY <1>1 DEF ExecNoRoom
<1>3. n \in PageTables /\ IsFiniteSet(n.nodes)
  BY <1>1, <1>2, ExecNow
<1>4. PICK m : m = j.sz
  OBVIOUS
<1>5. /\ ImageTop(p) \in Nat /\ ImageTop(p) <= TRAPFRAME /\ Clears(n, T, m)
      /\ \A v \in UserPages : n.leaf[v] # None <=> v < ImageTop(p)
  BY <1>1, <1>2, <1>4, StackOK
<1>6. PICK e \in Nat : e = ImageTop(p)
  BY <1>5
<1>7. T \in PageTables /\ T.nodes = n.nodes /\ UsedBy(T) = UsedBy(n)
  BY <1>5 DEF Clears, UsedBy
<1>8. \A v \in UserPages : T.leaf[v] # None => v < e
  <2>1. \A v \in VPages : T.leaf[v] # None <=> n.leaf[v] # None
    BY <1>5 DEF Clears, Mapped
  <2> QED
    BY <1>5, <1>6, <2>1, MemConst
<1>9. ProcFree(T, e) = UsedBy(n) /\ ~FreewalkLeaf(T, e)
  BY <1>3, <1>5, <1>6, <1>7, <1>8, ProcFreeOK
<1>10. /\ job' = [job EXCEPT ![p] = Ended(FALSE)]
       /\ tab' = [tab EXCEPT ![New(p)] = NoTable]
       /\ nfree' = nfree + (UsedBy(n) + j.args)
       /\ UNCHANGED <<pages, frame, sz, image>>
  <2>1. Ended(FreewalkLeaf(T, e)) = Ended(FALSE)
    BY <1>9 DEF Ended
  <2> QED
    BY <1>1, <1>6, <1>9, <2>1 DEF ExecNoRoom, Go, Kfree
<1> QED
  BY <1>1, <1>2, <1>10, NewGone

\* The image that the program starts with.
LEMMA StartImageOK ==
  ASSUME NEW j \in Jobs, j.prog \in Programs, NEW t, ExecOK(j, t),
         j.seg = Len(j.prog) + 1
  PROVE  /\ StartImage(j.prog) \in [VPages -> Contents]
         /\ \A v \in VPages : StartImage(j.prog)[v] =
              IF TextBefore(j, v) THEN "text"
              ELSE IF v = j.sz + USERSTACK THEN "args" ELSE "zero"
<1>1. PICK prog \in Programs : prog = j.prog
  OBVIOUS
<1>2. prog \in Seq(Segments)
  BY MemoryAssumption
<1>3. PICK m \in Nat : m = j.sz
  BY DEF Jobs
<1>4. DOMAIN prog = 1 .. j.seg - 1
  <2>1. Len(prog) \in Nat /\ DOMAIN prog = 1 .. Len(prog)
    BY <1>2
  <2> QED
    BY <1>1, <2>1
<1>5. \A i \in DOMAIN prog : End(prog[i]) \in Nat /\ End(prog[i]) <= m
  BY <1>1, <1>3, <1>4, TextFits DEF ExecOK
<1>6. m = 0 \/ \E i \in DOMAIN prog : End(prog[i]) = m
  BY <1>1, <1>3, <1>4 DEF ExecOK
<1>7. m \in 0 .. MAXVA
  <2>1. m + USERSTACK + 1 <= TRAPFRAME
    BY <1>3, ExecTopOK
  <2> QED
    BY <2>1, MemConst, MemoryAssumption DEF TRAPFRAME
<1>8. PICK b : b = CHOOSE e \in 0 .. MAXVA :
                     /\ \A i \in DOMAIN prog : End(prog[i]) <= e
                     /\ e = 0 \/ \E i \in DOMAIN prog : End(prog[i]) = e
  OBVIOUS
<1>9. /\ b \in 0 .. MAXVA /\ \A i \in DOMAIN prog : End(prog[i]) <= b
      /\ b = 0 \/ \E i \in DOMAIN prog : End(prog[i]) = b
  BY <1>5, <1>6, <1>7, <1>8
<1>10. b = m
  <2>1. b \in Nat
    BY <1>9, MemConst
  <2>2. b <= m
    BY <1>5, <1>9, <2>1
  <2>3. m <= b
    BY <1>5, <1>6, <1>9, <2>1
  <2> QED
    BY <2>1, <2>2, <2>3
<1>11. StartImage(prog) =
         [v \in VPages |->
            IF \E i \in DOMAIN prog : v \in Text(prog[i]) THEN "text"
            ELSE IF v = b + USERSTACK THEN "args" ELSE "zero"]
  BY <1>8 DEF StartImage
<1>12. \A v : TextBefore(j, v) <=>
               \E i \in DOMAIN prog : v \in Text(prog[i])
  BY <1>1, <1>4 DEF TextBefore
<1>13. StartImage(prog) \in [VPages -> Contents]
  BY <1>11 DEF Contents
<1>14. \A v \in VPages : StartImage(prog)[v] =
         IF TextBefore(j, v) THEN "text"
         ELSE IF v = m + USERSTACK THEN "args" ELSE "zero"
  BY <1>10, <1>11, <1>12
<1> QED
  BY <1>1, <1>3, <1>13, <1>14

\* The table that p has after kexec().
LEMMA WithArgsOK ==
  ASSUME MemInv, NEW p \in Processes, Finds(p, "exec"),
         job[p].seg = Len(job[p].prog) + 1, NEW W, W = WithArgs(p)
  PROVE  /\ W \in PageTables /\ IsFiniteSet(W.nodes)
         /\ UsedBy(W) = UsedBy(tab[New(p)]) /\ KernelOnly(W)
         /\ \A v \in UserPages :
              /\ W.leaf[v] # None <=> v < ImageTop(p)
              /\ StartImage(job[p].prog)[v] =
                   IF W.leaf[v] = None THEN "zero" ELSE W.leaf[v].c
<1>1. PICK j, n, T : j = job[p] /\ n = tab[New(p)] /\ T = Guarded(p)
  OBVIOUS
<1>2. /\ n \in PageTables /\ IsFiniteSet(n.nodes) /\ KernelOnly(n)
      /\ j \in Jobs /\ j.prog \in Programs /\ ExecOK(j, n)
  BY <1>1, ExecNow
<1>3. PICK m \in Nat : m = j.sz
  BY <1>2 DEF Jobs
<1>4. PICK e : e = ImageTop(p)
  OBVIOUS
<1>5. /\ e \in Nat /\ e <= TRAPFRAME /\ Clears(n, T, m)
      /\ m \in UserPages /\ e - 1 \in UserPages /\ m < e - 1
      /\ \A v \in UserPages :
           /\ n.leaf[v] # None <=> v < e
           /\ n.leaf[v] # None => n.leaf[v].u
           /\ n.leaf[v] # None =>
                n.leaf[v].c = IF TextBefore(j, v) THEN "text" ELSE "zero"
  BY <1>1, <1>3, <1>4, StackOK
<1>6. \A v \in UserPages : v \in Nat /\ v \in VPages
  BY MemConst
<1>7. PICK a \in UserPages : a = e - 1
  BY <1>5
<1>8. T.leaf[a] = n.leaf[a] /\ n.leaf[a] # None /\ n.leaf[a].u
  BY <1>5, <1>6, <1>7 DEF Clears
<1>9. T \in PageTables /\ T.leaf \in [VPages -> Ptes]
  BY <1>5 DEF Clears, PageTables
<1>10. PICK x \in Ptes : x = T.leaf[a]
  BY <1>6, <1>9
<1>11. x.u
  BY <1>8, <1>10
<1>12. PICK y : y = [x EXCEPT !.c = "args"]
  OBVIOUS
<1>13. y \in Ptes /\ y.c = "args" /\ y # None
  BY <1>11, <1>12, PteChange
<1>14. PICK l : l = [T.leaf EXCEPT ![a] = y]
  OBVIOUS
<1>15. l \in [VPages -> Ptes] /\ l[a] = y
       /\ \A v \in VPages : v # a => l[v] = T.leaf[v]
  BY <1>6, <1>9, <1>13, <1>14
<1>16. W = [T EXCEPT !.leaf = l]
  BY <1>1, <1>4, <1>7, <1>10, <1>12, <1>14 DEF WithArgs
<1>17. W \in PageTables /\ W.leaf = l /\ W.nodes = T.nodes
  BY <1>9, <1>15, <1>16 DEF PageTables
<1>18. \A v \in VPages : W.leaf[v] # None <=> n.leaf[v] # None
  <2>1. \A v \in VPages : T.leaf[v] # None <=> n.leaf[v] # None
    BY <1>5 DEF Clears, Mapped
  <2> QED
    BY <1>8, <1>13, <1>15, <1>17, <2>1
<1>19. UsedBy(W) = UsedBy(n) /\ IsFiniteSet(W.nodes)
  <2>1. Mapped(W) = Mapped(n)
    BY <1>18 DEF Mapped
  <2>2. W.nodes = n.nodes
    BY <1>5, <1>17 DEF Clears
  <2> QED
    BY <1>2, <2>1, <2>2 DEF UsedBy
<1>20. KernelOnly(W)
  <2>1. \A v \in {TRAMPOLINE, TRAPFRAME} : v # a /\ v # m /\ v \in VPages
    BY <1>5, MemConst
  <2>2. \A v \in {TRAMPOLINE, TRAPFRAME} : W.leaf[v] = n.leaf[v]
    BY <1>5, <1>15, <1>17, <2>1 DEF Clears
  <2> QED
    BY <1>2, <2>2 DEF KernelOnly
<1>21. ASSUME NEW v \in UserPages
       PROVE  StartImage(j.prog)[v] =
                IF W.leaf[v] = None THEN "zero" ELSE W.leaf[v].c
  <2>1. StartImage(j.prog)[v] =
          IF TextBefore(j, v) THEN "text"
          ELSE IF v = m + USERSTACK THEN "args" ELSE "zero"
    BY <1>1, <1>2, <1>3, <1>6, StartImageOK
  <2>2. a = m + USERSTACK
    <3>1. e = m + USERSTACK + 1 /\ USERSTACK \in Nat
      BY <1>1, <1>3, <1>4, MemoryAssumption DEF ImageTop
    <3> QED
      BY <1>7, <3>1
  <2>3. v >= m => ~TextBefore(j, v)
    BY <1>2, <1>3, <1>6, TextBelow
  <2>4. CASE v = a
    <3>1. W.leaf[v] # None /\ W.leaf[v].c = "args"
      BY <1>13, <1>15, <1>17, <2>4
    <3>2. ~TextBefore(j, v)
      BY <1>5, <1>6, <1>7, <2>3, <2>4
    <3> QED
      BY <2>1, <2>2, <2>4, <3>1, <3>2
  <2>5. CASE v # a /\ v < e
    <3>1. W.leaf[v] # None /\ n.leaf[v] # None
      BY <1>5, <1>6, <1>18, <2>5
    <3>2. W.leaf[v].c = n.leaf[v].c
      BY <1>5, <1>6, <1>15, <1>17, <2>5 DEF Clears
    <3> QED
      BY <1>5, <2>1, <2>2, <2>5, <3>1, <3>2
  <2>6. CASE ~(v < e)
    <3>1. W.leaf[v] = None
      BY <1>5, <1>6, <1>18, <2>6
    <3>2. v >= m /\ v # a
      BY <1>5, <1>6, <1>7, <2>6
    <3> QED
      BY <2>1, <2>2, <2>3, <3>1, <3>2
  <2> QED
    BY <2>4, <2>5, <2>6
<1>22. \A v \in UserPages : W.leaf[v] # None <=> v < e
  BY <1>5, <1>6, <1>18
<1> QED
  BY <1>1, <1>4, <1>17, <1>19, <1>20, <1>21, <1>22

LEMMA ExecCommitInv ==
  ASSUME MemInv, NEW p \in Processes, ExecCommit(p)
  PROVE  MemInv'
<1>1. PICK j, n, c, s, im, k, W :
        /\ j = job[p] /\ n = tab[New(p)] /\ c = tab[Cur(p)] /\ s = sz[p]
        /\ im = image[p] /\ k = Ended(FALSE) /\ W = WithArgs(p)
  OBVIOUS
<1>2. Finds(p, "exec") /\ j.seg = Len(j.prog) + 1
  BY <1>1 DEF ExecCommit
<1>3. /\ j.op = "exec" /\ ~IsKid(p) /\ p \in frame /\ HeldBy(j) = j.args
      /\ j.args \in Nat /\ Well(p, j, c, n, s, im, frame)
      /\ UsedBy(n) \in Nat /\ j \in Jobs /\ j.prog \in Programs
      /\ ExecOK(j, n)
  BY <1>1, <1>2, ExecNow
<1>4. MemType /\ Counted
  BY DEF MemInv
<1>5. s \in Nat /\ Up(s) \in Nat /\ Up(s) <= TRAPFRAME
  <2>1. s \in Nat
    BY <1>1, <1>4 DEF MemType
  <2> QED
    BY <1>3, <2>1, UpType DEF Well, SizeOK
<1>6. \A v \in UserPages : c.leaf[v] # None => v < Up(s)
  BY <1>3 DEF Well, ImageOK, Reach
<1>7. c \in PageTables /\ IsFiniteSet(c.nodes) /\ UsedBy(c) \in Nat
  BY <1>1, <1>4, TabNames, TabFinite DEF MemType
<1>8. ProcFree(c, Up(s)) = UsedBy(c) /\ ~FreewalkLeaf(c, Up(s))
  <2>1. PICK u \in Nat : u = Up(s)
    BY <1>5
  <2> QED
    BY <1>5, <1>6, <1>7, <2>1, ProcFreeOK
<1>9. NoJob(k) /\ HeldBy(k) = 0
  BY <1>1, EndedOK, IdleJobOK
<1>10. PICK e, si : e = ImageTop(p) /\ si = StartImage(j.prog)
  OBVIOUS
<1>11. e \in Nat /\ e <= TRAPFRAME
  BY <1>1, <1>2, <1>10, StackOK
<1>12. /\ W \in PageTables /\ IsFiniteSet(W.nodes)
       /\ UsedBy(W) = UsedBy(n) /\ KernelOnly(W)
       /\ \A v \in UserPages :
            /\ W.leaf[v] # None <=> v < e
            /\ si[v] = IF W.leaf[v] = None THEN "zero" ELSE W.leaf[v].c
  BY <1>1, <1>2, <1>10, WithArgsOK
<1>13. si \in [VPages -> Contents]
  BY <1>2, <1>3, <1>10, StartImageOK
<1>14. PICK b \in Nat : b = e * PGSIZE /\ Up(b) = e
  BY <1>11, UpWhole
<1>15. /\ nfree' = nfree + (UsedBy(c) + j.args)
       /\ tab' = [tab EXCEPT ![New(p)] = NoTable, ![Cur(p)] = W]
       /\ sz' = [sz EXCEPT ![p] = b] /\ image' = [image EXCEPT ![p] = si]
       /\ job' = [job EXCEPT ![p] = k] /\ pages' = pages /\ frame' = frame
  <2>1. Ended(FreewalkLeaf(c, Up(s))) = k
    BY <1>1, <1>8 DEF Ended
  <2> QED
    BY <1>1, <1>8, <1>10, <1>14, <2>1 DEF ExecCommit, Go, Kfree
<1>16. Cur(p) \in Tables /\ New(p) \in Tables /\ Cur(p) # New(p)
  BY TabNames
<1>17. PICK f : f = [tab EXCEPT ![New(p)] = NoTable]
  OBVIOUS
<1>18. /\ f \in [Tables -> PageTables] /\ f[New(p)] = NoTable
       /\ f[Cur(p)] = c /\ \A x \in Tables : x # New(p) => f[x] = tab[x]
  BY <1>1, <1>4, <1>16, <1>17, NoTableOK DEF MemType
<1>19. tab' = [f EXCEPT ![Cur(p)] = W]
  BY <1>15, <1>17
<1>20. /\ tab' \in [Tables -> PageTables] /\ tab'[Cur(p)] = W
       /\ tab'[New(p)] = NoTable
       /\ \A x \in Tables : x # Cur(p) => tab'[x] = f[x]
  BY <1>12, <1>16, <1>18, <1>19
<1>21. /\ job' \in [Processes -> Jobs] /\ job'[p] = k
       /\ \A r \in Processes : r # p => job'[r] = job[r]
  BY <1>4, <1>9, <1>15 DEF MemType, NoJob
<1>22. /\ sz' \in [Processes -> Nat] /\ sz'[p] = b
       /\ image' \in [Processes -> [VPages -> Contents]] /\ image'[p] = si
       /\ \A r \in Processes : r # p => sz'[r] = sz[r] /\ image'[r] = image[r]
  BY <1>4, <1>13, <1>15 DEF MemType
<1>23. MemType'
  <2>1. nfree' \in Nat
    BY <1>3, <1>4, <1>7, <1>15 DEF MemType
  <2> QED
    BY <1>4, <1>15, <1>20, <1>21, <1>22, <2>1 DEF MemType
<1>24. Private(p)
  <2>1. \A r \in Processes : r # p =>
          /\ Cur(r) \in Tables /\ New(r) \in Tables
          /\ Cur(r) # Cur(p) /\ Cur(r) # New(p)
          /\ New(r) # Cur(p) /\ New(r) # New(p)
    BY TabNames
  <2>2. \A r \in Processes : r # p =>
          tab'[Cur(r)] = tab[Cur(r)] /\ tab'[New(r)] = tab[New(r)]
    BY <1>18, <1>20, <2>1
  <2> QED
    BY <1>1, <1>3, <1>9, <1>15, <1>21, <1>22, <2>2
       DEF Private, Untouched, NoJob
<1>25. Counted'
  <2>1. PICK g, h : g = tab /\ h = tab'
    OBVIOUS
  <2>2. TabsFinite(g) /\ IsFiniteSet(f[New(p)].nodes)
    BY <1>4, <1>18, <2>1, NoTableOK DEF Counted
  <2>3. /\ TabsFinite(f) /\ TabPages(g) \in Nat /\ TabPages(f) \in Nat
        /\ TabPages(f) + UsedBy(g[New(p)])
             = TabPages(g) + UsedBy(f[New(p)])
    BY <1>16, <1>18, <2>1, <2>2, TabCount
  <2>4. IsFiniteSet(h[Cur(p)].nodes)
    BY <1>12, <1>20, <2>1
  <2>5. /\ TabsFinite(h) /\ TabPages(h) \in Nat
        /\ TabPages(h) + UsedBy(f[Cur(p)])
             = TabPages(f) + UsedBy(h[Cur(p)])
    BY <1>16, <1>20, <2>1, <2>3, <2>4, TabCount
  <2>6. UsedBy(f[New(p)]) = 0 /\ UsedBy(g[New(p)]) = UsedBy(n)
        /\ UsedBy(f[Cur(p)]) = UsedBy(c) /\ UsedBy(h[Cur(p)]) = UsedBy(n)
    BY <1>1, <1>12, <1>18, <1>20, <2>1, NoTableOK
  <2>7. PICK u, v \in Nat : u = UsedBy(c) /\ v = UsedBy(n)
    BY <1>3, <1>7
  <2>8. TabPages(h) + u = TabPages(g)
    BY <2>3, <2>5, <2>6, <2>7
  <2>9. PICK x, y \in [Processes -> Jobs] : x = job /\ y = job'
    BY <1>4, <1>21 DEF MemType
  <2>10. JobsFinite(x) /\ \A r \in Processes : r # p => y[r] = x[r]
    BY <1>4, <1>21, <2>9 DEF Counted
  <2>11. /\ JobsFinite(y) /\ JobPages(x) \in Nat /\ JobPages(y) \in Nat
         /\ JobPages(y) + HeldBy(x[p]) = JobPages(x) + HeldBy(y[p])
    BY <2>10, JobCount
  <2>12. HeldBy(x[p]) = j.args /\ HeldBy(y[p]) = 0
    BY <1>1, <1>3, <1>9, <1>21, <2>9
  <2>13. Cardinality(frame) \in Nat /\ nfree \in Nat
         /\ nfree' = nfree + (u + j.args)
    BY <1>4, <1>15, <2>7, FS_CardinalityType DEF Counted, MemType
  <2>14. nfree + Cardinality(frame) + JobPages(x) + TabPages(g) = pages
    BY <1>4, <2>1, <2>9 DEF Counted
  <2>15. nfree' + Cardinality(frame) + JobPages(y) + TabPages(h) = pages
    BY <1>3, <2>3, <2>5, <2>8, <2>11, <2>12, <2>13, <2>14
  <2> QED
    BY <1>4, <1>15, <2>1, <2>5, <2>9, <2>11, <2>15 DEF Counted
<1>26. Well(p, k, W, NoTable, b, si, frame)
  <2>1. SizeOK(b, si)
    BY <1>11, <1>12, <1>14, MemConst DEF SizeOK
  <2>2. \A v \in UserPages :
          /\ si[v] = IF W.leaf[v] = None THEN "zero" ELSE W.leaf[v].c
          /\ W.leaf[v] # None => v < Up(b)
    BY <1>12, <1>14
  <2> QED
    BY <1>3, <1>9, <1>12, <2>1, <2>2, IdleWell
<1>27. Well(p, job'[p], tab'[Cur(p)], tab'[New(p)], sz'[p], image'[p],
            frame')
  BY <1>15, <1>20, <1>21, <1>22, <1>26
<1> QED
  BY <1>23, <1>24, <1>25, <1>27, PrivateInv
-----------------------------------------------------------------------------
\* A step of p in the table that its operation fills, which goes on.
GoesOn(p, k, T) ==
  /\ k \in Jobs /\ job' = [job EXCEPT ![p] = k]
  /\ T \in PageTables /\ IsFiniteSet(T.nodes)
  /\ tab' = [tab EXCEPT ![job[p].t] = T]
  /\ pages' = pages /\ nfree' \in Nat /\ UNCHANGED <<sz, image>>
  /\ frame' \in SUBSET Processes /\ IsFiniteSet(frame')
  /\ \A r \in Processes : r # Child(p) => (r \in frame' <=> r \in frame)
  /\ nfree' + Cardinality(frame') + HeldBy(k) + UsedBy(T)
       = nfree + Cardinality(frame) + HeldBy(job[p]) + UsedBy(tab[job[p].t])

\* What must hold of its new state.
StaysOK(p, k, T) ==
  /\ k.op = job[p].op /\ k.op # "none" /\ k.t = job[p].t /\ JobShape(p, k)
  /\ Mapping(k) =>
       FillOK(k, T, IF k.t = Cur(p) THEN T ELSE tab[Cur(p)], sz[p])
  /\ KernelOnly(T) /\ (k.pc = "root" => T = NoTable)
  /\ k.op = "exec" => Mapping(k) \/ T = NoTable
  /\ k.op \in {"boot", "fork"} => (Child(p) \in frame' <=> k.pc # "frame")
  /\ k.op \in {"exec", "grow", "fault"} => Child(p) \in frame'
  /\ k.op = "fork" /\ k.pc = "frame" => T = NoTable
  /\ k.t = Cur(p) => ImageOK(k, T, sz[p], image[p])
  /\ Reach(k, sz[p]) = Reach(job[p], sz[p])
  /\ k.op = "boot" => k.pc # "frame"

LEMMA GoesOnInv ==
  ASSUME MemInv, NEW p \in Processes, NEW k, NEW T, GoesOn(p, k, T),
         StaysOK(p, k, T)
  PROVE  MemInv'
<1>1. PICK j, c, n, s, im : /\ j = job[p] /\ n = tab[New(p)]
                            /\ c = tab[Cur(p)] /\ s = sz[p] /\ im = image[p]
  OBVIOUS
<1>2. MemType /\ Counted /\ ProcOK(p)
  BY DEF MemInv
<1>3. j \in Jobs /\ JobShape(p, j) /\ k.op = j.op /\ j.op # "none"
      /\ k.t = j.t
  BY <1>1, <1>2 DEF MemType, ProcOK, JobsOK, StaysOK
<1>4. j.op \in Ops
  BY <1>3 DEF Jobs
<1>5. ~IsKid(p)
  BY <1>1, <1>3, NotKid
<1>6. CASE j.op # "fork"
  <2>1. PICK a : a = j.t
    OBVIOUS
  <2>2. /\ j.op = "exec" => a = New(p)
        /\ j.op # "exec" => a = Cur(p)
    BY <1>3, <1>4, <1>6, <2>1 DEF JobShape, Ops
  <2>3. Child(p) = p
    BY <1>1, <2>1, <2>2, TabNames DEF Child
  <2>4. OnlyOwn(p, a, k, T)
    <3>1. /\ sz' \in [Processes -> Nat]
          /\ image' \in [Processes -> [VPages -> Contents]]
          /\ \A r \in Processes : r # p =>
               sz'[r] = sz[r] /\ image'[r] = image[r]
      BY <1>2 DEF MemType, GoesOn
    <3>2. a \in {Cur(p), New(p)}
      BY <2>2
    <3> QED
      BY <1>1, <1>3, <1>5, <1>6, <2>1, <2>3, <3>1, <3>2 DEF OnlyOwn, GoesOn
  <2>5. Well(p, j, c, n, s, im, frame)
    BY <1>1, <1>5, <1>6, WellNow
  <2>6. sz'[p] = s /\ image'[p] = im
    BY <1>1 DEF GoesOn
  <2>7. CASE j.op = "exec"
    <3>1. Well(p, k, c, T, s, im, frame')
      <4>1. ImageOK(k, c, s, im)
        BY <1>1, <2>5 DEF Well, ImageOK, StaysOK
      <4>2. Filled(k, c, T) = T
        BY <1>3, <2>7 DEF Filled
      <4>3. k.t # Cur(p)
        BY <1>3, <2>1, <2>2, <2>7, TabNames
      <4>4. Mapping(k) => FillOK(k, T, c, s)
        BY <1>1, <4>3 DEF StaysOK
      <4>5. p \in frame'
        BY <1>3, <2>3, <2>7 DEF StaysOK
      <4> QED
        BY <1>3, <2>5, <2>7, <4>1, <4>2, <4>4, <4>5 DEF Well, StaysOK
    <3> QED
      BY <1>1, <2>2, <2>4, <2>6, <2>7, <3>1, TabNames, OnlyOwnInv
  <2>8. CASE j.op # "exec"
    <3>1. Well(p, k, T, n, s, im, frame')
      <4>1. k.t = Cur(p)
        BY <1>3, <2>1, <2>2, <2>8
      <4>2. ImageOK(k, T, s, im) /\ (Mapping(k) => FillOK(k, T, T, s))
        BY <1>1, <4>1 DEF StaysOK
      <4>3. Filled(k, T, n) = T /\ n = NoTable
        BY <1>3, <2>5, <2>8 DEF Filled, Well
      <4>4. p \in frame' /\ (k.op = "boot" => k.pc # "frame")
        BY <1>3, <1>4, <1>6, <2>3, <2>8 DEF StaysOK, Ops
      <4> QED
        BY <1>3, <1>6, <2>5, <2>8, <4>2, <4>3, <4>4 DEF Well, StaysOK
    <3> QED
      BY <1>1, <2>2, <2>4, <2>6, <2>8, <3>1, TabNames, OnlyOwnInv
  <2> QED
    BY <2>7, <2>8
<1>7. CASE j.op = "fork"
  <2>1. PICK q \in Processes :
          /\ q # p /\ Child(p) = q /\ j.t = Cur(q)
          /\ job[q].op = "none" /\ sz[q] = 0 /\ image[q] = Image0
          /\ \A r \in Processes :
               r # p /\ job[r].op = "fork" => job[r].t # Cur(q)
          /\ Parent(p, q, j, tab[Cur(q)], c, n, s, im, frame)
    BY <1>1, <1>7, ParentNow
  <2>2. /\ job' \in [Processes -> Jobs] /\ job'[p] = k
        /\ \A r \in Processes : r # p => job'[r] = job[r]
    BY <1>2 DEF MemType, GoesOn
  <2>3. Cur(q) \in Tables
    BY TabNames
  <2>4. /\ tab' \in [Tables -> PageTables] /\ tab'[Cur(q)] = T
        /\ \A x \in Tables : x # Cur(q) => tab'[x] = tab[x]
    BY <1>1, <1>2, <2>1, <2>3 DEF MemType, GoesOn
  <2>5. MemType'
    BY <1>2, <2>2, <2>4 DEF MemType, GoesOn
  <2>6. Balanced(p, Cur(q))
    BY <1>1, <2>1, <2>2, <2>4 DEF Balanced, GoesOn
  <2>7. Counted'
    BY <1>2, <2>3, <2>5, <2>6, CountStep
  <2>8. \A r \in Processes :
          /\ Cur(r) \in Tables /\ New(r) \in Tables /\ New(r) # Cur(q)
          /\ r # q => Cur(r) # Cur(q)
    BY TabNames
  <2>9. \A r \in Processes : /\ tab'[New(r)] = tab[New(r)]
                             /\ r # q => tab'[Cur(r)] = tab[Cur(r)]
    BY <2>4, <2>8
  <2>10. Forks(p, q)
    <3>1. \A r \in Processes : r # p /\ r # q => Untouched(r)
      BY <2>1, <2>2, <2>9 DEF Untouched, GoesOn
    <3> QED
      BY <1>1, <1>3, <1>5, <1>7, <2>1, <2>2, <3>1 DEF Forks
  <2>11. Parent(p, q, k, T, c, n, s, im, frame')
    <3>1. k.t = Cur(q) /\ k.t # Cur(p)
      BY <1>3, <2>1, TabNames
    <3>2. Mapping(k) => FillOK(k, T, c, s)
      BY <1>1, <3>1 DEF StaysOK
    <3>3. ImageOK(k, c, s, im)
      BY <1>1, <2>1 DEF Parent, ImageOK, StaysOK
    <3>4. q \in frame' <=> k.pc # "frame"
      BY <1>3, <1>7, <2>1 DEF StaysOK
    <3>5. q \notin frame' => T = NoTable
      BY <1>3, <1>7, <3>4 DEF StaysOK
    <3>6. p \in frame'
      BY <2>1 DEF Parent, GoesOn
    <3> QED
      BY <1>3, <1>7, <2>1, <3>1, <3>2, <3>3, <3>4, <3>5, <3>6
         DEF Parent, StaysOK
  <2>12. Parent(p, q, job'[p], tab'[Cur(q)], tab'[Cur(p)], tab'[New(p)],
                sz'[p], image'[p], frame')
    BY <1>1, <2>1, <2>2, <2>4, <2>9, <2>11 DEF GoesOn
  <2>13. sz' = sz /\ image' = image /\ job'[p].op = "fork"
    BY <1>3, <1>7, <2>2 DEF GoesOn
  <2> QED
    BY <2>1, <2>5, <2>7, <2>9, <2>10, <2>12, <2>13, ParentInv
<1> QED
  BY <1>6, <1>7
-----------------------------------------------------------------------------
\* The operation of p and the table it fills.
LEMMA TargetNow ==
  ASSUME MemInv, NEW p \in Processes, job[p].op # "none", NEW j, NEW t,
         j = job[p], t = tab[j.t]
  PROVE  /\ j \in Jobs /\ JobShape(p, j) /\ j.t \in Tables
         /\ t \in PageTables /\ IsFiniteSet(t.nodes) /\ UsedBy(t) \in Nat
         /\ KernelOnly(t) /\ Child(p) \in Processes
         /\ Mapping(j) => FillOK(j, t, tab[Cur(p)], sz[p])
         /\ j.t = Cur(p) => ImageOK(j, t, sz[p], image[p])
         /\ j.pc = "root" => t = NoTable
         /\ j.op \in {"boot", "fork"} =>
              /\ Child(p) \in frame <=> j.pc # "frame"
              /\ Child(p) \notin frame => t = NoTable
         /\ j.op \in {"exec", "grow", "fault"} => Child(p) \in frame
         /\ j.op # "fork" => Child(p) = p
         /\ j.op = "fork" => j.t = Cur(Child(p)) /\ Child(p) # p
         /\ j.op = "exec" => Mapping(j) \/ t = NoTable
         /\ nfree \in Nat /\ IsFiniteSet(frame) /\ frame \in SUBSET Processes
         /\ Cardinality(frame) \in Nat /\ j.args \in Nat /\ j.op \in Ops
         /\ pages \in Nat
<1>1. MemType /\ Counted /\ ProcOK(p)
  BY DEF MemInv
<1>2. /\ j \in Jobs /\ JobShape(p, j) /\ j.op # "none" /\ j.op \in Ops
      /\ j.args \in Nat
  BY <1>1 DEF MemType, ProcOK, JobsOK, Jobs
<1>3. j.t \in Tables /\ Child(p) \in Processes
  BY <1>2, TargetOK DEF Child
<1>4. t \in PageTables /\ IsFiniteSet(t.nodes) /\ UsedBy(t) \in Nat
  BY <1>1, <1>3, TabFinite DEF MemType
<1>5. /\ j.op = "exec" => j.t = New(p)
      /\ j.op = "fork" => j.t = Cur(Child(p)) /\ Child(p) # p
      /\ j.op \in {"boot", "grow", "fault"} => j.t = Cur(p)
  BY <1>2 DEF JobShape, Child
<1>6. j.op # "fork" => Child(p) = p
  BY <1>2, <1>5, TabNames DEF Child, Ops
<1>7. PICK q \in Processes : q = Child(p)
  BY <1>3
<1>8. ProcOK(q)
  BY DEF MemInv
<1>9. KernelOnly(t)
  BY <1>1, <1>2, <1>5, <1>7, <1>8 DEF ProcOK, KernelsOK, Ops
<1>10. Mapping(j) => FillOK(j, t, tab[Cur(p)], sz[p])
  BY <1>1 DEF ProcOK, FillsOK
<1>11. j.t = Cur(p) => ImageOK(j, t, sz[p], image[p])
  BY <1>1, <1>2, NotKid DEF ProcOK, HoldsImage
<1>12. j.pc = "root" => t = NoTable
  BY <1>1 DEF ProcOK, AbsentOK
<1>13. j.op = "fork" => /\ q \in frame <=> j.pc # "frame"
                        /\ q \notin frame => t = NoTable
  BY <1>1, <1>5, <1>7, <1>8 DEF ProcOK, KidOK, AbsentOK
<1>14. j.op = "boot" => /\ q \in frame <=> j.pc # "frame"
                        /\ q \notin frame => t = NoTable
  BY <1>1, <1>5, <1>6, <1>7 DEF ProcOK, AbsentOK
<1>15. j.op \in {"exec", "grow", "fault"} => q \in frame
  BY <1>1, <1>6, <1>7 DEF ProcOK, AbsentOK
<1>16. j.op = "exec" => Mapping(j) \/ t = NoTable
  BY <1>1, <1>5 DEF ProcOK, AbsentOK
<1>17. /\ nfree \in Nat /\ IsFiniteSet(frame) /\ frame \in SUBSET Processes
       /\ Cardinality(frame) \in Nat /\ pages \in Nat
  BY <1>1, FS_CardinalityType DEF MemType, Counted
<1> QED
  BY <1>2, <1>3, <1>4, <1>5, <1>6, <1>7, <1>9, <1>10, <1>11, <1>12, <1>13,
     <1>14, <1>15, <1>16, <1>17

LEMMA FillOther ==
  ASSUME NEW j, NEW t, NEW c, NEW d, NEW s, j.op # "fork",
         FillOK(j, t, c, s)
  PROVE  FillOK(j, t, d, s)
  BY DEF FillOK

\* Which operations go through the steps.
LEMMA StepOp ==
  ASSUME MemInv, NEW p \in Processes,
         job[p].pc \in {"frame", "root", "page", "walk"}
  PROVE  job[p].op # "none"
  BY DEF MemInv, ProcOK, JobsOK, JobShape

LEMMA FrameInv ==
  ASSUME MemInv, NEW p \in Processes, AllocFrame(p), nfree # 0
  PROVE  MemInv'
<1>1. PICK j, t, q : j = job[p] /\ t = tab[j.t] /\ q = Child(p)
  OBVIOUS
<1>2. j.pc = "frame" /\ j.op # "none"
  BY <1>1, StepOp DEF AllocFrame, At
<1>3. /\ j \in Jobs /\ JobShape(p, j) /\ j.t \in Tables
      /\ t \in PageTables /\ IsFiniteSet(t.nodes) /\ UsedBy(t) \in Nat
      /\ KernelOnly(t) /\ q \in Processes
      /\ j.t = Cur(p) => ImageOK(j, t, sz[p], image[p])
      /\ j.op \in {"boot", "fork"} =>
           /\ q \in frame <=> j.pc # "frame"
           /\ q \notin frame => t = NoTable
      /\ nfree \in Nat /\ IsFiniteSet(frame) /\ frame \in SUBSET Processes
      /\ Cardinality(frame) \in Nat /\ j.args \in Nat
  BY <1>1, <1>2, TargetNow
<1>4. j.op \in {"boot", "fork"}
  BY <1>2, <1>3 DEF JobShape
<1>5. q \notin frame /\ t = NoTable
  BY <1>2, <1>3, <1>4
<1>6. PICK k : k = [j EXCEPT !.pc = "root"]
  OBVIOUS
<1>7. k \in Jobs /\ k.pc = "root" /\ SameOp(j, k) /\ k.todo = j.todo
      /\ k.t = j.t /\ k.args = j.args /\ k.op = j.op
  BY <1>3, <1>6 DEF Jobs, JobPcs, SameOp
<1>8. /\ nfree' = nfree - 1 /\ nfree > 0 /\ frame' = frame \cup {q}
      /\ job' = [job EXCEPT ![p] = k]
      /\ tab' = tab /\ UNCHANGED <<pages, sz, image>>
  BY <1>1, <1>6 DEF AllocFrame, Kalloc, Go
<1>9. IsFiniteSet(frame') /\ Cardinality(frame') = Cardinality(frame) + 1
  BY <1>3, <1>5, <1>8, FS_AddElement
<1>10. HeldBy(k) = j.args /\ HeldBy(j) = j.args
  BY <1>2, <1>3, <1>7 DEF HeldBy, HandFull
<1>11. GoesOn(p, k, t)
  <2>1. tab' = [tab EXCEPT ![job[p].t] = t]
    BY <1>1, <1>3, <1>8 DEF MemInv, MemType
  <2>2. nfree' \in Nat
    BY <1>3, <1>8
  <2>3. nfree' + Cardinality(frame') + HeldBy(k) + UsedBy(t)
          = nfree + Cardinality(frame) + HeldBy(j) + UsedBy(t)
    <3>1. PICK f, u, a : f = Cardinality(frame) /\ u = UsedBy(t) /\ a = j.args
      OBVIOUS
    <3>2. (nfree - 1) + (f + 1) + a + u = nfree + f + a + u
      BY <1>3, <3>1
    <3> QED
      BY <1>8, <1>9, <1>10, <3>1, <3>2
  <2> QED
    BY <1>1, <1>3, <1>7, <1>8, <1>9, <2>1, <2>2, <2>3 DEF GoesOn
<1>12. StaysOK(p, k, t)
  <2>1. JobShape(p, k) /\ ~Mapping(k)
    BY <1>2, <1>3, <1>4, <1>7 DEF JobShape, Mapping, Fresh, SameOp
  <2>2. q \in frame'
    BY <1>8
  <2>3. k.t = Cur(p) => ImageOK(k, t, sz[p], image[p])
    BY <1>3, <1>7 DEF ImageOK, Reach, SameOp
  <2>4. Reach(k, sz[p]) = Reach(j, sz[p])
    BY <1>7 DEF Reach, SameOp
  <2> QED
    BY <1>1, <1>2, <1>3, <1>4, <1>5, <1>7, <2>1, <2>2, <2>3, <2>4
       DEF StaysOK
<1> QED
  BY <1>11, <1>12, GoesOnInv

LEMMA TopThere == Top \in NodeSet
<1>1. LEVELS - 1 \in 0 .. LEVELS - 1
  BY MemoryAssumption
<1>2. 0 \in VPages
  BY MemConst DEF VPages
<1> QED
  BY <1>1, <1>2 DEF NodeSet, Top

LEMMA RootInv ==
  ASSUME MemInv, NEW p \in Processes, AllocRoot(p), nfree # 0
  PROVE  MemInv'
<1>1. PICK j, t, q : j = job[p] /\ t = tab[j.t] /\ q = Child(p)
  OBVIOUS
<1>2. j.pc = "root" /\ j.op # "none"
  BY <1>1, StepOp DEF AllocRoot, At
<1>3. /\ j \in Jobs /\ JobShape(p, j) /\ j.t \in Tables
      /\ t = NoTable /\ q \in Processes
      /\ j.t = Cur(p) => ImageOK(j, t, sz[p], image[p])
      /\ j.op \in {"boot", "fork"} => q \in frame
      /\ j.op \in {"exec", "grow", "fault"} => q \in frame
      /\ nfree \in Nat /\ IsFiniteSet(frame) /\ frame \in SUBSET Processes
      /\ Cardinality(frame) \in Nat /\ j.args \in Nat
  BY <1>1, <1>2, TargetNow
<1>4. Fresh(j.op) /\ j.seg = 0 /\ j.sz = 0
  BY <1>2, <1>3 DEF JobShape, Mapping
<1>5. PICK T : T = [t EXCEPT !.nodes = {Top}]
  OBVIOUS
<1>6. T \in PageTables /\ T.nodes = {Top} /\ T.leaf = NoTable.leaf
  <2>1. Top \in NodeSet /\ NoTable \in PageTables
    BY TopThere, NoTableOK
  <2> QED
    BY <1>3, <1>5, <2>1 DEF PageTables
<1>7. \A v \in VPages : T.leaf[v] = None
  BY <1>6, NoTableOK
<1>8. IsFiniteSet(T.nodes) /\ UsedBy(T) = 1 /\ KernelOnly(T) /\ NoUser(T)
  <2>1. IsFiniteSet({Top}) /\ Cardinality({Top}) = 1
    BY FS_Singleton
  <2>2. Mapped(T) \cap UserPages = {}
    BY <1>7 DEF Mapped
  <2>3. UsedBy(T) = 1
    BY <1>6, <2>1, <2>2, FS_EmptySet DEF UsedBy
  <2>4. KernelOnly(T) /\ NoUser(T)
    BY <1>6, NoTableOK DEF KernelOnly, NoUser
  <2> QED
    BY <1>6, <2>1, <2>3, <2>4
<1>9. PICK V : V = {TRAMPOLINE, TRAPFRAME}
  OBVIOUS
<1>10. PICK k : k = [j EXCEPT !.pc = "page", !.todo = V]
  OBVIOUS
<1>11. V \in SUBSET VPages /\ Special(V)
  BY <1>9, MemConst DEF Special
<1>12. k \in Jobs /\ k.pc = "page" /\ SameOp(j, k) /\ k.todo = V
       /\ k.t = j.t /\ k.args = j.args /\ k.op = j.op
  BY <1>3, <1>10, <1>11 DEF Jobs, JobPcs, SameOp
<1>13. /\ nfree' = nfree - 1 /\ nfree > 0 /\ frame' = frame
       /\ job' = [job EXCEPT ![p] = k] /\ tab' = [tab EXCEPT ![j.t] = T]
       /\ UNCHANGED <<pages, sz, image>>
  BY <1>1, <1>5, <1>9, <1>10 DEF AllocRoot, Kalloc, Go
<1>14. HeldBy(k) = j.args /\ HeldBy(j) = j.args
  BY <1>2, <1>3, <1>12 DEF HeldBy, HandFull
<1>15. GoesOn(p, k, T)
  <2>1. nfree' \in Nat
    BY <1>3, <1>13
  <2>2. nfree' + Cardinality(frame') + HeldBy(k) + UsedBy(T)
          = nfree + Cardinality(frame) + HeldBy(j) + UsedBy(t)
    <3>1. UsedBy(t) = 0
      BY <1>3, NoTableOK
    <3>2. PICK f, a : f = Cardinality(frame) /\ a = j.args
      OBVIOUS
    <3>3. (nfree - 1) + f + a + 1 = nfree + f + a + 0
      BY <1>3, <3>2
    <3> QED
      BY <1>8, <1>13, <1>14, <3>1, <3>2, <3>3
  <2> QED
    BY <1>1, <1>3, <1>6, <1>8, <1>12, <1>13, <2>1, <2>2 DEF GoesOn
<1>16. StaysOK(p, k, T)
  <2>1. JobShape(p, k) /\ Mapping(k)
    BY <1>2, <1>3, <1>4, <1>12 DEF JobShape, Mapping, Fresh, SameOp
  <2>2. k.t = Cur(p) => ImageOK(k, T, sz[p], image[p])
    BY <1>3, <1>6, <1>12 DEF ImageOK, Reach, SameOp
  <2>3. Reach(k, sz[p]) = Reach(j, sz[p])
    BY <1>12 DEF Reach, SameOp
  <2>4. Fresh(k.op) /\ k.seg = 0 /\ k.sz = 0
    BY <1>4, <1>12 DEF SameOp
  <2>5. TodoOK(k, T)
    <3>1. \A v \in UserPages : T.leaf[v] = None
      BY <1>7, MemConst
    <3> QED
      BY <1>7, <1>8, <1>11, <1>12, <2>4, <3>1 DEF TodoOK
  <2>6. k.op = "exec" => ExecOK(k, T)
    <3> SUFFICES ASSUME k.op = "exec" PROVE ExecOK(k, T)
      OBVIOUS
    <3>1. k.prog \in Seq(Segments)
      BY <1>12 DEF Jobs
    <3>2. Len(k.prog) \in Nat
      BY <3>1
    <3>3. ExecTop(k) = 0
      BY <2>4, <3>2 DEF ExecTop, Loaded
    <3>4. k.todo \cap UserPages = {}
      BY <1>9, <1>12, MemConst
    <3>5. \A v \in UserPages : T.leaf[v] = None /\ ~(v < 0)
      BY <1>7, MemConst
    <3>6. 1 .. k.seg - 1 = {}
      BY <2>4
    <3> QED
      BY <2>4, <3>2, <3>3, <3>4, <3>5, <3>6 DEF ExecOK
  <2>7. \A c : k.op = "fork" => ForkOK(k, T, c)
    BY <2>4 DEF ForkOK
  <2>8. k.op \notin {"grow", "fault"}
    BY <2>4 DEF Fresh
  <2>9. \A c : FillOK(k, T, c, sz[p])
    BY <2>5, <2>6, <2>7, <2>8 DEF FillOK
  <2> QED
    BY <1>1, <1>2, <1>3, <1>4, <1>8, <1>12, <1>13, <2>1, <2>2, <2>3, <2>9
       DEF StaysOK, Fresh
<1> QED
  BY <1>15, <1>16, GoesOnInv
-----------------------------------------------------------------------------
\* The page that is next: one of the user, or one of the two above.
NextIs(j, t, va) ==
  /\ va \in VPages /\ va \in j.todo /\ t.leaf[va] = None
  /\ Fixed(va) <=> va \notin UserPages
  /\ Fixed(va) => /\ Fresh(j.op) /\ j.seg = 0 /\ j.sz = 0
                  /\ NoUser(t) /\ ~(j.todo \subseteq UserPages)
  /\ ~Fixed(va) => /\ j.todo \subseteq UserPages
                   /\ ~(Fresh(j.op) /\ j.seg = 0)

LEMMA NextPage ==
  ASSUME NEW j \in Jobs, NEW t, NEW va, va \in Lowest(j.todo), NEW c, NEW s,
         FillOK(j, t, c, s)
  PROVE  NextIs(j, t, va)
<1>1. va \in j.todo /\ va \in VPages /\ j.todo \subseteq VPages
  BY DEF Lowest, Jobs
<1>2. Fixed(va) <=> va \notin UserPages
  BY <1>1, MemConst
<1>3. TodoOK(j, t)
  BY DEF FillOK
<1>4. t.leaf[va] = None
  BY <1>1, <1>3 DEF TodoOK
<1>5. CASE Fixed(va)
  <2>1. ~(j.todo \subseteq UserPages)
    BY <1>1, <1>2, <1>5
  <2>2. Fresh(j.op) /\ j.seg = 0 /\ NoUser(t) /\ j.sz = 0
    BY <1>3, <2>1 DEF TodoOK
  <2> QED
    BY <1>1, <1>2, <1>4, <1>5, <2>1, <2>2 DEF NextIs
<1>6. CASE ~Fixed(va)
  <2>1. ~(Fresh(j.op) /\ j.seg = 0)
    BY <1>1, <1>2, <1>3, <1>6, MemConst DEF TodoOK, Special
  <2>2. j.todo \subseteq UserPages
    BY <1>3, <2>1 DEF TodoOK
  <2> QED
    BY <1>1, <1>2, <1>4, <1>6, <2>1, <2>2 DEF NextIs
<1> QED
  BY <1>5, <1>6

\* An operation that goes on to map pages with the same table.
LEMMA PageInv ==
  ASSUME MemInv, NEW p \in Processes, NEW va, AllocPage(p, va),
         Fixed(va) \/ nfree # 0
  PROVE  MemInv'
<1>1. PICK j, t, q : j = job[p] /\ t = tab[j.t] /\ q = Child(p)
  OBVIOUS
<1>2. j.pc = "page" /\ j.op # "none" /\ va \in Lowest(j.todo)
  BY <1>1, StepOp DEF AllocPage, At
<1>3. /\ j \in Jobs /\ JobShape(p, j) /\ j.t \in Tables
      /\ t \in PageTables /\ IsFiniteSet(t.nodes) /\ UsedBy(t) \in Nat
      /\ KernelOnly(t) /\ q \in Processes
      /\ Mapping(j) => FillOK(j, t, tab[Cur(p)], sz[p])
      /\ j.t = Cur(p) => ImageOK(j, t, sz[p], image[p])
      /\ j.op \in {"boot", "fork"} => q \in frame
      /\ j.op \in {"exec", "grow", "fault"} => q \in frame
      /\ nfree \in Nat /\ IsFiniteSet(frame) /\ frame \in SUBSET Processes
      /\ Cardinality(frame) \in Nat /\ j.args \in Nat /\ j.op \in Ops
  BY <1>1, <1>2, TargetNow
<1>4. FillOK(j, t, tab[Cur(p)], sz[p])
  BY <1>2, <1>3 DEF Mapping
<1>5. NextIs(j, t, va)
  BY <1>2, <1>3, <1>4, NextPage
<1>6. PICK k : k = [j EXCEPT !.pc = "walk"]
  OBVIOUS
<1>7. k \in Jobs /\ k.pc = "walk" /\ SameOp(j, k) /\ k.todo = j.todo
      /\ k.t = j.t /\ k.args = j.args /\ k.op = j.op
  BY <1>3, <1>6 DEF Jobs, JobPcs, SameOp
<1>8. /\ nfree' \in Nat /\ nfree' + HeldBy(k) = nfree + HeldBy(j)
      /\ HeldBy(k) \in Nat /\ HeldBy(j) \in Nat
      /\ frame' = frame /\ tab' = tab /\ job' = [job EXCEPT ![p] = k]
      /\ UNCHANGED <<pages, sz, image>>
  <2>1. HeldBy(j) = j.args
    BY <1>2, <1>3 DEF HeldBy, HandFull
  <2>2. CASE Fixed(va)
    <3>1. HeldBy(k) = j.args
      BY <1>3, <1>5, <1>7, <2>2 DEF HeldBy, HandFull, NextIs
    <3>2. /\ nfree' = nfree /\ frame' = frame /\ tab' = tab
          /\ job' = [job EXCEPT ![p] = k] /\ UNCHANGED <<pages, sz, image>>
      BY <1>1, <1>6, <2>2 DEF AllocPage, Go
    <3> QED
      BY <1>3, <2>1, <3>1, <3>2
  <2>3. CASE ~Fixed(va)
    <3>1. HeldBy(k) = 1 + j.args
      BY <1>3, <1>5, <1>7, <2>3 DEF HeldBy, HandFull, NextIs
    <3>2. /\ nfree > 0 /\ nfree' = nfree - 1 /\ frame' = frame
          /\ tab' = tab /\ job' = [job EXCEPT ![p] = k]
          /\ UNCHANGED <<pages, sz, image>>
      BY <1>1, <1>6, <2>3 DEF AllocPage, Go, Kalloc
    <3> QED
      BY <1>3, <2>1, <3>1, <3>2
  <2> QED
    BY <2>2, <2>3
<1>9. GoesOn(p, k, t)
  <2>1. tab' = [tab EXCEPT ![job[p].t] = t]
    BY <1>1, <1>3, <1>8 DEF MemInv, MemType
  <2>2. nfree' + Cardinality(frame') + HeldBy(k) + UsedBy(t)
          = nfree + Cardinality(frame) + HeldBy(j) + UsedBy(t)
    <3>1. PICK f, u, a, b, m, n \in Nat :
            /\ f = Cardinality(frame) /\ u = UsedBy(t) /\ a = HeldBy(k)
            /\ b = HeldBy(j) /\ m = nfree' /\ n = nfree
      BY <1>3, <1>8
    <3>2. m + a = n + b
      BY <1>8, <3>1
    <3>3. m + f + a + u = n + f + b + u
      BY <3>2
    <3> QED
      BY <1>8, <3>1, <3>3
  <2> QED
    BY <1>1, <1>3, <1>7, <1>8, <2>1, <2>2 DEF GoesOn
<1>10. StaysOK(p, k, t)
  <2>1. JobShape(p, k) /\ Mapping(k)
    BY <1>2, <1>3, <1>7 DEF JobShape, Mapping, Fresh, SameOp
  <2>2. k.t = Cur(p) => ImageOK(k, t, sz[p], image[p])
    BY <1>3, <1>7 DEF ImageOK, Reach, SameOp
  <2>3. Reach(k, sz[p]) = Reach(j, sz[p])
    BY <1>7 DEF Reach, SameOp
  <2>4. FillOK(k, t, tab[Cur(p)], sz[p])
    BY <1>4, <1>7, FillSame
  <2>5. k.t = Cur(p) => t = tab[Cur(p)]
    BY <1>1, <1>7
  <2> QED
    BY <1>1, <1>2, <1>3, <1>7, <1>8, <2>1, <2>2, <2>3, <2>4, <2>5
       DEF StaysOK
<1> QED
  BY <1>9, <1>10, GoesOnInv

\* walk() adds a table.
LEMMA NodeInv ==
  ASSUME MemInv, NEW p \in Processes, NEW va \in VPages, At(p, "walk"),
         NEW l \in 0 .. LEVELS - 1,
         va \in Lowest(job[p].todo), nfree > 0, nfree' = nfree - 1,
         Node(l, va) \notin tab[job[p].t].nodes,
         tab' = [tab EXCEPT ![job[p].t].nodes = @ \cup {Node(l, va)}],
         UNCHANGED <<frame, job, pages, sz, image>>
  PROVE  MemInv'
<1>1. PICK j, t, q, x : /\ j = job[p] /\ t = tab[j.t] /\ q = Child(p)
                        /\ x = Node(l, va)
  OBVIOUS
<1>2. j.pc = "walk" /\ j.op # "none"
  BY <1>1, StepOp DEF At
<1>3. /\ j \in Jobs /\ JobShape(p, j) /\ j.t \in Tables
      /\ t \in PageTables /\ IsFiniteSet(t.nodes) /\ UsedBy(t) \in Nat
      /\ KernelOnly(t) /\ q \in Processes
      /\ Mapping(j) => FillOK(j, t, tab[Cur(p)], sz[p])
      /\ j.t = Cur(p) => ImageOK(j, t, sz[p], image[p])
      /\ j.op \in {"boot", "fork"} => q \in frame
      /\ j.op \in {"exec", "grow", "fault"} => q \in frame
      /\ nfree \in Nat /\ IsFiniteSet(frame) /\ frame \in SUBSET Processes
      /\ Cardinality(frame) \in Nat /\ j.args \in Nat /\ j.op \in Ops
  BY <1>1, <1>2, TargetNow
<1>4. FillOK(j, t, tab[Cur(p)], sz[p]) /\ Mapping(j)
  BY <1>2, <1>3 DEF Mapping
<1>5. PICK N : N = t.nodes \cup {x}
  OBVIOUS
<1>6. PICK T : T = [t EXCEPT !.nodes = N]
  OBVIOUS
<1>7. x \in NodeSet /\ x \notin t.nodes
  BY <1>1 DEF NodeSet
<1>8. T \in PageTables /\ T.nodes = N /\ T.leaf = t.leaf
  <2>1. N \in SUBSET NodeSet
    BY <1>3, <1>5, <1>7 DEF PageTables
  <2> QED
    BY <1>3, <1>6, <2>1 DEF PageTables
<1>9. tab' = [tab EXCEPT ![j.t] = T]
  BY <1>1, <1>5, <1>6
<1>10. IsFiniteSet(N) /\ Cardinality(N) = Cardinality(t.nodes) + 1
       /\ Cardinality(t.nodes) \in Nat
  BY <1>3, <1>5, <1>7, FS_AddElement, FS_CardinalityType
<1>11. UsedBy(T) = UsedBy(t) + 1
  <2>1. Mapped(T) = Mapped(t)
    BY <1>8 DEF Mapped
  <2>2. Cardinality(Mapped(t) \cap UserPages) \in Nat
    BY UserFinite
  <2> QED
    BY <1>8, <1>10, <2>1, <2>2 DEF UsedBy
<1>12. HeldBy(j) \in Nat
  BY <1>3 DEF HeldBy
<1>13. GoesOn(p, j, T)
  <2>1. job' = [job EXCEPT ![p] = j]
    BY <1>1 DEF MemInv, MemType
  <2>2. nfree' + Cardinality(frame') + HeldBy(j) + UsedBy(T)
          = nfree + Cardinality(frame) + HeldBy(j) + UsedBy(t)
    <3>1. PICK f, u, b : /\ f = Cardinality(frame) /\ u = UsedBy(t)
                         /\ b = HeldBy(j)
      OBVIOUS
    <3>2. (nfree - 1) + f + b + (u + 1) = nfree + f + b + u
      BY <1>3, <1>12, <3>1
    <3> QED
      BY <1>11, <3>1, <3>2
  <2>3. nfree' \in Nat
    BY <1>3
  <2> QED
    BY <1>1, <1>3, <1>8, <1>9, <1>10, <2>1, <2>2, <2>3 DEF GoesOn
<1>14. StaysOK(p, j, T)
  <2>1. j.t = Cur(p) => ImageOK(j, T, sz[p], image[p])
    BY <1>3, <1>8 DEF ImageOK
  <2>2. FillOK(j, T, tab[Cur(p)], sz[p])
    BY <1>4, <1>8, FillSame DEF SameOp
  <2>3. j.t = Cur(p) => j.op # "fork"
    BY <1>1, <1>2, TargetNow, TabNames
  <2>4. FillOK(j, T, IF j.t = Cur(p) THEN T ELSE tab[Cur(p)], sz[p])
    BY <2>2, <2>3, FillOther
  <2>5. KernelOnly(T)
    BY <1>3, <1>8 DEF KernelOnly
  <2> QED
    BY <1>1, <1>2, <1>3, <1>4, <2>1, <2>4, <2>5 DEF StaysOK
<1> QED
  BY <1>13, <1>14, GoesOnInv
-----------------------------------------------------------------------------
\* The entry that mappages() sets.
EntryOK(j, c, va, e) ==
  /\ e \in Ptes /\ e # None
  /\ Fixed(va) => ~e.u
  /\ va \in UserPages /\ j.op = "fork" => e = c.leaf[va]
  /\ va \in UserPages /\ j.op # "fork" => e.u /\ e.c = "zero"

LEMMA NewPteOK ==
  ASSUME MemInv, NEW p \in Processes, NEW va, NEW j \in Jobs, j = job[p],
         NEW t, NEW s, NextIs(j, t, va), FillOK(j, t, tab[Cur(p)], s)
  PROVE  EntryOK(j, tab[Cur(p)], va, NewPte(p, va))
<1>1. PICK e, c : e = NewPte(p, va) /\ c = tab[Cur(p)]
  OBVIOUS
<1>2. None.c = "none"
  BY DEF None, Pte
<1>3. CASE Fixed(va)
  <2>1. e = [c |-> "kernel", w |-> (va = TRAPFRAME), u |-> FALSE]
    BY <1>1, <1>3 DEF NewPte, Pte
  <2>2. e \in Ptes /\ e.c = "kernel" /\ ~e.u
    BY <2>1 DEF Ptes, Contents
  <2>3. va \notin UserPages
    BY <1>3 DEF NextIs
  <2> QED
    BY <1>1, <1>2, <1>3, <2>2, <2>3 DEF EntryOK
<1>4. CASE ~Fixed(va) /\ j.op = "fork"
  <2>1. e = c.leaf[va] /\ va \in UserPages /\ va \in j.todo /\ va \in VPages
    BY <1>1, <1>4 DEF NewPte, NextIs
  <2>2. j.seg = 1
    BY <1>4 DEF FillOK, ForkOK, NextIs, Fresh
  <2>3. c.leaf[va] # None
    BY <1>1, <1>4, <2>1, <2>2 DEF FillOK, ForkOK
  <2>4. c \in PageTables
    BY <1>1, TabNames DEF MemInv, MemType
  <2>5. e \in Ptes
    BY <2>1, <2>4 DEF PageTables
  <2> QED
    BY <1>1, <1>4, <2>1, <2>3, <2>5 DEF EntryOK
<1>5. CASE ~Fixed(va) /\ j.op # "fork"
  <2>1. PICK w : w = IF j.op = "exec" /\ j.seg <= Len(j.prog)
                     THEN j.prog[j.seg].w ELSE TRUE
    OBVIOUS
  <2>2. e = [c |-> "zero", w |-> w, u |-> TRUE]
    BY <1>1, <1>5, <2>1 DEF NewPte, Pte
  <2>3. w \in BOOLEAN
    <3>1. CASE j.op = "exec" /\ j.seg <= Len(j.prog)
      <4>1. j.seg \in Nat /\ j.prog \in Seq(Segments)
        BY DEF Jobs
      <4>2. j.seg # 0
        BY <1>5, <3>1 DEF NextIs, Fresh
      <4>3. j.seg \in 1 .. Len(j.prog)
        BY <3>1, <4>1, <4>2
      <4>4. j.prog[j.seg] \in Segments
        BY <4>1, <4>3
      <4> QED
        BY <2>1, <3>1, <4>4 DEF Segments
    <3>2. CASE ~(j.op = "exec" /\ j.seg <= Len(j.prog))
      BY <2>1, <3>2
    <3> QED
      BY <3>1, <3>2
  <2>4. e \in Ptes /\ e.c = "zero" /\ e.u
    BY <2>2, <2>3 DEF Ptes, Contents
  <2> QED
    BY <1>1, <1>2, <1>5, <2>4 DEF EntryOK
<1> QED
  BY <1>3, <1>4, <1>5

\* mappages() sets it.
LEMMA LeafInv ==
  ASSUME MemInv, NEW p \in Processes, NEW va, At(p, "walk"),
         va \in Lowest(job[p].todo),
         tab' = [tab EXCEPT ![job[p].t].leaf[va] = NewPte(p, va)],
         Go(p, IF tab[job[p].t].leaf[va] # None
               THEN [job[p] EXCEPT !.pc = "panic"]
               ELSE [job[p] EXCEPT !.pc = "page", !.todo = @ \ {va}]),
         UNCHANGED <<nfree, frame, pages, sz, image>>
  PROVE  MemInv'
<1>1. PICK j, t, q, c, s, im, e :
        /\ j = job[p] /\ t = tab[j.t] /\ q = Child(p) /\ c = tab[Cur(p)]
        /\ s = sz[p] /\ im = image[p] /\ e = NewPte(p, va)
  OBVIOUS
<1>2. j.pc = "walk" /\ j.op # "none"
  BY <1>1, StepOp DEF At
<1>3. /\ j \in Jobs /\ JobShape(p, j) /\ j.t \in Tables
      /\ t \in PageTables /\ IsFiniteSet(t.nodes) /\ UsedBy(t) \in Nat
      /\ KernelOnly(t) /\ q \in Processes
      /\ Mapping(j) => FillOK(j, t, c, s)
      /\ j.t = Cur(p) => ImageOK(j, t, s, im)
      /\ j.op \in {"boot", "fork"} => q \in frame
      /\ j.op \in {"exec", "grow", "fault"} => q \in frame
      /\ j.op = "fork" => j.t = Cur(q) /\ q # p
      /\ nfree \in Nat /\ IsFiniteSet(frame) /\ frame \in SUBSET Processes
      /\ Cardinality(frame) \in Nat /\ j.args \in Nat /\ j.op \in Ops
  BY <1>1, <1>2, TargetNow
<1>4. FillOK(j, t, c, s)
  BY <1>2, <1>3 DEF Mapping
<1>5. NextIs(j, t, va)
  BY <1>1, <1>3, <1>4, NextPage
<1>6. EntryOK(j, c, va, e)
  BY <1>1, <1>3, <1>4, <1>5, NewPteOK
<1>7. t.leaf[va] = None /\ va \in VPages /\ va \in j.todo
  BY <1>5 DEF NextIs
<1>8. PICK V : V = j.todo \ {va}
  OBVIOUS
<1>9. PICK k : k = [j EXCEPT !.pc = "page", !.todo = V]
  OBVIOUS
<1>10. k \in Jobs /\ k.pc = "page" /\ SameOp(j, k) /\ k.todo = V
       /\ k.t = j.t /\ k.args = j.args /\ k.op = j.op
  <2>1. V \in SUBSET VPages
    BY <1>3, <1>8 DEF Jobs
  <2> QED
    BY <1>3, <1>9, <2>1 DEF Jobs, JobPcs, SameOp
<1>11. job' = [job EXCEPT ![p] = k]
  BY <1>1, <1>7, <1>8, <1>9 DEF Go
<1>12. PICK l : l = [t.leaf EXCEPT ![va] = e]
  OBVIOUS
<1>13. e \in Ptes /\ e # None
  BY <1>6 DEF EntryOK
<1>14. l \in [VPages -> Ptes]
       /\ \A v \in VPages : l[v] = IF v = va THEN e ELSE t.leaf[v]
  BY <1>3, <1>7, <1>12, <1>13 DEF PageTables
<1>15. PICK T : T = [t EXCEPT !.leaf = l]
  OBVIOUS
<1>16. T \in PageTables /\ T.nodes = t.nodes /\ T.leaf = l
  BY <1>3, <1>14, <1>15 DEF PageTables
<1>17. tab' = [tab EXCEPT ![j.t] = T]
  BY <1>1, <1>12, <1>15
<1>18. \A v \in VPages : T.leaf[v] = IF v = va THEN e ELSE t.leaf[v]
  BY <1>14, <1>16
<1>19. HeldBy(k) + UsedBy(T) = HeldBy(j) + UsedBy(t)
       /\ HeldBy(k) \in Nat /\ HeldBy(j) \in Nat /\ UsedBy(T) \in Nat
  <2>1. PICK M, N : /\ M = Mapped(t) \cap UserPages
                    /\ N = Mapped(T) \cap UserPages
    OBVIOUS
  <2>2. PICK x, y, z \in Nat : /\ x = Cardinality(M) /\ y = Cardinality(N)
                               /\ z = Cardinality(t.nodes)
    <3>1. Cardinality(M) \in Nat /\ Cardinality(N) \in Nat
      BY <2>1, UserFinite
    <3>2. Cardinality(t.nodes) \in Nat
      BY <1>3, FS_CardinalityType
    <3> QED
      BY <3>1, <3>2
  <2>3. UsedBy(t) = z + x /\ UsedBy(T) = z + y
    BY <1>16, <2>1, <2>2 DEF UsedBy
  <2>4. PICK a \in Nat : a = j.args
    BY <1>3
  <2>5. HeldBy(k) = a
    BY <1>10, <2>4 DEF HeldBy, HandFull
  <2>6. CASE Fixed(va)
    <3>1. HeldBy(j) = a
      BY <1>5, <2>4, <2>6 DEF HeldBy, HandFull, NextIs
    <3>2. N = M
      BY <1>5, <1>18, <2>1, <2>6, MemConst DEF Mapped, NextIs
    <3> QED
      BY <2>2, <2>3, <2>5, <3>1, <3>2
  <2>7. CASE ~Fixed(va)
    <3>1. HeldBy(j) = 1 + a
      BY <1>2, <1>5, <2>4, <2>7 DEF HeldBy, HandFull, NextIs
    <3>2. N = M \cup {va} /\ va \notin M
      BY <1>5, <1>7, <1>13, <1>18, <2>1, <2>7 DEF Mapped, NextIs
    <3>3. IsFiniteSet(M)
      BY <2>1, UserFinite
    <3>4. y = x + 1
      BY <2>2, <3>2, <3>3, FS_AddElement
    <3> QED
      BY <2>3, <2>5, <3>1, <3>4
  <2> QED
    BY <2>6, <2>7
<1>20. GoesOn(p, k, T)
  <2>1. nfree' + Cardinality(frame') + HeldBy(k) + UsedBy(T)
          = nfree + Cardinality(frame) + HeldBy(j) + UsedBy(t)
    <3>1. PICK f, n, u, v, a, b \in Nat :
            /\ f = Cardinality(frame) /\ n = nfree /\ u = UsedBy(t)
            /\ v = UsedBy(T) /\ a = HeldBy(j) /\ b = HeldBy(k)
      BY <1>3, <1>19
    <3>2. n + f + b + v = n + f + a + u
      <4>1. b + v = a + u
        BY <1>19, <3>1
      <4> QED
        BY <4>1
    <3> QED
      BY <3>1, <3>2
  <2> QED
    BY <1>1, <1>3, <1>10, <1>11, <1>16, <1>17, <2>1 DEF GoesOn
<1>21. StaysOK(p, k, T)
  <2>1. JobShape(p, k) /\ Mapping(k)
    BY <1>2, <1>3, <1>10 DEF JobShape, Mapping, Fresh, SameOp
  <2>2. FillOK(k, T, c, s)
    <3>1. Maps(j, k, t, T, c, va, e)
      BY <1>1, <1>6, <1>8, <1>10, <1>18 DEF Maps, EntryOK
    <3> QED
      BY <1>3, <1>4, <1>10, <3>1, FillMaps
  <2>3. k.t = Cur(p) => k.op # "fork"
    BY <1>3, <1>10, TabNames
  <2>4. FillOK(k, T, IF k.t = Cur(p) THEN T ELSE c, s)
    BY <2>2, <2>3, FillOther
  <2>5. KernelOnly(T)
    <3>1. \A v \in {TRAMPOLINE, TRAPFRAME} : v \in VPages /\ Fixed(v)
      BY MemConst
    <3> QED
      BY <1>3, <1>6, <1>18, <3>1 DEF KernelOnly, EntryOK
  <2>6. Reach(k, s) = Reach(j, s)
    BY <1>10 DEF Reach, SameOp
  <2>7. ASSUME k.t = Cur(p) PROVE ImageOK(k, T, s, im)
    <3>1. ImageOK(j, t, s, im) /\ j.op # "fork" /\ j.op # "exec"
      BY <1>3, <1>10, <2>3, <2>7, TabNames DEF JobShape
    <3>2. ASSUME va \in UserPages PROVE va < Reach(j, s)
      <4>1. j.op # "boot" /\ va \in j.todo
        BY <1>3, <1>5, <3>2 DEF NextIs, Fresh, JobShape
      <4>2. CASE j.op = "grow"
        BY <1>4, <4>1, <4>2 DEF FillOK, GrowOK, Reach
      <4>3. CASE j.op = "fault"
        BY <1>4, <4>1, <4>3 DEF FillOK, FaultOK, Reach
      <4> QED
        BY <1>2, <1>3, <3>1, <4>1, <4>2, <4>3 DEF Ops
    <3> SUFFICES ASSUME NEW v \in UserPages
                 PROVE  /\ im[v] = IF T.leaf[v] = None THEN "zero"
                                   ELSE T.leaf[v].c
                        /\ T.leaf[v] # None => v < Reach(j, s)
      BY <2>6 DEF ImageOK
    <3>3. v \in VPages
      BY MemConst
    <3>4. CASE v = va
      <4>1. T.leaf[v] = e /\ e.c = "zero"
        BY <1>6, <1>18, <3>1, <3>3, <3>4 DEF EntryOK
      <4>2. im[v] = "zero"
        BY <1>7, <3>1, <3>4 DEF ImageOK
      <4> QED
        BY <1>13, <3>2, <3>4, <4>1, <4>2
    <3>5. CASE v # va
      BY <1>18, <3>1, <3>3, <3>5 DEF ImageOK
    <3> QED
      BY <3>4, <3>5
  <2> QED
    BY <1>1, <1>2, <1>3, <1>10, <2>1, <2>4, <2>5, <2>6, <2>7 DEF StaysOK
<1> QED
  BY <1>20, <1>21, GoesOnInv
-----------------------------------------------------------------------------
\* What an operation that fails has in hand, and what it has mapped.
FailOK(j, t, s, hand, V) ==
  /\ V \in SUBSET UserPages /\ hand = IF HandFull(j) THEN 1 ELSE 0
  /\ Fresh(j.op) => /\ j.sz <= TRAPFRAME
                    /\ \A v \in UserPages :
                         t.leaf[v] # None => v \in V \/ v < j.sz
  /\ ~Fresh(j.op) =>
       \A v \in UserPages : /\ v \in V => ~(v < Up(s))
                            /\ t.leaf[v] # None => v \in V \/ v < Up(s)

\* It gives back everything: what Fail() does.
FailsTo(p, k, T, fr, n) ==
  /\ NoJob(k) /\ HeldBy(k) = 0 /\ job' = [job EXCEPT ![p] = k]
  /\ tab' = [tab EXCEPT ![job[p].t] = T] /\ frame' = fr
  /\ T \in PageTables /\ IsFiniteSet(T.nodes) /\ KernelOnly(T)
  /\ nfree' = n /\ n \in Nat /\ IsFiniteSet(fr) /\ fr \in SUBSET Processes
  /\ n + Cardinality(fr) + 0 + UsedBy(T)
       = nfree + Cardinality(frame) + HeldBy(job[p]) + UsedBy(tab[job[p].t])

LEMMA FailDoes ==
  ASSUME MemInv, NEW p \in Processes, job[p].op # "none", NEW hand, NEW V,
         FailOK(job[p], tab[job[p].t], sz[p], hand, V), Fail(p, hand, V)
  PROVE  \E k, T, fr, n :
           /\ FailsTo(p, k, T, fr, n)
           /\ fr = IF job[p].op \in {"boot", "fork"} THEN frame \ {Child(p)}
                   ELSE frame
           /\ Fresh(job[p].op) => T = NoTable
           /\ ~Fresh(job[p].op) => Without(tab[job[p].t], T, V)
<1>1. PICK j, t, q, R : /\ j = job[p] /\ t = tab[j.t] /\ q = Child(p)
                        /\ R = Unmap(t, V)
  OBVIOUS
<1>2. /\ j \in Jobs /\ j.t \in Tables
      /\ t \in PageTables /\ IsFiniteSet(t.nodes) /\ UsedBy(t) \in Nat
      /\ KernelOnly(t) /\ q \in Processes
      /\ nfree \in Nat /\ IsFiniteSet(frame) /\ frame \in SUBSET Processes
      /\ Cardinality(frame) \in Nat /\ j.args \in Nat
  BY <1>1, TargetNow
<1>3. Without(t, R, V)
  BY <1>1, <1>2, UnmapOK
<1>4. IsNew(p) <=> Fresh(j.op)
  BY <1>1 DEF IsNew, Fresh
<1>5. PICK frames, fr : /\ frames = IF j.op \in {"boot", "fork"}
                                    THEN frame \cap {q} ELSE {}
                        /\ fr = frame \ frames
  OBVIOUS
<1>6. /\ IsFiniteSet(fr) /\ fr \in SUBSET Processes
      /\ Cardinality(fr) \in Nat /\ Cardinality(frames) \in Nat
      /\ Cardinality(fr) + Cardinality(frames) = Cardinality(frame)
  <2>1. IsFiniteSet(frames) /\ IsFiniteSet(fr)
    BY <1>2, <1>5, FS_Subset
  <2>2. frame = fr \cup frames /\ fr \cap frames = {}
    BY <1>5
  <2>3. /\ Cardinality(fr) \in Nat /\ Cardinality(frames) \in Nat
        /\ Cardinality(fr \cup frames)
             = Cardinality(fr) + Cardinality(frames)
    BY <2>1, <2>2, CardDisjoint
  <2> QED
    BY <1>2, <1>5, <2>1, <2>2, <2>3
<1>7. fr = IF j.op \in {"boot", "fork"} THEN frame \ {q} ELSE frame
  BY <1>5
<1>8. PICK kept : kept = IF IsNew(p) THEN ProcFree(R, j.sz) ELSE 0
  OBVIOUS
<1>9. /\ nfree' = nfree + (hand + Size(t, V) + kept + Cardinality(frames)
                           + j.args)
      /\ tab' = [tab EXCEPT ![j.t] = IF IsNew(p) THEN NoTable ELSE R]
      /\ frame' = fr
      /\ job' = [job EXCEPT ![p] =
                   Failed(p, IsNew(p) /\ FreewalkLeaf(R, j.sz))]
  BY <1>1, <1>5, <1>8 DEF Fail, Kfree, Go
<1>10. V \in SUBSET UserPages /\ hand \in {0, 1} /\ HeldBy(j) = hand + j.args
  BY <1>1 DEF FailOK, HeldBy
<1>11. PICK T : T = IF IsNew(p) THEN NoTable ELSE R
  OBVIOUS
<1>12. /\ Size(t, V) \in Nat /\ kept \in Nat /\ UsedBy(T) \in Nat
       /\ Size(t, V) + kept + UsedBy(T) = UsedBy(t)
       /\ ~(IsNew(p) /\ FreewalkLeaf(R, j.sz))
       /\ T \in PageTables /\ IsFiniteSet(T.nodes) /\ KernelOnly(T)
  <2>1. CASE IsNew(p)
    <3>1. PICK m \in Nat : m = j.sz
      BY <1>2 DEF Jobs
    <3>2. /\ m <= TRAPFRAME
          /\ \A v \in UserPages : t.leaf[v] # None => v \in V \/ v < m
      BY <1>1, <1>4, <2>1, <3>1 DEF FailOK
    <3>3. /\ Size(t, V) \in Nat /\ ProcFree(R, m) \in Nat
          /\ Size(t, V) + ProcFree(R, m) = UsedBy(t)
          /\ ~FreewalkLeaf(R, m)
      BY <1>2, <1>3, <1>10, <3>2, FreeRest
    <3>4. T = NoTable /\ kept = ProcFree(R, m)
      BY <1>8, <1>11, <2>1, <3>1
    <3>5. UsedBy(T) = 0
      BY <3>4, NoTableOK
    <3> QED
      BY <3>1, <3>3, <3>4, <3>5, NoTableOK
  <2>2. CASE ~IsNew(p)
    <3>1. T = R /\ kept = 0
      BY <1>8, <1>11, <2>2
    <3>2. /\ Size(t, V) \in Nat /\ UsedBy(R) \in Nat
          /\ UsedBy(R) + Size(t, V) = UsedBy(t) /\ KernelOnly(R)
      BY <1>2, <1>3, <1>10, UnmapCount
    <3>3. R \in PageTables /\ IsFiniteSet(R.nodes)
      BY <1>2, <1>3 DEF Without
    <3> QED
      BY <2>2, <3>1, <3>2, <3>3
  <2> QED
    BY <2>1, <2>2
<1>13. PICK k : k = Failed(p, FALSE)
  OBVIOUS
<1>14. job' = [job EXCEPT ![p] = k]
  <2>1. Failed(p, IsNew(p) /\ FreewalkLeaf(R, j.sz)) = k
    BY <1>12, <1>13 DEF Failed
  <2> QED
    BY <1>9, <2>1
<1>15. NoJob(k) /\ HeldBy(k) = 0
  BY <1>13, EndedOK, IdleJobOK
<1>16. nfree' \in Nat
       /\ nfree' + Cardinality(fr) + 0 + UsedBy(T)
            = nfree + Cardinality(frame) + HeldBy(j) + UsedBy(t)
  <2>1. PICK n, h, z, kp, c, a, f, u \in Nat :
          /\ n = nfree /\ h = hand /\ z = Size(t, V) /\ kp = kept
          /\ c = Cardinality(frames) /\ a = j.args /\ f = Cardinality(fr)
          /\ u = UsedBy(T)
    BY <1>2, <1>6, <1>10, <1>12
  <2>2. nfree' = n + (h + z + kp + c + a)
    BY <1>9, <2>1
  <2>3. /\ Cardinality(frame) = f + c /\ HeldBy(j) = h + a
        /\ UsedBy(t) = z + kp + u
    BY <1>6, <1>10, <1>12, <2>1
  <2>4. n + (h + z + kp + c + a) + f + 0 + u
          = n + (f + c) + (h + a) + (z + kp + u)
    OBVIOUS
  <2> QED
    BY <2>1, <2>2, <2>3, <2>4
<1>17. FailsTo(p, k, T, fr, nfree')
  BY <1>1, <1>2, <1>6, <1>9, <1>11, <1>12, <1>14, <1>15, <1>16 DEF FailsTo
<1>18. /\ Fresh(j.op) => T = NoTable
       /\ ~Fresh(j.op) => Without(t, T, V)
  BY <1>3, <1>4, <1>11
<1> QED
  BY <1>1, <1>7, <1>17, <1>18

LEMMA FailInv ==
  ASSUME MemInv, NEW p \in Processes, job[p].op # "none", NEW hand, NEW V,
         FailOK(job[p], tab[job[p].t], sz[p], hand, V), Fail(p, hand, V),
         UNCHANGED <<pages, sz, image>>
  PROVE  MemInv'
<1>1. PICK k, T, fr, n :
        /\ FailsTo(p, k, T, fr, n)
        /\ fr = IF job[p].op \in {"boot", "fork"} THEN frame \ {Child(p)}
                ELSE frame
        /\ Fresh(job[p].op) => T = NoTable
        /\ ~Fresh(job[p].op) => Without(tab[job[p].t], T, V)
  BY FailDoes
<1>2. PICK j, t, q, c, m, s, im :
        /\ j = job[p] /\ t = tab[j.t] /\ q = Child(p) /\ c = tab[Cur(p)]
        /\ m = tab[New(p)] /\ s = sz[p] /\ im = image[p]
  OBVIOUS
<1>3. /\ j \in Jobs /\ JobShape(p, j) /\ j.t \in Tables
      /\ q \in Processes /\ j.op \in Ops /\ j.op # "none"
      /\ j.op # "fork" => q = p
      /\ j.t = Cur(p) => ImageOK(j, t, s, im)
  BY <1>2, TargetNow
<1>4. MemType /\ Counted
  BY DEF MemInv
<1>5. ~IsKid(p)
  BY NotKid
<1>6. sz' = sz /\ image' = image /\ frame' = fr /\ pages' = pages
  BY <1>1 DEF FailsTo
<1>7. CASE j.op # "fork"
  <2>1. Well(p, j, c, m, s, im, frame)
    BY <1>2, <1>5, <1>7, WellNow
  <2>2. PICK a : a = j.t
    OBVIOUS
  <2>3. /\ j.op = "exec" => a = New(p)
        /\ j.op # "exec" => a = Cur(p)
    BY <1>3, <1>7, <2>2 DEF JobShape, Ops
  <2>4. OnlyOwn(p, a, k, T)
    <3>1. \A r \in Processes : r # p => (r \in fr <=> r \in frame)
      BY <1>1, <1>2, <1>3, <1>7
    <3>2. k.op # "fork" /\ k \in Jobs
      BY <1>1 DEF FailsTo, NoJob
    <3>3. a \in {Cur(p), New(p)}
      BY <2>3
    <3>4. nfree' + Cardinality(frame') + HeldBy(k) + UsedBy(T)
            = nfree + Cardinality(frame) + HeldBy(job[p]) + UsedBy(tab[a])
      BY <1>1, <1>2, <2>2 DEF FailsTo
    <3>5. /\ sz' \in [Processes -> Nat]
          /\ image' \in [Processes -> [VPages -> Contents]]
      BY <1>4, <1>6 DEF MemType
    <3> QED
      BY <1>1, <1>2, <1>5, <1>6, <1>7, <2>2, <3>1, <3>2, <3>3, <3>4, <3>5
         DEF OnlyOwn, FailsTo
  <2>5. NoJob(k) /\ KernelOnly(T)
    BY <1>1 DEF FailsTo
  <2>6. SizeOK(s, im) /\ KernelOnly(c)
    BY <2>1 DEF Well
  <2>7. CASE j.op = "exec"
    <3>1. T = NoTable /\ fr = frame
      BY <1>1, <1>2, <2>7 DEF Fresh
    <3>2. p \in frame
      BY <2>1, <2>7 DEF Well
    <3>3. \A v \in UserPages :
            /\ im[v] = IF c.leaf[v] = None THEN "zero" ELSE c.leaf[v].c
            /\ c.leaf[v] # None => v < Up(s)
      BY <2>1, <2>7 DEF Well, ImageOK, Reach
    <3>4. Well(p, k, c, T, s, im, fr)
      BY <2>5, <2>6, <3>1, <3>2, <3>3, IdleWell
    <3> QED
      BY <1>2, <1>6, <2>3, <2>4, <2>7, <3>4, TabNames, OnlyOwnInv
  <2>8. CASE j.op = "boot"
    <3>1. T = NoTable /\ m = NoTable /\ s = 0 /\ im = Image0
      BY <1>1, <1>2, <2>1, <2>8 DEF Fresh, Well
    <3>2. PICK z : z = 0
      OBVIOUS
    <3>3. Well(p, k, NoTable, NoTable, z, Image0, fr)
      BY <2>5, <3>2, EmptyOK, IdleWell
    <3>4. Well(p, k, T, NoTable, s, im, fr)
      BY <3>1, <3>2, <3>3
    <3>5. m = NoTable /\ a = Cur(p) /\ a # New(p)
      BY <2>3, <2>8, <3>1, TabNames
    <3>6. Well(p, k, IF a = Cur(p) THEN T ELSE tab[Cur(p)],
               IF a = New(p) THEN T ELSE tab[New(p)], sz'[p], image'[p],
               frame')
      BY <1>2, <1>6, <3>4, <3>5
    <3> QED
      BY <2>4, <3>6, OnlyOwnInv
  <2>9. CASE j.op \in {"grow", "fault"}
    <3>1. Without(t, T, V) /\ fr = frame /\ ~Fresh(j.op) /\ c = t
      BY <1>1, <1>2, <2>2, <2>3, <2>9 DEF Fresh
    <3>2. p \in frame /\ m = NoTable
      BY <2>1, <2>9 DEF Well
    <3>3. \A v \in UserPages : /\ v \in V => ~(v < Up(s))
                               /\ t.leaf[v] # None => v \in V \/ v < Up(s)
      BY <1>2, <3>1 DEF FailOK
    <3>4. \A v \in UserPages :
            im[v] = IF t.leaf[v] = None THEN "zero" ELSE t.leaf[v].c
      BY <2>1, <3>1 DEF Well, ImageOK
    <3>5. \A v \in UserPages : ~(v < Up(s)) => im[v] = "zero"
      <4>1. s \in Nat
        BY <1>2, <1>4 DEF MemType
      <4>2. Up(s) \in Nat
        BY <4>1, UpType
      <4> QED
        BY <2>6, <4>2, MemConst DEF SizeOK
    <3>6. \A v \in UserPages :
            T.leaf[v] = IF v \in V THEN None ELSE t.leaf[v]
      BY <3>1, MemConst DEF Without
    <3>7. \A v \in UserPages :
            /\ im[v] = IF T.leaf[v] = None THEN "zero" ELSE T.leaf[v].c
            /\ T.leaf[v] # None => v < Up(s)
      BY <3>3, <3>4, <3>5, <3>6
    <3>8. Well(p, k, T, NoTable, s, im, fr)
      BY <2>5, <2>6, <3>1, <3>2, <3>7, IdleWell
    <3> QED
      BY <1>2, <1>6, <2>3, <2>4, <2>9, <3>2, <3>8, TabNames, OnlyOwnInv
  <2> QED
    BY <1>3, <1>7, <2>7, <2>8, <2>9 DEF Ops
<1>8. CASE j.op = "fork"
  <2>1. /\ q # p /\ j.t = Cur(q)
        /\ job[q].op = "none" /\ sz[q] = 0 /\ image[q] = Image0
        /\ \A r \in Processes :
             r # p /\ job[r].op = "fork" => job[r].t # Cur(q)
        /\ Parent(p, q, j, tab[Cur(q)], c, m, s, im, frame)
    BY <1>2, <1>8, ParentNow
  <2>2. T = NoTable /\ fr = frame \ {q}
    BY <1>1, <1>2, <1>8 DEF Fresh
  <2>3. /\ job' \in [Processes -> Jobs] /\ job'[p] = k
        /\ \A r \in Processes : r # p => job'[r] = job[r]
    BY <1>1, <1>4 DEF MemType, FailsTo, NoJob
  <2>4. Cur(q) \in Tables
    BY <1>3, TabNames
  <2>5. /\ tab' \in [Tables -> PageTables] /\ tab'[Cur(q)] = NoTable
        /\ \A x \in Tables : x # Cur(q) => tab'[x] = tab[x]
    BY <1>1, <1>2, <1>4, <2>1, <2>2, <2>4 DEF MemType, FailsTo
  <2>6. MemType'
    BY <1>1, <1>4, <1>6, <2>3, <2>5 DEF MemType, FailsTo
  <2>7. Balanced(p, Cur(q))
    BY <1>1, <1>2, <1>6, <2>1, <2>2, <2>3, <2>5 DEF Balanced, FailsTo
  <2>8. Counted'
    BY <1>4, <2>4, <2>6, <2>7, CountStep
  <2>9. \A r \in Processes :
          /\ Cur(r) \in Tables /\ New(r) \in Tables /\ New(r) # Cur(q)
          /\ r # q => Cur(r) # Cur(q)
    BY <1>3, TabNames
  <2>10. \A r \in Processes : /\ tab'[New(r)] = tab[New(r)]
                              /\ r # q => tab'[Cur(r)] = tab[Cur(r)]
    BY <2>5, <2>9
  <2>11. Forks(p, q)
    <3>1. \A r \in Processes : r # p /\ r # q => Untouched(r)
      BY <1>6, <2>2, <2>3, <2>10 DEF Untouched
    <3>2. k.op # "fork"
      BY <1>1 DEF FailsTo, NoJob
    <3> QED
      BY <1>2, <1>3, <1>5, <1>8, <2>1, <2>3, <3>1, <3>2 DEF Forks
  <2>12. Well(p, k, c, NoTable, s, im, fr)
    <3>1. \A v \in UserPages :
            /\ im[v] = IF c.leaf[v] = None THEN "zero" ELSE c.leaf[v].c
            /\ c.leaf[v] # None => v < Up(s)
      BY <1>8, <2>1 DEF Parent, ImageOK, Reach
    <3>2. SizeOK(s, im) /\ KernelOnly(c) /\ p \in fr
      BY <2>1, <2>2 DEF Parent
    <3>3. NoJob(k)
      BY <1>1 DEF FailsTo
    <3> QED
      BY <3>1, <3>2, <3>3, IdleWell
  <2>13. Well(q, job[q], NoTable, NoTable, 0, Image0, fr)
    <3>1. PICK i, z : i = job[q] /\ z = 0
      OBVIOUS
    <3>2. i \in Jobs /\ JobShape(q, i) /\ i.op = "none"
      BY <1>3, <1>4, <2>1, <3>1 DEF MemInv, MemType, ProcOK, JobsOK
    <3>3. NoJob(i)
      BY <3>2 DEF NoJob, JobShape, Mapping
    <3>4. Well(q, i, NoTable, NoTable, z, Image0, fr)
      BY <1>3, <3>1, <3>3, EmptyOK, IdleWell
    <3> QED
      BY <3>1, <3>4
  <2>14. tab'[New(p)] = NoTable /\ tab'[Cur(p)] = c /\ tab'[New(q)] = NoTable
    <3>1. m = NoTable
      BY <2>1 DEF Parent
    <3>2. tab[New(q)] = NoTable
      BY <1>3, <2>1 DEF MemInv, ProcOK, AbsentOK
    <3> QED
      BY <1>2, <1>3, <2>1, <2>10, <3>1, <3>2
  <2>15. Well(p, job'[p], tab'[Cur(p)], tab'[New(p)], sz'[p], image'[p],
              frame')
    BY <1>2, <1>6, <2>3, <2>12, <2>14
  <2>16. Well(q, job'[q], tab'[Cur(q)], tab'[New(q)], sz'[q], image'[q],
              frame')
    BY <1>3, <1>6, <2>1, <2>3, <2>5, <2>13, <2>14
  <2> QED
    BY <1>3, <2>6, <2>8, <2>11, <2>15, <2>16, ForkEnds
<1> QED
  BY <1>7, <1>8
-----------------------------------------------------------------------------
\* A failure before anything is mapped.
LEMMA EmptyFails ==
  ASSUME NEW j \in Jobs, NEW p \in Processes, JobShape(p, j), NEW t, NEW s,
         t = NoTable, j.pc \in {"frame", "root"}
  PROVE  FailOK(j, t, s, 0, {})
<1>1. Fresh(j.op) /\ j.sz = 0 /\ ~HandFull(j)
  BY DEF JobShape, Fresh, Mapping, HandFull
<1>2. \A v \in UserPages : t.leaf[v] = None
  BY NoTableOK, MemConst
<1>3. 0 <= TRAPFRAME
  BY MemConst
<1> QED
  BY <1>1, <1>2, <1>3 DEF FailOK

\* A failure at page va.
LEMMA PartialFails ==
  ASSUME MemInv, NEW p \in Processes, NEW va, NEW j, NEW t, j = job[p],
         t = tab[j.t], j.pc \in {"page", "walk"}, va \in Lowest(j.todo),
         NEW hand, hand = IF HandFull(j) THEN 1 ELSE 0
  PROVE  FailOK(j, t, sz[p], hand, Partial(p, va))
<1>1. PICK c, s, im, V : /\ c = tab[Cur(p)] /\ s = sz[p] /\ im = image[p]
                         /\ V = Partial(p, va)
  OBVIOUS
<1>2. j.op # "none"
  BY StepOp
<1>3. /\ j \in Jobs /\ JobShape(p, j) /\ j.op \in Ops
      /\ Mapping(j) => FillOK(j, t, c, s)
      /\ j.t = Cur(p) => ImageOK(j, t, s, im)
  BY <1>1, <1>2, TargetNow
<1>4. FillOK(j, t, c, s)
  BY <1>3 DEF Mapping
<1>5. NextIs(j, t, va)
  BY <1>3, <1>4, NextPage
<1>6. va \in VPages /\ va \in Nat /\ va \in j.todo
  BY <1>5, MemConst DEF NextIs
<1>7. TRAPFRAME \in Nat
  BY MemConst
<1>8. CASE Fixed(va)
  <2>1. V = {}
    BY <1>1, <1>8 DEF Partial
  <2>2. Fresh(j.op) /\ j.sz = 0 /\ NoUser(t)
    BY <1>5, <1>8 DEF NextIs
  <2> QED
    BY <1>1, <1>7, <2>1, <2>2 DEF FailOK, NoUser
<1>9. CASE ~Fixed(va)
  <2>1. PICK o \in Nat : o = IF j.op = "fork" THEN 0 ELSE j.old
    BY <1>3 DEF Jobs
  <2>2. V = o .. va - 1
    BY <1>1, <1>9, <2>1 DEF Partial
  <2>3. va \in UserPages /\ va < TRAPFRAME
    BY <1>5, <1>6, <1>9, MemConst DEF NextIs
  <2>4. \A v \in UserPages : v \in Nat /\ (v \in V <=> v >= o /\ v < va)
    BY <1>6, <2>2, MemConst
  <2>5. V \in SUBSET UserPages
    <3>1. \A v \in V : v \in Nat /\ v < TRAPFRAME
      BY <1>6, <1>7, <2>2, <2>3
    <3> QED
      BY <3>1, MemConst
  <2>6. TodoOK(j, t) /\ ~(Fresh(j.op) /\ j.seg = 0)
    BY <1>4, <1>5, <1>9 DEF FillOK, NextIs
  <2>7. j.op # "fault" => \A v \in UserPages : t.leaf[v] # None => v < va
    BY <1>6, <2>6 DEF TodoOK
  <2>8. CASE j.op = "fork"
    <3>1. o = 0 /\ j.sz = 0 /\ Fresh(j.op)
      BY <1>3, <2>1, <2>8 DEF JobShape, Fresh
    <3>2. \A v \in UserPages : t.leaf[v] # None => v \in V
      BY <2>4, <2>7, <2>8, <3>1
    <3> QED
      BY <1>1, <1>7, <2>5, <3>1, <3>2 DEF FailOK
  <2>9. CASE j.op = "exec"
    <3>1. ExecOK(j, t) /\ j.prog \in Programs
      BY <1>3, <1>4, <2>9 DEF FillOK, JobShape
    <3>2. PICK m \in Nat : m = j.sz
      BY <1>3 DEF Jobs
    <3>3. j.seg \in Nat /\ j.seg # 0
      BY <1>3, <2>6, <2>9 DEF Jobs, Fresh
    <3>4. o = m
      BY <2>1, <2>9, <3>1, <3>2, <3>3 DEF ExecOK
    <3>5. m <= TRAPFRAME
      <4>1. m + USERSTACK + 1 <= TRAPFRAME /\ USERSTACK \in Nat
        BY <1>3, <3>1, <3>2, ExecTopOK, MemoryAssumption
      <4> QED
        BY <1>7, <4>1
    <3>6. \A v \in UserPages : t.leaf[v] # None => v \in V \/ v < m
      BY <2>4, <2>7, <2>9, <3>4
    <3>7. Fresh(j.op)
      BY <2>9 DEF Fresh
    <3> QED
      BY <1>1, <2>5, <3>2, <3>5, <3>6, <3>7 DEF FailOK
  <2>10. CASE j.op = "grow"
    <3>1. o = Up(s) /\ ~Fresh(j.op)
      BY <1>4, <2>1, <2>10 DEF FillOK, GrowOK, Fresh
    <3>2. \A v \in UserPages : /\ v \in V => ~(v < Up(s))
                               /\ t.leaf[v] # None => v \in V \/ v < Up(s)
      BY <2>4, <2>7, <2>10, <3>1
    <3> QED
      BY <1>1, <2>5, <3>1, <3>2 DEF FailOK
  <2>11. CASE j.op = "fault"
    <3>1. o = va /\ ~Fresh(j.op) /\ ImageOK(j, t, s, im)
      BY <1>3, <1>4, <1>6, <2>1, <2>11
         DEF FillOK, FaultOK, Fresh, JobShape
    <3>2. \A v \in UserPages : v \notin V
      BY <1>6, <2>4, <3>1
    <3>3. \A v \in UserPages : t.leaf[v] # None => v < Up(s)
      BY <2>11, <3>1 DEF ImageOK, Reach
    <3> QED
      BY <1>1, <2>5, <3>1, <3>2, <3>3 DEF FailOK
  <2>12. j.op # "boot"
    BY <1>3, <2>6 DEF JobShape, Fresh
  <2> QED
    BY <1>2, <1>3, <2>8, <2>9, <2>10, <2>11, <2>12 DEF Ops
<1> QED
  BY <1>8, <1>9

LEMMA AllocFrameInv ==
  ASSUME MemInv, NEW p \in Processes, AllocFrame(p)
  PROVE  MemInv'
<1>1. CASE nfree # 0
  BY <1>1, FrameInv
<1>2. CASE nfree = 0
  <2>1. Fail(p, 0, {}) /\ UNCHANGED <<pages, sz, image>>
    BY <1>2 DEF AllocFrame
  <2>2. job[p].pc = "frame" /\ job[p].op # "none"
    BY StepOp DEF AllocFrame, At
  <2>3. PICK j, t, s : j = job[p] /\ t = tab[j.t] /\ s = sz[p]
    OBVIOUS
  <2>4. /\ j \in Jobs /\ JobShape(p, j)
        /\ j.op \in {"boot", "fork"} =>
              /\ Child(p) \in frame <=> j.pc # "frame"
              /\ Child(p) \notin frame => t = NoTable
    BY <2>2, <2>3, TargetNow
  <2>5. t = NoTable
    BY <2>2, <2>3, <2>4 DEF JobShape
  <2>6. FailOK(j, t, s, 0, {})
    BY <2>2, <2>3, <2>4, <2>5, EmptyFails
  <2>7. PICK h, V : h = 0 /\ V = {}
    OBVIOUS
  <2> QED
    BY <2>1, <2>2, <2>3, <2>6, <2>7, FailInv
<1> QED
  BY <1>1, <1>2

LEMMA AllocRootInv ==
  ASSUME MemInv, NEW p \in Processes, AllocRoot(p)
  PROVE  MemInv'
<1>1. CASE nfree # 0
  BY <1>1, RootInv
<1>2. CASE nfree = 0
  <2>1. Fail(p, 0, {}) /\ UNCHANGED <<pages, sz, image>>
    BY <1>2 DEF AllocRoot
  <2>2. job[p].pc = "root" /\ job[p].op # "none"
    BY StepOp DEF AllocRoot, At
  <2>3. PICK j, t, s : j = job[p] /\ t = tab[j.t] /\ s = sz[p]
    OBVIOUS
  <2>4. j \in Jobs /\ JobShape(p, j) /\ t = NoTable
    BY <2>2, <2>3, TargetNow
  <2>5. FailOK(j, t, s, 0, {})
    BY <2>2, <2>3, <2>4, EmptyFails
  <2>6. PICK h, V : h = 0 /\ V = {}
    OBVIOUS
  <2> QED
    BY <2>1, <2>2, <2>3, <2>5, <2>6, FailInv
<1> QED
  BY <1>1, <1>2

LEMMA AllocPageInv ==
  ASSUME MemInv, NEW p \in Processes, NEW va \in VPages, AllocPage(p, va)
  PROVE  MemInv'
<1>1. CASE Fixed(va) \/ nfree # 0
  BY <1>1, PageInv
<1>2. CASE ~Fixed(va) /\ nfree = 0
  <2>1. /\ Fail(p, 0, Partial(p, va)) /\ UNCHANGED <<pages, sz, image>>
        /\ va \in Lowest(job[p].todo)
    BY <1>2 DEF AllocPage
  <2>2. job[p].pc = "page" /\ job[p].op # "none"
    BY StepOp DEF AllocPage, At
  <2>3. PICK h, V, j, t : /\ h = 0 /\ V = Partial(p, va) /\ j = job[p]
                          /\ t = tab[j.t]
    OBVIOUS
  <2>4. h = IF HandFull(j) THEN 1 ELSE 0
    BY <2>2, <2>3 DEF HandFull
  <2>5. FailOK(j, t, sz[p], h, Partial(p, va))
    BY <2>1, <2>2, <2>3, <2>4, PartialFails
  <2> QED
    BY <2>1, <2>2, <2>3, <2>5, FailInv
<1> QED
  BY <1>1, <1>2

LEMMA MapPageInv ==
  ASSUME MemInv, NEW p \in Processes, NEW va \in VPages, MapPage(p, va)
  PROVE  MemInv'
<1>1. PICK j, t, M :
        /\ j = job[p] /\ t = tab[j.t]
        /\ M = {l \in 0 .. LEVELS - 1 : Node(l, va) \notin t.nodes}
  OBVIOUS
<1>2. /\ At(p, "walk") /\ va \in Lowest(j.todo)
      /\ UNCHANGED <<pages, sz, image>>
  BY <1>1 DEF MapPage
<1>3. \/ /\ M # {} /\ nfree = 0
         /\ Fail(p, IF Fixed(va) THEN 0 ELSE 1, Partial(p, va))
      \/ /\ \E l \in M : tab' = [tab EXCEPT ![j.t].nodes =
                                   @ \cup {Node(l, va)}]
         /\ Kalloc /\ UNCHANGED <<frame, job>>
      \/ /\ tab' = [tab EXCEPT ![j.t].leaf[va] = NewPte(p, va)]
         /\ Go(p, IF t.leaf[va] # None THEN [j EXCEPT !.pc = "panic"]
                  ELSE [j EXCEPT !.pc = "page", !.todo = @ \ {va}])
         /\ UNCHANGED <<nfree, frame>>
  BY <1>1 DEF MapPage
<1>4. j.pc = "walk" /\ j.op # "none"
  BY <1>1, <1>2, StepOp DEF At
<1>5. CASE Fail(p, IF Fixed(va) THEN 0 ELSE 1, Partial(p, va))
  <2>1. PICK h, V : /\ h = (IF Fixed(va) THEN 0 ELSE 1)
                    /\ V = Partial(p, va)
    OBVIOUS
  <2>2. j \in Jobs /\ FillOK(j, t, tab[Cur(p)], sz[p])
    BY <1>1, <1>4, TargetNow DEF Mapping
  <2>3. NextIs(j, t, va)
    BY <1>2, <2>2, NextPage
  <2>4. h = IF HandFull(j) THEN 1 ELSE 0
    BY <1>4, <2>1, <2>3 DEF HandFull, NextIs
  <2>5. FailOK(j, t, sz[p], h, Partial(p, va))
    BY <1>1, <1>2, <1>4, <2>4, PartialFails
  <2> QED
    BY <1>1, <1>2, <1>4, <1>5, <2>1, <2>5, FailInv
<1>6. CASE /\ \E l \in M : tab' = [tab EXCEPT ![j.t].nodes =
                                     @ \cup {Node(l, va)}]
           /\ Kalloc /\ UNCHANGED <<frame, job>>
  <2>1. PICK l \in M : tab' = [tab EXCEPT ![j.t].nodes = @ \cup {Node(l, va)}]
    BY <1>6
  <2>2. l \in 0 .. LEVELS - 1 /\ Node(l, va) \notin t.nodes
    BY <1>1
  <2>3. nfree > 0 /\ nfree' = nfree - 1
    BY <1>6 DEF Kalloc
  <2> QED
    BY <1>1, <1>2, <1>6, <2>1, <2>2, <2>3, NodeInv
<1>7. CASE /\ tab' = [tab EXCEPT ![j.t].leaf[va] = NewPte(p, va)]
           /\ Go(p, IF t.leaf[va] # None THEN [j EXCEPT !.pc = "panic"]
                    ELSE [j EXCEPT !.pc = "page", !.todo = @ \ {va}])
           /\ UNCHANGED <<nfree, frame>>
  BY <1>1, <1>2, <1>7, LeafInv
<1> QED
  BY <1>3, <1>5, <1>6, <1>7
-----------------------------------------------------------------------------
\* kfork() begins: q has no memory, and nobody makes it.
LEMMA KforkInv ==
  ASSUME MemInv, NEW p \in Processes, NEW q \in Processes, Kfork(p, q)
  PROVE  MemInv'
<1>1. PICK j : j = [IdleJob EXCEPT !.op = "fork", !.pc = "frame",
                                   !.t = Cur(q)]
  OBVIOUS
<1>2. Cur(q) \in Processes \X {"cur", "new", "none"}
  BY DEF Cur
<1>3. j \in Jobs
  <2>1. IdleJob \in Jobs
    BY IdleJobOK DEF NoJob
  <2> QED
    BY <1>1, <1>2, <2>1 DEF Jobs, Ops, JobPcs
<1>4. /\ j.op = "fork" /\ j.pc = "frame" /\ j.t = Cur(q)
      /\ j.todo = {} /\ j.seg = 0 /\ j.sz = 0 /\ j.args = 0
  BY <1>1 DEF IdleJob
<1>5. Runs(p) /\ q \notin frame /\ ~Busy(q)
  BY DEF Kfork, Calls
<1>6. /\ ~IsKid(p) /\ p \in frame /\ job[p].op = "none"
      /\ HeldBy(job[p]) = 0 /\ tab[New(p)] = NoTable
  BY <1>5, RunsOK
<1>7. /\ job' = [job EXCEPT ![p] = j]
      /\ UNCHANGED <<pages, nfree, frame, tab, sz, image>>
  BY <1>1 DEF Kfork, Go
<1>8. MemType /\ Counted /\ ProcOK(q)
  BY DEF MemInv
<1>9. q # p /\ ~IsKid(q)
  BY <1>5, <1>6 DEF Busy, IsKid
<1>10. /\ tab[Cur(q)] = NoTable /\ sz[q] = 0 /\ image[q] = Image0
       /\ job[q] \in Jobs /\ JobShape(q, job[q])
       /\ job[q].op \notin {"exec", "fork", "grow", "fault"}
  BY <1>5, <1>8 DEF ProcOK, AbsentOK, MemType, JobsOK
<1>11. job[q].op = "none"
  <2>1. job[q].op \in Ops
    BY <1>10 DEF Jobs
  <2>2. job[q].op # "boot"
    BY <1>5, <1>10 DEF JobShape, Busy
  <2> QED
    BY <1>10, <2>1, <2>2 DEF Ops
<1>12. /\ job' \in [Processes -> Jobs] /\ job'[p] = j
       /\ \A r \in Processes : r # p => job'[r] = job[r]
  BY <1>3, <1>7, <1>8 DEF MemType
<1>13. MemType'
  BY <1>7, <1>8, <1>12 DEF MemType
<1>14. Balanced(p, Cur(q))
  <2>1. HeldBy(j) = 0
    BY <1>4 DEF HeldBy, HandFull
  <2>2. IsFiniteSet(tab[Cur(q)].nodes) /\ IsFiniteSet(frame)
    BY <1>8, <1>10, NoTableOK DEF Counted
  <2> QED
    BY <1>6, <1>7, <1>12, <2>1, <2>2 DEF Balanced
<1>15. Counted'
  BY <1>8, <1>13, <1>14, TabNames, CountStep
<1>16. Forks(p, q)
  <2>1. \A r \in Processes : job[r].op = "fork" => job[r].t # Cur(q)
    BY <1>9 DEF IsKid
  <2> QED
    BY <1>4, <1>6, <1>7, <1>9, <1>11, <1>12, <2>1 DEF Forks, Untouched
<1>17. Parent(p, q, j, tab[Cur(q)], tab[Cur(p)], tab[New(p)], sz[p],
              image[p], frame)
  <2>1. PICK c, m, s, im : /\ c = tab[Cur(p)] /\ m = tab[New(p)]
                           /\ s = sz[p] /\ im = image[p]
    OBVIOUS
  <2>2. Well(p, job[p], c, m, s, im, frame)
    BY <1>6, <2>1, WellNow
  <2>3. JobShape(p, j) /\ ~Mapping(j)
    BY <1>4, <1>9, TabNames DEF JobShape, Mapping, Fresh
  <2>4. ImageOK(j, c, s, im)
    BY <1>4, <1>6, <2>2 DEF Well, ImageOK, Reach
  <2>5. KernelOnly(NoTable)
    BY NoTableOK
  <2>6. Parent(p, q, j, NoTable, c, m, s, im, frame)
    BY <1>4, <1>5, <1>6, <2>1, <2>2, <2>3, <2>4, <2>5 DEF Parent, Well
  <2> QED
    BY <1>10, <2>1, <2>6
<1>18. Parent(p, q, job'[p], tab'[Cur(q)], tab'[Cur(p)], tab'[New(p)],
              sz'[p], image'[p], frame')
  BY <1>7, <1>12, <1>17
<1> QED
  BY <1>4, <1>7, <1>10, <1>11, <1>12, <1>13, <1>15, <1>16, <1>18, ParentInv

\* uvmcopy() begins.
LEMMA ForkCopyInv ==
  ASSUME MemInv, NEW p \in Processes, ForkCopy(p)
  PROVE  MemInv'
<1>1. PICK j, t, c, s, im : /\ j = job[p] /\ t = tab[j.t] /\ c = tab[Cur(p)]
                            /\ s = sz[p] /\ im = image[p]
  OBVIOUS
<1>2. /\ j.pc = "page" /\ j.todo = {} /\ j.op = "fork" /\ j.seg = 0
  BY <1>1 DEF ForkCopy, Finds, At
<1>3. /\ j \in Jobs /\ JobShape(p, j) /\ j.t \in Tables
      /\ t \in PageTables /\ IsFiniteSet(t.nodes)
      /\ KernelOnly(t) /\ Child(p) \in Processes
      /\ Mapping(j) => FillOK(j, t, c, s)
      /\ Child(p) \in frame /\ j.t = Cur(Child(p)) /\ Child(p) # p
      /\ nfree \in Nat /\ IsFiniteSet(frame) /\ frame \in SUBSET Processes
      /\ j.args \in Nat
  BY <1>1, <1>2, TargetNow
<1>4. NoUser(t) /\ j.sz = 0
  BY <1>2, <1>3 DEF Mapping, FillOK, TodoOK, Fresh
<1>5. PICK V : V = Mapped(c) \cap 0 .. Up(s) - 1
  OBVIOUS
<1>6. s \in Nat /\ Up(s) \in Nat /\ Up(s) <= TRAPFRAME
      /\ \A v \in UserPages : c.leaf[v] # None => v < Up(s)
  <2>1. s \in Nat
    BY <1>1 DEF MemInv, MemType
  <2>2. ImageOK(j, c, s, im) /\ SizeOK(s, im)
    BY <1>1, <1>2, ParentNow DEF Parent
  <2> QED
    BY <1>2, <2>1, <2>2, UpType DEF ImageOK, SizeOK, Reach
<1>7. V \in SUBSET VPages /\ V \in SUBSET UserPages
  <2>1. \A v \in V : v \in VPages /\ v \in Nat /\ v < Up(s)
    BY <1>5, <1>6, MemConst DEF Mapped
  <2> QED
    BY <1>6, <2>1, MemConst
<1>8. \A v \in UserPages : v \in V <=> c.leaf[v] # None
  <2>1. \A v \in UserPages : v \in VPages /\ v \in Nat
    BY MemConst
  <2>2. \A v \in Nat : v \in 0 .. Up(s) - 1 <=> v < Up(s)
    BY <1>6
  <2> QED
    BY <1>5, <1>6, <2>1, <2>2 DEF Mapped
<1>9. PICK k : k = [j EXCEPT !.seg = 1, !.todo = V]
  OBVIOUS
<1>10. /\ k \in Jobs /\ k.op = "fork" /\ k.pc = "page" /\ k.t = j.t
       /\ k.todo = V /\ k.seg = 1 /\ k.sz = j.sz /\ k.args = j.args
  BY <1>2, <1>3, <1>7, <1>9 DEF Jobs
<1>11. /\ job' = [job EXCEPT ![p] = k]
       /\ UNCHANGED <<pages, nfree, frame, tab, sz, image>>
  BY <1>1, <1>5, <1>9 DEF ForkCopy, Go
<1>12. GoesOn(p, k, t)
  <2>1. HeldBy(k) = HeldBy(j)
    BY <1>2, <1>10 DEF HeldBy, HandFull
  <2>2. tab' = [tab EXCEPT ![job[p].t] = t]
    BY <1>1, <1>11 DEF MemInv, MemType
  <2> QED
    BY <1>1, <1>3, <1>10, <1>11, <2>1, <2>2 DEF GoesOn
<1>13. StaysOK(p, k, t)
  <2>1. JobShape(p, k) /\ Mapping(k)
    BY <1>2, <1>3, <1>10 DEF JobShape, Mapping, Fresh
  <2>2. Reach(k, s) = Reach(j, s)
    BY <1>2, <1>10 DEF Reach
  <2>3. k.t # Cur(p)
    BY <1>3, <1>10, TabNames
  <2>4. \A v \in UserPages : t.leaf[v] = None
    BY <1>4 DEF NoUser
  <2>5. TodoOK(k, t)
    BY <1>7, <1>10, <2>4 DEF TodoOK, Fresh
  <2>6. ForkOK(k, t, c)
    BY <1>8, <1>10, <2>4 DEF ForkOK
  <2>7. FillOK(k, t, c, s)
    BY <1>10, <2>5, <2>6 DEF FillOK
  <2> QED
    BY <1>1, <1>2, <1>3, <1>10, <1>11, <2>1, <2>2, <2>3, <2>7 DEF StaysOK
<1> QED
  BY <1>12, <1>13, GoesOnInv

\* The child has its memory.
LEMMA ForkDoneInv ==
  ASSUME MemInv, NEW p \in Processes, ForkDone(p)
  PROVE  MemInv'
<1>1. PICK j, c, m, s, im : /\ j = job[p] /\ c = tab[Cur(p)]
                            /\ m = tab[New(p)] /\ s = sz[p] /\ im = image[p]
  OBVIOUS
<1>2. j.pc = "page" /\ j.todo = {} /\ j.op = "fork" /\ j.seg = 1
  BY <1>1 DEF ForkDone, Finds, At
<1>3. PICK q \in Processes :
        /\ q # p /\ Child(p) = q /\ j.t = Cur(q) /\ ~IsKid(p)
        /\ job[q].op = "none"
        /\ \A r \in Processes :
             r # p /\ job[r].op = "fork" => job[r].t # Cur(q)
        /\ Parent(p, q, j, tab[Cur(q)], c, m, s, im, frame)
  BY <1>1, <1>2, ParentNow
<1>4. PICK t, i : t = tab[Cur(q)] /\ i = job[q]
  OBVIOUS
<1>5. MemType /\ Counted /\ ProcOK(q) /\ ProcOK(p)
  BY DEF MemInv
<1>6. \A v \in UserPages : t.leaf[v] = c.leaf[v]
  BY <1>2, <1>3, <1>4 DEF Parent, Mapping, FillOK, ForkOK
<1>7. /\ \A v \in UserPages :
           /\ im[v] = IF c.leaf[v] = None THEN "zero" ELSE c.leaf[v].c
           /\ c.leaf[v] # None => v < Up(s)
      /\ SizeOK(s, im) /\ KernelOnly(c) /\ KernelOnly(t) /\ m = NoTable
      /\ p \in frame /\ q \in frame
  BY <1>2, <1>3, <1>4 DEF Parent, ImageOK, Reach
<1>8. /\ sz' = [sz EXCEPT ![q] = s] /\ image' = [image EXCEPT ![q] = im]
      /\ job' = [job EXCEPT ![p] = IdleJob]
      /\ UNCHANGED <<pages, nfree, frame, tab>>
  BY <1>1, <1>3 DEF ForkDone, Go
<1>9. s \in Nat /\ im \in [VPages -> Contents] /\ IdleJob \in Jobs
      /\ NoJob(IdleJob) /\ HeldBy(IdleJob) = 0
  BY <1>1, <1>5, IdleJobOK DEF MemType, NoJob
<1>10. /\ job' \in [Processes -> Jobs] /\ job'[p] = IdleJob
       /\ \A r \in Processes : r # p => job'[r] = job[r]
  BY <1>5, <1>8, <1>9 DEF MemType
<1>11. /\ sz' \in [Processes -> Nat] /\ sz'[q] = s /\ sz'[p] = s
       /\ image' \in [Processes -> [VPages -> Contents]]
       /\ image'[q] = im /\ image'[p] = im
       /\ \A r \in Processes : r # q => sz'[r] = sz[r] /\ image'[r] = image[r]
  BY <1>1, <1>3, <1>5, <1>8, <1>9 DEF MemType
<1>12. MemType'
  BY <1>5, <1>8, <1>10, <1>11 DEF MemType
<1>13. Balanced(p, Cur(q))
  <2>1. HeldBy(j) = 0
    <3>1. j.args = 0
      BY <1>1, <1>2, <1>5 DEF ProcOK, JobsOK, JobShape
    <3> QED
      BY <1>2, <3>1 DEF HeldBy, HandFull
  <2>2. IsFiniteSet(tab[Cur(q)].nodes) /\ IsFiniteSet(frame)
    BY <1>5, TabNames, TabFinite DEF Counted
  <2> QED
    BY <1>1, <1>8, <1>9, <1>10, <2>1, <2>2 DEF Balanced
<1>14. Counted'
  BY <1>5, <1>12, <1>13, TabNames, CountStep
<1>15. Forks(p, q)
  <2>1. \A r \in Processes : r # p /\ r # q => Untouched(r)
    BY <1>8, <1>10, <1>11 DEF Untouched
  <2>2. IdleJob.op = "none"
    BY DEF IdleJob
  <2> QED
    BY <1>1, <1>2, <1>3, <1>10, <2>1, <2>2 DEF Forks
<1>16. Well(p, IdleJob, c, NoTable, s, im, frame)
  BY <1>7, <1>9, IdleWell
<1>17. Well(q, i, t, NoTable, s, im, frame)
  <2>1. i \in Jobs /\ JobShape(q, i) /\ i.op = "none"
    BY <1>3, <1>4, <1>5 DEF MemType, ProcOK, JobsOK
  <2>2. NoJob(i)
    BY <2>1 DEF NoJob, JobShape, Mapping
  <2>3. \A v \in UserPages :
          /\ im[v] = IF t.leaf[v] = None THEN "zero" ELSE t.leaf[v].c
          /\ t.leaf[v] # None => v < Up(s)
    BY <1>6, <1>7
  <2> QED
    BY <1>7, <2>2, <2>3, IdleWell
<1>18. tab[New(q)] = NoTable
  BY <1>3, <1>5 DEF ProcOK, AbsentOK
<1>19. Well(p, job'[p], tab'[Cur(p)], tab'[New(p)], sz'[p], image'[p],
            frame')
  BY <1>1, <1>7, <1>8, <1>10, <1>11, <1>16
<1>20. Well(q, job'[q], tab'[Cur(q)], tab'[New(q)], sz'[q], image'[q],
            frame')
  BY <1>3, <1>4, <1>8, <1>10, <1>11, <1>17, <1>18
<1> QED
  BY <1>12, <1>14, <1>15, <1>19, <1>20, ForkEnds
-----------------------------------------------------------------------------
\* At the start all pages are free.
LEMMA NoPairs ==
  ASSUME NEW F, \A a \in DOMAIN F : F[a] = {}
  PROVE  Pairs(F) = {} /\ IsFiniteSet(Pairs(F)) /\ Total(F) = 0
<1>1. Pairs(F) = {}
  BY DEF Pairs
<1> QED
  BY <1>1, FS_EmptySet DEF Total

LEMMA MemInitInv ==
  ASSUME MemInit
  PROVE  MemInv
<1>1. PICK b : b = [IdleJob EXCEPT !.op = "boot", !.pc = "frame",
                                   !.t = Cur(FirstProc)]
  OBVIOUS
<1>2. FirstProc \in Processes /\ PageCounts \subseteq Nat
  BY MemoryAssumption
<1>3. b \in Jobs
  <2>1. /\ IdleJob \in Jobs
        /\ Cur(FirstProc) \in Processes \X {"cur", "new", "none"}
    BY <1>2, IdleJobOK DEF NoJob, Cur
  <2> QED
    BY <1>1, <2>1 DEF Jobs, Ops, JobPcs
<1>4. /\ b.op = "boot" /\ b.pc = "frame" /\ b.t = Cur(FirstProc)
      /\ b.todo = {} /\ b.seg = 0 /\ b.sz = 0 /\ b.args = 0
  BY <1>1 DEF IdleJob
<1>5. /\ pages \in Nat /\ nfree = pages /\ frame = {}
      /\ tab = [t \in Tables |-> NoTable] /\ sz = [p \in Processes |-> 0]
      /\ image = [p \in Processes |-> Image0]
      /\ job = [p \in Processes |-> IF p = FirstProc THEN b ELSE IdleJob]
  BY <1>1, <1>2 DEF MemInit
<1>6. MemType
  <2>1. IdleJob \in Jobs
    BY IdleJobOK DEF NoJob
  <2>2. job \in [Processes -> Jobs]
    BY <1>3, <1>5, <2>1
  <2>3. image \in [Processes -> [VPages -> Contents]]
    BY <1>5, EmptyOK
  <2>4. tab \in [Tables -> PageTables]
    BY <1>5, NoTableOK
  <2> QED
    BY <1>5, <2>2, <2>3, <2>4 DEF MemType
<1>7. \A p \in Processes : (p = FirstProc /\ job[p] = b) \/ job[p] = IdleJob
  BY <1>5
<1>8. /\ IdleJob.op = "none" /\ IdleJob.pc = "idle" /\ IdleJob.t = NoTab
      /\ IdleJob.todo = {} /\ IdleJob.seg = 0 /\ IdleJob.sz = 0
      /\ IdleJob.args = 0
  BY DEF IdleJob
<1>9. ASSUME NEW p \in Processes PROVE ProcOK(p)
  <2>1. PICK j : j = job[p]
    OBVIOUS
  <2>2. /\ j.op \in {"boot", "none"} /\ j.pc \in {"frame", "idle"}
        /\ j.op = "boot" <=> j.pc = "frame"
        /\ j.t = IF j.op = "boot" THEN Cur(p) ELSE NoTab
        /\ j.todo = {} /\ j.seg = 0 /\ j.sz = 0 /\ j.args = 0
    BY <1>4, <1>7, <1>8, <2>1
  <2>3. /\ tab[Cur(p)] = NoTable /\ tab[New(p)] = NoTable /\ sz[p] = 0
        /\ image[p] = Image0 /\ p \notin frame
    BY <1>5, TabNames
  <2>4. JobShape(p, j) /\ ~Mapping(j)
    BY <2>2 DEF JobShape, Mapping, Fresh
  <2>5. ImageOK(j, NoTable, 0, Image0)
    BY <2>2, EmptyOK DEF ImageOK, Reach
  <2>6. JobsOK(p) /\ FillsOK(p)
    BY <2>1, <2>4 DEF JobsOK, FillsOK
  <2>7. HoldsImage(p)
    BY <2>1, <2>3, <2>5 DEF HoldsImage
  <2>8. SizesOK(p) /\ KernelsOK(p)
    BY <2>3, EmptyOK DEF SizesOK, KernelsOK
  <2>9. AbsentOK(p) /\ KidOK(p)
    BY <2>1, <2>2, <2>3 DEF AbsentOK, KidOK
  <2> QED
    BY <2>6, <2>7, <2>8, <2>9 DEF ProcOK
<1>10. \A p \in Processes : job[p].op # "fork" /\ job[p].pc # "walk"
                            /\ job[p].args = 0
  BY <1>4, <1>7, <1>8
<1>11. OneParent
  BY <1>10 DEF OneParent
<1>12. Counted
  <2>1. HandsOf(job) = {}
    BY <1>10 DEF HandsOf, HandFull
  <2>2. PICK A, N, L : /\ A = ArgsOf(job) /\ N = NodesOf(tab)
                       /\ L = LeavesOf(tab)
    OBVIOUS
  <2>3. \A a \in DOMAIN A : A[a] = {}
    BY <1>10, <2>2 DEF ArgsOf
  <2>4. \A a \in DOMAIN N : N[a] = {}
    BY <1>5, <2>2, NoTableOK DEF NodesOf
  <2>5. \A a \in DOMAIN L : L[a] = {}
    BY <1>5, <2>2, NoTableOK DEF LeavesOf, Mapped
  <2>6. IsFiniteSet(Pairs(A)) /\ Total(A) = 0
    BY <2>3, NoPairs
  <2>7. IsFiniteSet(Pairs(N)) /\ Total(N) = 0
    BY <2>4, NoPairs
  <2>8. IsFiniteSet(Pairs(L)) /\ Total(L) = 0
    BY <2>5, NoPairs
  <2>9. JobsFinite(job) /\ TabsFinite(tab) /\ IsFiniteSet(frame)
    BY <1>5, <2>1, <2>2, <2>6, <2>7, <2>8, FS_EmptySet
       DEF JobsFinite, TabsFinite
  <2>10. JobPages(job) = 0 /\ TabPages(tab) = 0 /\ Cardinality(frame) = 0
    BY <1>5, <2>1, <2>2, <2>6, <2>7, <2>8, FS_EmptySet
       DEF JobPages, TabPages
  <2> QED
    BY <1>5, <2>9, <2>10 DEF Counted
<1> QED
  BY <1>6, <1>9, <1>11, <1>12 DEF MemInv

\* Every step keeps the invariant.
LEMMA MemStepInv ==
  ASSUME MemInv, [MemNext]_memVars
  PROVE  MemInv'
<1>1. CASE UNCHANGED memVars
  <2>1. /\ pages' = pages /\ nfree' = nfree /\ frame' = frame /\ tab' = tab
        /\ sz' = sz /\ job' = job /\ image' = image
    BY <1>1 DEF memVars
  <2>2. MemType' /\ OneParent'
    BY <2>1 DEF MemInv, MemType, OneParent
  <2>3. Counted'
    BY <2>1 DEF MemInv, Counted
  <2>4. \A r \in Processes : ProcOK(r)'
    <3> SUFFICES ASSUME NEW r \in Processes PROVE ProcOK(r)'
      OBVIOUS
    <3>1. Untouched(r) /\ Untouched(Child(r)) /\ (IsKid(r) => IsKid(r)')
      BY <2>1 DEF Untouched, IsKid
    <3>2. MemType /\ ProcOK(r)
      BY DEF MemInv
    <3> QED
      BY <3>1, <3>2, KeepOthers
  <2> QED
    BY <2>2, <2>3, <2>4 DEF MemInv
<1>2. CASE MemNext
  <2>1. PICK p \in Processes : MemStep(p)
    BY <1>2 DEF MemNext
  <2>2. CASE AllocFrame(p)
    BY <2>2, AllocFrameInv
  <2>3. CASE AllocRoot(p)
    BY <2>3, AllocRootInv
  <2>4. CASE \E va \in VPages :
               AllocPage(p, va) \/ MapPage(p, va) \/ Vmfault(p, va)
    BY <2>4, AllocPageInv, MapPageInv, VmfaultInv
  <2>5. CASE \E prog \in Programs : SysExec(p, prog) \/ KexecInit(p, prog)
    BY <2>5, SysExecInv, KexecInitInv
  <2>6. CASE \E bad \in BOOLEAN : FetchArg(p, bad)
    BY <2>6, FetchArgInv
  <2>7. CASE Kexec(p)
    BY <2>7, KexecInv
  <2>8. CASE ExecSegment(p)
    BY <2>8, ExecSegmentInv
  <2>9. CASE ExecBad(p)
    BY <2>9, ExecBadInv
  <2>10. CASE ExecCommit(p)
    BY <2>10, ExecCommitInv
  <2>11. CASE ExecNoRoom(p)
    BY <2>11, ExecNoRoomInv
  <2>12. CASE \E q \in Processes : Kfork(p, q)
    BY <2>12, KforkInv
  <2>13. CASE ForkCopy(p)
    BY <2>13, ForkCopyInv
  <2>14. CASE ForkDone(p)
    BY <2>14, ForkDoneInv
  <2>15. CASE Exit(p)
    BY <2>15, ExitInv
  <2>16. CASE \E n \in Increments :
                Grow(p, n) \/ Shrink(p, n) \/ LazySbrk(p, n)
    <3>1. Increments \subseteq Int
      BY MemoryAssumption
    <3> QED
      BY <2>16, <3>1, GrowInv, ShrinkInv, LazySbrkInv
  <2>17. CASE GrowDone(p)
    BY <2>17, GrowDoneInv
  <2>18. CASE FaultDone(p)
    BY <2>18, FaultDoneInv
  <2>19. CASE \E va \in Written : Store(p, va)
    <3>1. Written \subseteq VPages
      BY MemoryAssumption
    <3> QED
      BY <2>19, <3>1, StoreInv
  <2> QED
    BY <2>1, <2>2, <2>3, <2>4, <2>5, <2>6, <2>7, <2>8, <2>9, <2>10, <2>11,
       <2>12, <2>13, <2>14, <2>15, <2>16, <2>17, <2>18, <2>19 DEF MemStep
<1> QED
  BY <1>1, <1>2

\* What a process that runs finds.
LEMMA RunsFinds ==
  ASSUME MemInv, NEW p \in Processes, Runs(p)
  PROVE  /\ Up(sz[p]) \in Nat /\ Up(sz[p]) <= TRAPFRAME
         /\ \A v \in UserPages :
              /\ image[p][v] = IF tab[Cur(p)].leaf[v] = None THEN "zero"
                               ELSE tab[Cur(p)].leaf[v].c
              /\ tab[Cur(p)].leaf[v] # None => v < Up(sz[p])
<1>1. ~IsKid(p) /\ job[p].op = "none"
  BY RunsOK
<1>2. ProcOK(p) /\ sz[p] \in Nat
  BY DEF MemInv, MemType
<1>3. /\ ImageOK(job[p], tab[Cur(p)], sz[p], image[p])
      /\ SizeOK(sz[p], image[p])
  BY <1>1, <1>2 DEF ProcOK, HoldsImage, SizesOK
<1> QED
  BY <1>1, <1>2, <1>3, UpType DEF ImageOK, SizeOK, Reach

LEMMA ExactNow ==
  ASSUME MemInv
  PROVE  PagesExact
<1>1. MemType /\ Counted
  BY DEF MemInv
<1>2. \A p \in Processes : ~At(p, "panic")
  BY <1>1 DEF MemType, Jobs, JobPcs, At
<1>3. /\ Nodes = NodesOf(tab) /\ Leaves = LeavesOf(tab)
      /\ ArgPages = ArgsOf(job) /\ Hands = HandsOf(job)
  BY DEF Nodes, NodesOf, Leaves, LeavesOf, ArgPages, ArgsOf, Hands, HandsOf,
         At, HandFull
<1>4. nfree + Cardinality(frame) + Cardinality(Hands) + Total(ArgPages)
        + Total(Nodes) + Total(Leaves) = pages
  <2>1. PICK n, f, h, a, x, y \in Nat :
          /\ n = nfree /\ f = Cardinality(frame)
          /\ h = Cardinality(HandsOf(job)) /\ a = Total(ArgsOf(job))
          /\ x = Total(NodesOf(tab)) /\ y = Total(LeavesOf(tab))
    <3>1. nfree \in Nat
      BY <1>1 DEF MemType
    <3>2. /\ Cardinality(frame) \in Nat /\ Cardinality(HandsOf(job)) \in Nat
          /\ Total(ArgsOf(job)) \in Nat
          /\ Total(NodesOf(tab)) \in Nat /\ Total(LeavesOf(tab)) \in Nat
      BY <1>1, FS_CardinalityType
         DEF Counted, JobsFinite, TabsFinite, Total
    <3> QED
      BY <3>1, <3>2
  <2>2. n + f + (h + a) + (x + y) = pages
    BY <1>1, <2>1 DEF Counted, JobPages, TabPages
  <2>3. n + f + h + a + x + y = n + f + (h + a) + (x + y)
    OBVIOUS
  <2> QED
    BY <1>3, <2>1, <2>2, <2>3
<1>5. ASSUME NEW p \in Processes, Runs(p)
      PROVE  Mapped(tab[Cur(p)]) \cap UserPages \subseteq 0 .. Up(sz[p]) - 1
  <2>1. PICK c, u : c = tab[Cur(p)] /\ u = Up(sz[p])
    OBVIOUS
  <2>2. u \in Nat /\ \A v \in UserPages : c.leaf[v] # None => v < u
    BY <1>5, <2>1, RunsFinds
  <2>3. \A v \in Mapped(c) \cap UserPages : v \in Nat /\ v < u
    BY <2>2, MemConst DEF Mapped
  <2>4. Mapped(c) \cap UserPages \subseteq 0 .. u - 1
    BY <2>2, <2>3
  <2> QED
    BY <2>1, <2>4
<1> QED
  BY <1>2, <1>4, <1>5 DEF PagesExact

LEMMA KeptNow ==
  ASSUME MemInv
  PROVE  MemoryKept
<1> SUFFICES ASSUME NEW p \in Processes, Runs(p),
                    NEW v \in 0 .. Up(sz[p]) - 1
             PROVE  image[p][v] = IF tab[Cur(p)].leaf[v] = None THEN "zero"
                                  ELSE tab[Cur(p)].leaf[v].c
  BY DEF MemoryKept
<1>1. Up(sz[p]) \in Nat /\ Up(sz[p]) <= TRAPFRAME
  BY RunsFinds
<1>2. v \in UserPages
  BY <1>1, MemConst
<1> QED
  BY <1>2, RunsFinds

(* The invariant of the memory: every operation, at each of its steps and  *)
(* wherever it fails, leaves every page table, size and count as it should *)
(* be.                                                                     *)
THEOREM MemoryInvariant == MemSpec => []MemInv
<1>1. MemInit => MemInv
  BY MemInitInv
<1>2. MemInv /\ [MemNext]_memVars => MemInv'
  BY MemStepInv
<1> QED
  BY <1>1, <1>2, PTL DEF MemSpec

(* For any number of processes, pages and programs: no page is lost, freed *)
(* twice or used twice, whatever operation fails and wherever, and         *)
(* freewalk(), loadseg() and mappages() never panic.                       *)
THEOREM PagesAreExact == MemSpec => []PagesExact
<1>1. MemInv => PagesExact
  BY ExactNow
<1> QED
  BY <1>1, MemoryInvariant, PTL

(* And a process finds in its memory what it put there, its parent's       *)
(* memory after a fork, and its program after an exec.                     *)
THEOREM MemoryIsKept == MemSpec => []MemoryKept
<1>1. MemInv => MemoryKept
  BY KeptNow
<1> QED
  BY <1>1, MemoryInvariant, PTL
=============================================================================
