------------------------------ MODULE Threads ------------------------------
(***************************************************************************)
(* User-level threads (user/threads.c, user/thread_switch.S): a fixed      *)
(* table of cooperative threads inside one process.                        *)
(*                                                                         *)
(* The registers s0-s11, ra and sp that switch_context() saves and loads   *)
(* are one value, a context: which stack sp is in, which function is       *)
(* running and whether it is at its first instruction, where thread_create *)
(* points ra, or further on.                                               *)
(***************************************************************************)
EXTENDS Naturals

CONSTANTS MAX_THREADS,  \* the size of thread_pool
          Functions     \* the functions given to thread_create()

ASSUME ThreadsAssumption == MAX_THREADS \in Nat \ {0}

VARIABLES estado,  \* thread_pool[i].estado_thread
          saved,   \* the registers in thread_pool[i]
          regs     \* the registers of the processor

threadsVars == <<estado, saved, regs>>

Slots == 0 .. MAX_THREADS - 1
Estados == {"LIBRE", "LISTA_PARA_CORRER", "CORRIENDO"}

\* Contexts; MAX_THREADS stands for the stack the process was started on,
\* and the zeroed registers of a new table are those of main, unused.
Main(at) == [stack |-> MAX_THREADS, code |-> "main", at |-> at]
Contexts == [stack : 0 .. MAX_THREADS, code : Functions \cup {"main"},
             at : {"entry", "body"}]

ThreadsTypeOK ==
  /\ estado \in [Slots -> Estados]
  /\ saved \in [Slots -> Contexts]
  /\ regs \in Contexts

ThreadsInit ==
  /\ estado = [s \in Slots |-> "LIBRE"]
  /\ saved = [s \in Slots |-> Main("entry")]
  /\ regs = Main("body")

Libres == {s \in Slots : estado[s] = "LIBRE"}
Listas == {s \in Slots : estado[s] = "LISTA_PARA_CORRER"}
Corriendo == {s \in Slots : estado[s] = "CORRIENDO"}

\* The first of a set of slots, in the order the loops visit them.
First(S) == CHOOSE s \in S : \A t \in S : s <= t

\* The function has gone past its first instructions.
EnterFunction ==
  /\ regs.at = "entry"
  /\ regs' = [regs EXCEPT !.at = "body"]
  /\ UNCHANGED <<estado, saved>>

\* thread_create(f): the first free slot, or a message if there is none.
ThreadCreate(f) ==
  /\ regs.at = "body"
  /\ Libres # {}
  /\ LET s == First(Libres)
     IN  /\ saved' = [saved EXCEPT ![s] =
                        [stack |-> s, code |-> f, at |-> "entry"]]
         /\ estado' = [estado EXCEPT ![s] = "LISTA_PARA_CORRER"]
  /\ UNCHANGED regs

\* main calls thread_init(), once: its own thread takes slot 0.
ThreadInit ==
  /\ regs = Main("body")
  /\ Corriendo = {}
  /\ estado' = [estado EXCEPT ![0] = "CORRIENDO"]
  /\ UNCHANGED <<saved, regs>>

\* Wrong on purpose: switch_context() with its arguments exchanged.
ThreadScheduleSwapped ==
  /\ regs.at = "body"
  /\ Listas # {} /\ Corriendo # {}
  /\ LET s == First(Listas)
         x == First(Corriendo)
     IN  /\ estado' = [estado EXCEPT ![s] = "CORRIENDO",
                                     ![x] = "LISTA_PARA_CORRER"]
         /\ saved' = [saved EXCEPT ![s] = regs]
         /\ regs' = saved[x]

\* thread_schedule(): from the first thread that is CORRIENDO to the first
\* one that is ready, by switch_context(); without both nothing happens.
ThreadSchedule ==
  /\ regs.at = "body"
  /\ Listas # {} /\ Corriendo # {}
  /\ LET s == First(Listas)
         x == First(Corriendo)
     IN  /\ estado' = [estado EXCEPT ![s] = "CORRIENDO",
                                     ![x] = "LISTA_PARA_CORRER"]
         /\ saved' = [saved EXCEPT ![x] = regs]
         /\ regs' = saved[s]

\* The function of a thread returns: ra still holds what thread_create()
\* put there, so it starts again on the same stack.
FunctionReturns ==
  /\ regs.at = "body"
  /\ regs.code # "main"
  /\ regs' = [regs EXCEPT !.at = "entry"]
  /\ UNCHANGED <<estado, saved>>

ThreadsNext ==
  \/ EnterFunction
  \/ \E f \in Functions : ThreadCreate(f)
  \/ ThreadInit
  \/ ThreadSchedule
  \/ FunctionReturns

ThreadsSpec == ThreadsInit /\ [][ThreadsNext]_threadsVars
-----------------------------------------------------------------------------
\* The stack that the thread in slot s runs on, once thread_init() is done.
StackOf(s) == IF s = 0 THEN MAX_THREADS ELSE s

(* One thread is CORRIENDO at a time, and it is the one whose stack the    *)
(* processor is on: thread_schedule() finds the running thread by its      *)
(* state.  Before thread_init() the only thread is main.                   *)
RunningIsExecuting ==
  \/ Corriendo = {} /\ regs = Main("body")
  \/ \E s \in Slots : Corriendo = {s} /\ regs.stack = StackOf(s)

(* After thread_init(), every thread that is ready has its own stack in    *)
(* its saved registers, so no two threads ever run on one stack, whoever   *)
(* creates threads and whenever.                                           *)
StacksSeparate ==
  Corriendo # {} => \A s \in Listas : saved[s].stack = StackOf(s)

(* thread_schedule() always searches from slot 0, so that only the threads *)
(* in slots 0 and 1 ever run: those that come after stay as they were      *)
(* created.                                                                *)
OnlyFirstTwoRun ==
  \A s \in Slots : s > 1 => estado[s] # "CORRIENDO" /\ saved[s].at = "entry"

(* The scheduler by itself: whoever is CORRIENDO executes, nobody runs on  *)
(* the stack of another, and nobody but the first two slots gets a turn.   *)
ThreadsSound == RunningIsExecuting /\ StacksSeparate /\ OnlyFirstTwoRun
=============================================================================
