------------------------------- MODULE Sieve -------------------------------
(***************************************************************************)
(* The sieve of processes of user/primes.c.  Process 0 is main, process    *)
(* k + 1 the child process k forks; pipe k is the one process k reads and  *)
(* process k - 1 writes.                                                   *)
(*                                                                         *)
(* The pipes carry whole numbers: PIPESIZE is a multiple of the four bytes *)
(* of an int and one process writes, so a pipe fills up at the end of a    *)
(* number only and a read() never finds part of one (Pipe.tla has the      *)
(* bytes).  An end of a pipe is the set of processes that have it open.    *)
(***************************************************************************)
EXTENDS Naturals, Sequences, SequencesExt

CONSTANTS Limit,     \* the largest number main sends (35 in primes.c)
          Capacity,  \* how many numbers a pipe holds (PIPESIZE / 4)
          MaxProcs   \* how many processes the kernel can hold

ASSUME SieveAssumption ==
  Limit \in Nat \ {0} /\ Capacity \in Nat /\ MaxProcs \in Nat \ {0}

VARIABLES place,   \* where each process is
          pipe,    \* what is in each pipe
          rfds,    \* who has the read end of each pipe open
          wfds,    \* who has the write end of each pipe open
          primo,   \* the variable primo of each process
          numero,  \* numero_actual of main, numero_restante of the others
          out,     \* the primes printed
          failed   \* a fork() has failed

sieveVars == <<place, pipe, rfds, wfds, primo, numero, out, failed>>

Stages == 0 .. MaxProcs - 1
Pipes == 1 .. MaxProcs
Numbers == 0 .. Limit
Places == {"unborn", "fork", "parent", "send", "child", "first", "filter",
           "write", "wait", "exited"}

SieveTypeOK ==
  /\ place \in [Stages -> Places]
  /\ pipe \in [Pipes -> Seq(Numbers)]
  /\ \A k \in Pipes : Len(pipe[k]) <= Capacity
  /\ rfds \in [Pipes -> SUBSET Stages]
  /\ wfds \in [Pipes -> SUBSET Stages]
  /\ primo \in [Stages -> Numbers]
  /\ numero \in [Stages -> 0 .. Limit + 1]
  /\ out \in Seq(Numbers)
  /\ failed \in BOOLEAN

SieveInit ==
  /\ place = [k \in Stages |-> IF k = 0 THEN "fork" ELSE "unborn"]
  /\ pipe = [k \in Pipes |-> <<>>]
  /\ rfds = [k \in Pipes |-> {}]
  /\ wfds = [k \in Pipes |-> {}]
  /\ primo = [k \in Stages |-> 0]
  /\ numero = [k \in Stages |-> 0]
  /\ out = <<>>
  /\ failed = FALSE

Moves(k, from, to) == place[k] = from /\ place' = [place EXCEPT ![k] = to]

\* The end of pipe j, as a function, after process k has closed it.
CloseEnd(fds, j, k) == [fds EXCEPT ![j] = @ \ {k}]

\* Exit closes every descriptor of process k.
CloseAll(fds, k) == [j \in Pipes |-> fds[j] \ {k}]
-----------------------------------------------------------------------------
\* pipe() and fork(): the child has every descriptor of its parent, and
\* both have both ends of the new pipe.
Fork(k) ==
  /\ place[k] = "fork"
  /\ k + 1 \in Stages
  /\ place' = [place EXCEPT ![k] = "parent", ![k + 1] = "child"]
  /\ LET Dup(fds) == [j \in Pipes |-> IF k \in fds[j] \/ j = k + 1
                                        THEN fds[j] \cup {k, k + 1}
                                        ELSE fds[j]]
     IN  rfds' = Dup(rfds) /\ wfds' = Dup(wfds)
  /\ UNCHANGED <<pipe, primo, numero, out, failed>>

\* fork() returns -1: the process takes the branch of the child, closes
\* pipeX and the write end of a pipe nobody else has, finds it empty and
\* returns.
ForkFails(k) ==
  /\ Moves(k, "fork", "exited")
  /\ rfds' = CloseAll(rfds, k)
  /\ failed' = TRUE
  /\ UNCHANGED <<pipe, wfds, primo, numero, out>>

\* The parent closes the read end of the new pipe.
ParentCloses(k) ==
  /\ Moves(k, "parent", IF k = 0 THEN "send" ELSE "filter")
  /\ rfds' = CloseEnd(rfds, k + 1, k)
  /\ numero' = IF k = 0 THEN [numero EXCEPT ![0] = 2] ELSE numero
  /\ UNCHANGED <<pipe, wfds, primo, out, failed>>

\* Wrong on purpose: the child forgets to close the write end.
ChildKeepsEnd(k) ==
  /\ Moves(k, "child", "first")
  /\ rfds' = IF k > 1 THEN CloseEnd(rfds, k - 1, k) ELSE rfds
  /\ UNCHANGED <<pipe, wfds, primo, numero, out, failed>>

\* The child closes pipeX and the write end of its own pipe.
ChildCloses(k) ==
  /\ Moves(k, "child", "first")
  /\ rfds' = IF k > 1 THEN CloseEnd(rfds, k - 1, k) ELSE rfds
  /\ wfds' = CloseEnd(wfds, k, k)
  /\ UNCHANGED <<pipe, primo, numero, out, failed>>

\* write() of x into pipe j: it blocks while the pipe is full and has a
\* reader, and its failure without one is ignored.
WritePipe(j, x) ==
  IF rfds[j] = {} THEN UNCHANGED pipe
  ELSE /\ Len(pipe[j]) < Capacity
       /\ pipe' = [pipe EXCEPT ![j] = Append(@, x)]

\* main: one iteration of the loop that sends the numbers.
Send ==
  /\ place[0] = "send"
  /\ numero[0] <= Limit
  /\ WritePipe(1, numero[0])
  /\ numero' = [numero EXCEPT ![0] = @ + 1]
  /\ UNCHANGED <<place, rfds, wfds, primo, out, failed>>

\* main: the loop is over, close the pipe.
SendDone ==
  /\ numero[0] = Limit + 1
  /\ Moves(0, "send", "wait")
  /\ wfds' = CloseEnd(wfds, 1, 0)
  /\ UNCHANGED <<pipe, rfds, primo, numero, out, failed>>

\* The first read() returns a number: print it.
FirstRead(k) ==
  /\ Moves(k, "first", "fork")
  /\ pipe[k] # <<>>
  /\ primo' = [primo EXCEPT ![k] = Head(pipe[k])]
  /\ out' = Append(out, Head(pipe[k]))
  /\ pipe' = [pipe EXCEPT ![k] = Tail(@)]
  /\ UNCHANGED <<rfds, wfds, numero, failed>>

\* The first read() finds the end of the file: return, exit.
FirstEnd(k) ==
  /\ Moves(k, "first", "exited")
  /\ pipe[k] = <<>> /\ wfds[k] = {}
  /\ rfds' = CloseAll(rfds, k)
  /\ UNCHANGED <<pipe, wfds, primo, numero, out, failed>>

\* Wrong on purpose: the filter lets every number through.
FilterAll(k) ==
  /\ place[k] = "filter"
  /\ pipe[k] # <<>>
  /\ numero' = [numero EXCEPT ![k] = Head(pipe[k])]
  /\ pipe' = [pipe EXCEPT ![k] = Tail(@)]
  /\ place' = [place EXCEPT ![k] = "write"]
  /\ UNCHANGED <<rfds, wfds, primo, out, failed>>

\* Read the next number; a multiple of primo is dropped.
Filter(k) ==
  /\ place[k] = "filter"
  /\ pipe[k] # <<>>
  /\ numero' = [numero EXCEPT ![k] = Head(pipe[k])]
  /\ pipe' = [pipe EXCEPT ![k] = Tail(@)]
  /\ place' = [place EXCEPT ![k] =
                 IF Head(pipe[k]) % primo[k] # 0 THEN "write" ELSE "filter"]
  /\ UNCHANGED <<rfds, wfds, primo, out, failed>>

\* Send the number on to the child.
FilterWrite(k) ==
  /\ Moves(k, "write", "filter")
  /\ WritePipe(k + 1, numero[k])
  /\ UNCHANGED <<rfds, wfds, primo, numero, out, failed>>

\* The end of the numbers: close both pipes, then wait for the child.
FilterEnd(k) ==
  /\ Moves(k, "filter", "wait")
  /\ pipe[k] = <<>> /\ wfds[k] = {}
  /\ wfds' = CloseEnd(wfds, k + 1, k)
  /\ rfds' = CloseEnd(rfds, k, k)
  /\ UNCHANGED <<pipe, primo, numero, out, failed>>

\* wait(0) returns when the child has exited; then return, exit.
WaitChild(k) ==
  /\ Moves(k, "wait", "exited")
  /\ place[k + 1] = "exited"
  /\ UNCHANGED <<pipe, rfds, wfds, primo, numero, out, failed>>
-----------------------------------------------------------------------------
SieveStep(k) ==
  \/ Fork(k) \/ ForkFails(k) \/ ParentCloses(k)
  \/ k = 0 /\ (Send \/ SendDone)
  \/ k > 0 /\ (\/ ChildCloses(k) \/ FirstRead(k) \/ FirstEnd(k)
               \/ Filter(k) \/ FilterWrite(k) \/ FilterEnd(k))
  \/ WaitChild(k)

SieveNext == \E k \in Stages : SieveStep(k)

(* The scheduler runs every process that is not blocked in a system call.  *)
SieveSpec ==
  /\ SieveInit /\ [][SieveNext]_sieveVars
  /\ \A k \in Stages : WF_sieveVars(SieveStep(k))
-----------------------------------------------------------------------------
IsPrime(x) == x > 1 /\ \A d \in 2 .. x - 1 : x % d # 0

(* The processes print primes only, in increasing order and without a gap, *)
(* however they are scheduled, even after a fork() has failed; and all of  *)
(* them before main ends, unless a fork() failed.                          *)
PrintsPrimes ==
  /\ \A i \in DOMAIN out : IsPrime(out[i])
  /\ \A i, j \in DOMAIN out : i < j => out[i] < out[j]
  /\ \A x \in Numbers : IsPrime(x) /\ x \notin Range(out) =>
       /\ \A i \in DOMAIN out : out[i] < x
       /\ place[0] = "exited" => failed

(* When main ends, so have all the others: the chain of wait() calls       *)
(* leaves no process behind, even after a fork() has failed.               *)
NobodyLeft ==
  place[0] = "exited" => \A k \in Stages : place[k] \in {"unborn", "exited"}

(* The sieve is correct at every moment: the numbers it prints, and the    *)
(* processes it leaves behind.                                             *)
SieveSound == PrintsPrimes /\ NobodyLeft

(* The program ends: the processes never wait for each other in a circle   *)
(* and no reader waits for an end of file that a forgotten descriptor      *)
(* keeps away.                                                             *)
SieveEnds == <>(place[0] = "exited")
=============================================================================
