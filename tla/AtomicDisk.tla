----------------------------- MODULE AtomicDisk -----------------------------
(***************************************************************************)
(* What the logging layer promises the file system: system calls read and  *)
(* write a current view of the disk, and a crash takes that view back to   *)
(* a state in which no system call was under way.  In between, the durable *)
(* state catches up with the view all at once.                             *)
(***************************************************************************)
CONSTANTS Procs, Blocks, Values

VARIABLES durable,  \* what a crash leaves behind
          view,     \* what system calls see
          open      \* the processes between begin_op() and end_op()

vars == <<durable, view, open>>

Init ==
  /\ durable \in [Blocks -> Values]
  /\ view = durable
  /\ open = {}

Begin(p) ==
  /\ p \notin open
  /\ open' = open \cup {p}
  /\ UNCHANGED <<durable, view>>

Write(p, b, v) ==
  /\ p \in open
  /\ view' = [view EXCEPT ![b] = v]
  /\ UNCHANGED <<durable, open>>

End(p) ==
  /\ p \in open
  /\ open' = open \ {p}
  /\ UNCHANGED <<durable, view>>

Commit ==
  /\ open = {}
  /\ durable' = view
  /\ UNCHANGED <<view, open>>

Crash ==
  /\ view' = durable
  /\ open' = {}
  /\ UNCHANGED durable

Next ==
  \/ \E p \in Procs : Begin(p) \/ End(p)
  \/ \E p \in Procs, b \in Blocks, v \in Values : Write(p, b, v)
  \/ Commit
  \/ Crash

Spec == Init /\ [][Next]_vars
=============================================================================
