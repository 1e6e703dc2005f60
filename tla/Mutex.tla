------------------------------- MODULE Mutex -------------------------------
(***************************************************************************)
(* What a lock promises its users, and nothing else: it is free or it has  *)
(* exactly one holder, and only its holder frees it.  The sleep lock of    *)
(* kernel/sleeplock.c is shown to implement this specification.            *)
(***************************************************************************)
CONSTANTS Procs, NoProc

VARIABLE holder

Init == holder = NoProc

Take(p) == holder = NoProc /\ holder' = p

Give(p) == holder = p /\ holder' = NoProc

Next == \E p \in Procs : Take(p) \/ Give(p)

Spec == Init /\ [][Next]_holder
=============================================================================
