------------------------------ MODULE Channel ------------------------------
(***************************************************************************)
(* What a pipe promises: a bounded first-in first-out queue of bytes with  *)
(* two ends, each of which can be closed once.  Nothing is sent after the  *)
(* write end is closed or into a pipe without a reader, nothing is         *)
(* received through a closed read end, and what is received is what was    *)
(* sent first and not yet received.                                        *)
(***************************************************************************)
EXTENDS Naturals, Sequences

CONSTANTS Bytes,     \* the values of a byte
          Capacity   \* how many bytes the queue holds

VARIABLES queue,      \* the bytes sent and not received
          received,   \* the byte received last
          readopen,   \* the read end is open
          writeopen   \* the write end is open

chvars == <<queue, received, readopen, writeopen>>

Init ==
  /\ queue = <<>>
  /\ received \in Bytes
  /\ readopen = TRUE
  /\ writeopen = TRUE

Send(b) ==
  /\ readopen
  /\ writeopen
  /\ Len(queue) < Capacity
  /\ queue' = Append(queue, b)
  /\ UNCHANGED <<received, readopen, writeopen>>

Receive ==
  /\ readopen
  /\ queue # <<>>
  /\ received' = Head(queue)
  /\ queue' = Tail(queue)
  /\ UNCHANGED <<readopen, writeopen>>

CloseRead ==
  /\ readopen
  /\ readopen' = FALSE
  /\ UNCHANGED <<queue, received, writeopen>>

CloseWrite ==
  /\ writeopen
  /\ writeopen' = FALSE
  /\ UNCHANGED <<queue, received, readopen>>

Next == (\E b \in Bytes : Send(b)) \/ Receive \/ CloseRead \/ CloseWrite

Spec == Init /\ [][Next]_chvars
=============================================================================
