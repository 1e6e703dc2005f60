----------------------------- MODULE PipeProofs -----------------------------
(***************************************************************************)
(* The safety properties of Pipe, for any processes, bytes, ring size and  *)
(* counter width.                                                          *)
(*                                                                         *)
(* The invariant says who has the lock, that a call or a close under way   *)
(* goes with a reference to its file, and where a process can be while it  *)
(* is registered on a channel.                                             *)
(***************************************************************************)
EXTENDS Pipe, ModLemmas

\* The process inside a critical section of pi->lock holds it, and only it.
LockHeld ==
  \A p \in Procs : lock = p <=> pc[p] \in {"write", "read", "copy"}

\* A call on an end has a reference to its file, whose last fileclose() is
\* followed by exactly one pipeclose().
Referenced ==
  /\ \A p \in Procs : pc[p] \in Reading => p \in rfds
  /\ \A p \in Procs : pc[p] \in Writing => p \in wfds
  /\ \A p \in Procs : pc[p] = "closer" => rfds = {} /\ readopen
  /\ \A p \in Procs : pc[p] = "closew" => wfds = {} /\ writeopen
  /\ \A p, q \in Procs : pc[p] = "closer" /\ pc[q] = "closer" => p = q
  /\ \A p, q \in Procs : pc[p] = "closew" /\ pc[q] = "closew" => p = q
  /\ rfds # {} => readopen
  /\ wfds # {} => writeopen
  /\ freed => ~readopen /\ ~writeopen

\* A process sleeps, or is about to, in the call that registered it.
SleepsInCall ==
  \A p \in Procs :
    /\ pc[p] = "rsleep" => chan[p] \in {"0", "nread"}
    /\ pc[p] = "wsleep" => chan[p] \in {"0", "nwrite"}
    /\ state[p] = "SLEEPING" => \/ pc[p] = "rlock" /\ chan[p] = "nread"
                                \/ pc[p] = "wlock" /\ chan[p] = "nwrite"

\* What the calls that hold the lock have counted.
Counted ==
  \A p \in Procs :
    /\ i[p] <= n[p]
    /\ pc[p] \notin Reading \cup Writing => i[p] = 0

Shape == TypeOK /\ LockHeld /\ Referenced /\ SleepsInCall /\ Counted
IInv == Shape /\ EofOnlyAtEnd /\ ReadersWoken /\ WritersNotForgotten
-----------------------------------------------------------------------------
\* The counters stay below 2^32 and index the ring.
LEMMA Counters ==
  /\ \A k \in Nat : k % PipeSize \in 0 .. PipeSize - 1
  /\ \A k \in Nat : k % CounterMod \in 0 .. CounterMod - 1
  BY PipeAssumption

\* A new pipe satisfies the invariant.
LEMMA InitIInv == Init => IInv
<1> SUFFICES ASSUME Init PROVE IInv
  OBVIOUS
<1> USE PipeAssumption DEF Init
<1>1. TypeOK
  <2>1. data \in [0 .. PipeSize - 1 -> Bytes] /\ ch \in Bytes
    OBVIOUS
  <2>2. rfds \in SUBSET Procs /\ wfds \in SUBSET Procs
    OBVIOUS
  <2>3. nread \in 0 .. CounterMod - 1 /\ nwrite \in 0 .. CounterMod - 1
    OBVIOUS
  <2>4. n \in [Procs -> 0 .. MaxN] /\ i \in [Procs -> 0 .. MaxN]
    OBVIOUS
  <2>5. /\ chan \in [Procs -> Chans] /\ state \in [Procs -> States]
        /\ pc \in [Procs -> PCs]
    BY DEF PCs, Reading, Writing, States, Chans
  <2> QED
    BY <2>1, <2>2, <2>3, <2>4, <2>5 DEF TypeOK
<1>2. LockHeld /\ Referenced /\ SleepsInCall /\ Counted
  BY DEF LockHeld, Referenced, SleepsInCall, Counted, Reading, Writing
<1>3. EofOnlyAtEnd /\ ReadersWoken /\ WritersNotForgotten
  BY DEF EofOnlyAtEnd, ReadersWoken, ReaderHasReason, WritersNotForgotten,
         Waits, Empty
<1> QED
  BY <1>1, <1>2, <1>3 DEF IInv, Shape

\* Every step keeps the types.
LEMMA TypeStep == Shape /\ [Next]_vars => TypeOK'
<1> SUFFICES ASSUME Shape, [Next]_vars PROVE TypeOK'
  OBVIOUS
<1> USE PipeAssumption
        DEF Shape, TypeOK, Counted, PCs, Reading, Writing, States, Chans,
            pipe, fds
<1>1. ASSUME NEW p \in Procs, NEW m \in 0 .. MaxN, CallWrite(p, m) PROVE TypeOK'
  BY <1>1 DEF CallWrite, Goto
<1>2. ASSUME NEW p \in Procs, WriteLock(p) PROVE TypeOK'
  BY <1>2 DEF WriteLock, Goto
<1>3. ASSUME NEW p \in Procs, WriteAbort(p) PROVE TypeOK'
  BY <1>3 DEF WriteAbort, Return
<1>4. ASSUME NEW p \in Procs, WriteFull(p) PROVE TypeOK'
  BY <1>4 DEF WriteFull, CanWrite
<1>5. ASSUME NEW p \in Procs, NEW b \in Bytes, WriteByte(p, b) PROVE TypeOK'
  BY <1>5 DEF WriteByte, CanWrite
<1>6. ASSUME NEW p \in Procs, WriteFault(p) PROVE TypeOK'
  BY <1>6 DEF WriteFault, CanWrite, Wakeup, Return
<1>7. ASSUME NEW p \in Procs, WriteDone(p) PROVE TypeOK'
  BY <1>7 DEF WriteDone, Wakeup, Return
<1>8. ASSUME NEW p \in Procs, NEW m \in 0 .. MaxN, CallRead(p, m) PROVE TypeOK'
  BY <1>8 DEF CallRead, Goto
<1>9. ASSUME NEW p \in Procs, ReadLock(p) PROVE TypeOK'
  BY <1>9 DEF ReadLock, Goto
<1>10. ASSUME NEW p \in Procs, ReadAbort(p) PROVE TypeOK'
  BY <1>10 DEF ReadAbort, Return
<1>11. ASSUME NEW p \in Procs, ReadWait(p) PROVE TypeOK'
  BY <1>11 DEF ReadWait, Goto
<1>12. ASSUME NEW p \in Procs, ReadStart(p) PROVE TypeOK'
  BY <1>12 DEF ReadStart, Goto
<1>13. ASSUME NEW p \in Procs, ReadByte(p) PROVE TypeOK'
  BY <1>13 DEF ReadByte
<1>14. ASSUME NEW p \in Procs, ReadFault(p) PROVE TypeOK'
  BY <1>14 DEF ReadFault, Wakeup, Return
<1>15. ASSUME NEW p \in Procs, ReadDone(p) PROVE TypeOK'
  BY <1>15 DEF ReadDone, Wakeup, Return
<1>16. ASSUME NEW p \in Procs, Sleep(p) PROVE TypeOK'
  BY <1>16 DEF Sleep, Goto
<1>17. ASSUME NEW p \in Procs, DropRead(p) PROVE TypeOK'
  BY <1>17 DEF DropRead
<1>18. ASSUME NEW p \in Procs, DropWrite(p) PROVE TypeOK'
  BY <1>18 DEF DropWrite
<1>19. ASSUME NEW p \in Procs, PipeCloseRead(p) PROVE TypeOK'
  BY <1>19 DEF PipeCloseRead, Wakeup, Goto
<1>20. ASSUME NEW p \in Procs, PipeCloseWrite(p) PROVE TypeOK'
  BY <1>20 DEF PipeCloseWrite, Wakeup, Goto
<1>21. ASSUME NEW p \in Procs, NEW q \in Procs, Fork(p, q) PROVE TypeOK'
  BY <1>21 DEF Fork
<1>22. ASSUME NEW p \in Procs, Kill(p) PROVE TypeOK'
  BY <1>22 DEF Kill
<1>23. CASE UNCHANGED vars
  BY <1>23 DEF vars, pipe, fds
<1> QED
  BY <1>1, <1>2, <1>3, <1>4, <1>5, <1>6, <1>7, <1>8, <1>9, <1>10,
     <1>11, <1>12, <1>13, <1>14, <1>15, <1>16, <1>17, <1>18, <1>19,
     <1>20, <1>21, <1>22, <1>23 DEF Next, Step, User

\* Every step keeps the lock, the references and the channels in order.
LEMMA ShapeStep == Shape /\ [Next]_vars => Shape'
<1> SUFFICES ASSUME Shape, [Next]_vars, TypeOK' PROVE Shape'
  BY TypeStep
<1> USE PipeAssumption
        DEF Shape, TypeOK, LockHeld, Referenced, SleepsInCall, Counted,
            PCs, Reading, Writing, States, Chans, pipe, fds
<1>1. ASSUME NEW p \in Procs, NEW m \in 0 .. MaxN, CallWrite(p, m) PROVE Shape'
  BY <1>1 DEF CallWrite, Goto
<1>2. ASSUME NEW p \in Procs, WriteLock(p) PROVE Shape'
  BY <1>2 DEF WriteLock, Goto
<1>3. ASSUME NEW p \in Procs, WriteAbort(p) PROVE Shape'
  BY <1>3 DEF WriteAbort, Return
<1>4. ASSUME NEW p \in Procs, WriteFull(p) PROVE Shape'
  BY <1>4 DEF WriteFull, CanWrite
<1>5. ASSUME NEW p \in Procs, NEW b \in Bytes, WriteByte(p, b) PROVE Shape'
  BY <1>5 DEF WriteByte, CanWrite
<1>6. ASSUME NEW p \in Procs, WriteFault(p) PROVE Shape'
  BY <1>6 DEF WriteFault, CanWrite, Wakeup, Return
<1>7. ASSUME NEW p \in Procs, WriteDone(p) PROVE Shape'
  BY <1>7 DEF WriteDone, Wakeup, Return
<1>8. ASSUME NEW p \in Procs, NEW m \in 0 .. MaxN, CallRead(p, m) PROVE Shape'
  <2> USE <1>8 DEF CallRead, Goto
  <2>1. LockHeld'
    OBVIOUS
  <2>2. Referenced'
    OBVIOUS
  <2>3. SleepsInCall'
    OBVIOUS
  <2>4. Counted'
    OBVIOUS
  <2> QED
    BY <2>1, <2>2, <2>3, <2>4
<1>9. ASSUME NEW p \in Procs, ReadLock(p) PROVE Shape'
  BY <1>9 DEF ReadLock, Goto
<1>10. ASSUME NEW p \in Procs, ReadAbort(p) PROVE Shape'
  BY <1>10 DEF ReadAbort, Return
<1>11. ASSUME NEW p \in Procs, ReadWait(p) PROVE Shape'
  BY <1>11 DEF ReadWait, Goto
<1>12. ASSUME NEW p \in Procs, ReadStart(p) PROVE Shape'
  BY <1>12 DEF ReadStart, Goto
<1>13. ASSUME NEW p \in Procs, ReadByte(p) PROVE Shape'
  BY <1>13 DEF ReadByte
<1>14. ASSUME NEW p \in Procs, ReadFault(p) PROVE Shape'
  BY <1>14 DEF ReadFault, Wakeup, Return
<1>15. ASSUME NEW p \in Procs, ReadDone(p) PROVE Shape'
  BY <1>15 DEF ReadDone, Wakeup, Return
<1>16. ASSUME NEW p \in Procs, Sleep(p) PROVE Shape'
  <2>1. /\ pc' = [pc EXCEPT ![p] = IF pc[p] = "wsleep" THEN "wlock"
                                                   ELSE "rlock"]
        /\ pc[p] \in {"wsleep", "rsleep"}
    BY <1>16 DEF Sleep, Goto
  <2>2. UNCHANGED <<lock, pipe, fds, chan, n, i>>
    BY <1>16 DEF Sleep
  <2>3. LockHeld'
    BY <2>1, <2>2
  <2>4. Referenced'
    BY <2>1, <2>2
  <2>5. SleepsInCall'
    BY <2>1, <2>2, <1>16 DEF Sleep
  <2>6. Counted'
    BY <2>1, <2>2
  <2> QED
    BY <2>3, <2>4, <2>5, <2>6
<1>17. ASSUME NEW p \in Procs, DropRead(p) PROVE Shape'
  <2>1. LockHeld' /\ SleepsInCall' /\ Counted'
    BY <1>17 DEF DropRead
  <2>2. Referenced'
    BY <1>17 DEF DropRead
  <2> QED
    BY <2>1, <2>2
<1>18. ASSUME NEW p \in Procs, DropWrite(p) PROVE Shape'
  <2>1. LockHeld' /\ SleepsInCall' /\ Counted'
    BY <1>18 DEF DropWrite
  <2>2. Referenced'
    BY <1>18 DEF DropWrite
  <2> QED
    BY <2>1, <2>2
<1>19. ASSUME NEW p \in Procs, PipeCloseRead(p) PROVE Shape'
  BY <1>19 DEF PipeCloseRead, Wakeup, Goto
<1>20. ASSUME NEW p \in Procs, PipeCloseWrite(p) PROVE Shape'
  BY <1>20 DEF PipeCloseWrite, Wakeup, Goto
<1>21. ASSUME NEW p \in Procs, NEW q \in Procs, Fork(p, q) PROVE Shape'
  BY <1>21 DEF Fork
<1>22. ASSUME NEW p \in Procs, Kill(p) PROVE Shape'
  BY <1>22 DEF Kill
<1>23. CASE UNCHANGED vars
  BY <1>23 DEF vars, pipe, fds
<1> QED
  BY <1>1, <1>2, <1>3, <1>4, <1>5, <1>6, <1>7, <1>8, <1>9, <1>10,
     <1>11, <1>12, <1>13, <1>14, <1>15, <1>16, <1>17, <1>18, <1>19,
     <1>20, <1>21, <1>22, <1>23 DEF Next, Step, User

\* Every step keeps the promises to readers and writers.
LEMMA NextIInv == IInv /\ [Next]_vars => IInv'
<1> SUFFICES ASSUME IInv, [Next]_vars, Shape'
             PROVE  EofOnlyAtEnd' /\ ReadersWoken' /\ WritersNotForgotten'
  BY ShapeStep DEF IInv
<1> DEFINE Goal == EofOnlyAtEnd /\ ReadersWoken /\ WritersNotForgotten
<1> USE PipeAssumption
        DEF IInv, Shape, TypeOK, LockHeld, Referenced, SleepsInCall, Counted,
            PCs, Reading, Writing, States, Chans, pipe, fds, EofOnlyAtEnd,
            ReadersWoken, ReaderHasReason, WritersNotForgotten, Waits, Empty,
            Full
<1>1. ASSUME NEW p \in Procs, NEW m \in 0 .. MaxN, CallWrite(p, m) PROVE Goal'
  BY <1>1 DEF CallWrite, Goto
<1>2. ASSUME NEW p \in Procs, WriteLock(p) PROVE Goal'
  BY <1>2 DEF WriteLock, Goto
<1>3. ASSUME NEW p \in Procs, WriteAbort(p) PROVE Goal'
  BY <1>3 DEF WriteAbort, Return
<1>4. ASSUME NEW p \in Procs, WriteFull(p) PROVE Goal'
  <2> USE <1>4 DEF WriteFull, CanWrite
  <2>1. EofOnlyAtEnd'
    OBVIOUS
  <2>2. ASSUME NEW q \in Procs, Waits(q, "nread")' PROVE FALSE
    BY <2>2
  <2>3. WritersNotForgotten'
    OBVIOUS
  <2> QED
    BY <2>1, <2>2, <2>3
<1>5. ASSUME NEW p \in Procs, NEW b \in Bytes, WriteByte(p, b) PROVE Goal'
  BY <1>5 DEF WriteByte, CanWrite
<1>6. ASSUME NEW p \in Procs, WriteFault(p) PROVE Goal'
  BY <1>6 DEF WriteFault, CanWrite, Wakeup, Return
<1>7. ASSUME NEW p \in Procs, WriteDone(p) PROVE Goal'
  BY <1>7 DEF WriteDone, Wakeup, Return
<1>8. ASSUME NEW p \in Procs, NEW m \in 0 .. MaxN, CallRead(p, m) PROVE Goal'
  BY <1>8 DEF CallRead, Goto
<1>9. ASSUME NEW p \in Procs, ReadLock(p) PROVE Goal'
  BY <1>9 DEF ReadLock, Goto
<1>10. ASSUME NEW p \in Procs, ReadAbort(p) PROVE Goal'
  BY <1>10 DEF ReadAbort, Return
<1>11. ASSUME NEW p \in Procs, ReadWait(p) PROVE Goal'
  BY <1>11 DEF ReadWait, Goto
<1>12. ASSUME NEW p \in Procs, ReadStart(p) PROVE Goal'
  BY <1>12 DEF ReadStart, Goto
<1>13. ASSUME NEW p \in Procs, ReadByte(p) PROVE Goal'
  BY <1>13 DEF ReadByte
<1>14. ASSUME NEW p \in Procs, ReadFault(p) PROVE Goal'
  BY <1>14 DEF ReadFault, Wakeup, Return
<1>15. ASSUME NEW p \in Procs, ReadDone(p) PROVE Goal'
  BY <1>15 DEF ReadDone, Wakeup, Return
<1>16. ASSUME NEW p \in Procs, Sleep(p) PROVE Goal'
  BY <1>16 DEF Sleep, Goto
<1>17. ASSUME NEW p \in Procs, DropRead(p) PROVE Goal'
  BY <1>17 DEF DropRead
<1>18. ASSUME NEW p \in Procs, DropWrite(p) PROVE Goal'
  BY <1>18 DEF DropWrite
<1>19. ASSUME NEW p \in Procs, PipeCloseRead(p) PROVE Goal'
  BY <1>19 DEF PipeCloseRead, Wakeup, Goto
<1>20. ASSUME NEW p \in Procs, PipeCloseWrite(p) PROVE Goal'
  BY <1>20 DEF PipeCloseWrite, Wakeup, Goto
<1>21. ASSUME NEW p \in Procs, NEW q \in Procs, Fork(p, q) PROVE Goal'
  BY <1>21 DEF Fork
<1>22. ASSUME NEW p \in Procs, Kill(p) PROVE Goal'
  BY <1>22 DEF Kill
<1>23. CASE UNCHANGED vars
  BY <1>23 DEF vars, pipe, fds
<1> QED
  BY ONLY [Next]_vars, <1>1, <1>2, <1>3, <1>4, <1>5, <1>6, <1>7, <1>8,
     <1>9, <1>10,
     <1>11, <1>12, <1>13, <1>14, <1>15, <1>16, <1>17, <1>18, <1>19,
     <1>20, <1>21, <1>22, <1>23 DEF Next, Step, User

\* The invariant holds in every reachable state.
LEMMA Invariant == Spec => []IInv
  BY InitIInv, NextIInv, PTL DEF Spec

(* The variables of the pipe keep their types: in particular nread and     *)
(* nwrite stay within a uint and index the ring within its bounds.         *)
THEOREM TypeCorrect == Spec => []TypeOK
<1>1. IInv => TypeOK
  BY DEF IInv, Shape
<1> QED
  BY <1>1, Invariant, PTL

(* The page of a pipe is not used after it has been freed, for any number  *)
(* of processes that share the descriptors.                                *)
THEOREM FreedUnused == Spec => []NoUseAfterFree
<1>1. IInv => NoUseAfterFree
  BY DEF IInv, Shape, TypeOK, LockHeld, Referenced, NoUseAfterFree, PCs,
         Reading, Writing
<1> QED
  BY <1>1, Invariant, PTL

(* A read() sees the end of the stream only when there is one.             *)
THEOREM EofCorrect == Spec => []EofOnlyAtEnd
<1>1. IInv => EofOnlyAtEnd
  BY DEF IInv
<1> QED
  BY <1>1, Invariant, PTL

(* As long as nobody is killed, no reader sleeps through a wakeup.         *)
THEOREM ReadersWake == Spec => []ReadersWoken
<1>1. IInv => ReadersWoken
  BY DEF IInv
<1> QED
  BY <1>1, Invariant, PTL

(* No writer sleeps through a wakeup, even when processes are killed.      *)
THEOREM WritersWake == Spec => []WritersNotForgotten
<1>1. IInv => WritersNotForgotten
  BY DEF IInv
<1> QED
  BY <1>1, Invariant, PTL
-----------------------------------------------------------------------------
\* The number of bytes in the ring, without remainders.
LEMMA DifferenceIs ==
  ASSUME NEW r \in 0 .. CounterMod - 1, NEW w \in 0 .. CounterMod - 1
  PROVE  (w - r) % CounterMod = IF w >= r THEN w - r ELSE w - r + CounterMod
<1>1. CounterMod \in Nat \ {0}
  BY PipeAssumption
<1>2. CASE w >= r
  <2>1. w - r \in 0 .. CounterMod - 1
    BY <1>1, <1>2
  <2> QED
    BY <1>1, <1>2, <2>1, RemSmall
<1>3. CASE w < r
  <2>1. w - r \in -CounterMod .. -1
    BY <1>1, <1>3
  <2>2. (w - r) % CounterMod = w - r + CounterMod
    BY <1>1, <2>1, RemNeg
  <2> QED
    BY <2>2, <1>3, <1>1
<1> QED
  BY <1>1, <1>2, <1>3

LEMMA SizeIs ==
  ASSUME TypeOK
  PROVE  /\ Size \in 0 .. CounterMod - 1
         /\ Size = IF nwrite >= nread THEN nwrite - nread
                                     ELSE nwrite - nread + CounterMod
<1>1. nread \in 0 .. CounterMod - 1 /\ nwrite \in 0 .. CounterMod - 1
  BY DEF TypeOK
<1>2. Size = IF nwrite >= nread THEN nwrite - nread
                                ELSE nwrite - nread + CounterMod
  BY <1>1, DifferenceIs DEF Size
<1> QED
  BY <1>1, <1>2, PipeAssumption

\* A counter after its increment.
LEMMA NextIs ==
  ASSUME NEW x \in 0 .. CounterMod - 1, NEW k \in 1 .. CounterMod
  PROVE  (x + k) % CounterMod =
           IF x + k < CounterMod THEN x + k ELSE x + k - CounterMod
<1>1. CounterMod \in Nat \ {0}
  BY PipeAssumption
<1>2. CASE x + k < CounterMod
  BY <1>1, <1>2, RemSmall
<1>3. CASE x + k >= CounterMod
  <2>1. x + k \in CounterMod .. 2 * CounterMod - 1
    BY <1>1, <1>3
  <2>2. (x + k) % CounterMod = x + k - CounterMod
    BY <1>1, <2>1, RemOver
  <2> QED
    BY <2>2, <1>1, <1>3
<1> QED
  BY <1>1, <1>2, <1>3

\* The test of pipewrite() means that the ring is full.
LEMMA FullIs ==
  ASSUME TypeOK
  PROVE  Full <=> Size = PipeSize
<1>1. nread \in 0 .. CounterMod - 1 /\ nwrite \in 0 .. CounterMod - 1
  BY DEF TypeOK
<1>2. /\ PipeSize \in 1 .. CounterMod - 1
      /\ CounterMod \in Nat
  BY PipeAssumption
<1>3. Full <=> nwrite = IF nread + PipeSize < CounterMod
                          THEN nread + PipeSize
                          ELSE nread + PipeSize - CounterMod
  <2> PipeSize \in 1 .. CounterMod
    BY <1>2
  <2>1. (nread + PipeSize) % CounterMod =
          IF nread + PipeSize < CounterMod THEN nread + PipeSize
                                           ELSE nread + PipeSize - CounterMod
    BY <1>1, NextIs
  <2> QED
    BY <2>1 DEF Full
<1> QED
  BY <1>1, <1>2, <1>3, SizeIs

\* The slot of a byte does not change when nread wraps around.
LEMMA SlotPeriod ==
  ASSUME NEW k \in Nat
  PROVE  (k + CounterMod) % PipeSize = k % PipeSize
<1>1. Rem(CounterMod, PipeSize) = 0
  BY PipeAssumption DEF Rem
<1>2. Rem(k + CounterMod, PipeSize) = Rem(k, PipeSize)
  BY <1>1, PipeAssumption, RemPeriod
<1> QED
  BY <1>2 DEF Rem

\* Different bytes of the ring are in different slots.
LEMMA SlotsDistinct ==
  ASSUME NEW k \in Nat, NEW j \in 1 .. PipeSize - 1
  PROVE  (k + j) % PipeSize # k % PipeSize
<1>1. Rem(k + j, PipeSize) # Rem(k, PipeSize)
  BY PipeAssumption, RemDistinct
<1> QED
  BY <1>1 DEF Rem

\* nwrite is the slot after the last byte.
LEMMA WriteSlot ==
  ASSUME TypeOK
  PROVE  (nread + Size) % PipeSize = nwrite % PipeSize
<1>1. nread \in Nat /\ nwrite \in Nat /\ CounterMod \in Nat
  BY PipeAssumption DEF TypeOK
<1>2. CASE nwrite >= nread
  <2>1. nread + Size = nwrite
    BY <1>1, <1>2, SizeIs
  <2> QED
    BY <2>1
<1>3. CASE nwrite < nread
  <2>1. nread + Size = nwrite + CounterMod
    BY <1>1, <1>3, SizeIs
  <2>2. (nwrite + CounterMod) % PipeSize = nwrite % PipeSize
    BY <1>1, SlotPeriod
  <2> QED
    BY <2>1, <2>2
<1> QED
  BY <1>1, <1>2, <1>3

\* What is in a slot of the queue.
Slot(k) == data[(nread + k - 1) % PipeSize]

LEMMA SequenceIs ==
  ASSUME NEW d \in [0 .. PipeSize - 1 -> Bytes], NEW r \in Nat, NEW m \in Nat
  PROVE  [k \in 1 .. m |-> d[(r + k - 1) % PipeSize]] \in Seq(Bytes)
<1>1. ASSUME NEW k \in 1 .. m PROVE d[(r + k - 1) % PipeSize] \in Bytes
  <2>1. r + k - 1 \in Nat
    OBVIOUS
  <2>2. (r + k - 1) % PipeSize \in 0 .. PipeSize - 1
    BY <2>1, Counters
  <2> QED
    BY <2>2
<1> QED
  BY <1>1

LEMMA QueueIs ==
  ASSUME TypeOK
  PROVE  /\ Queue \in Seq(Bytes)
         /\ Len(Queue) = Size
         /\ \A k \in 1 .. Size : Queue[k] = Slot(k)
<1>1. Size \in Nat
  BY SizeIs, PipeAssumption
<1>2. Queue \in Seq(Bytes)
  <2>1. nread \in Nat /\ data \in [0 .. PipeSize - 1 -> Bytes]
    BY DEF TypeOK
  <2> QED
    BY <1>1, <2>1, SequenceIs DEF Queue
<1> QED
  BY <1>1, <1>2 DEF Queue, Slot

\* WriteByte appends to the queue.
LEMMA Appends ==
  ASSUME TypeOK, TypeOK', Size <= PipeSize, ~Full, NEW b \in Bytes,
         data' = [data EXCEPT ![nwrite % PipeSize] = b],
         nwrite' = (nwrite + 1) % CounterMod, nread' = nread
  PROVE  Size' = Size + 1 /\ Queue' = Append(Queue, b)
<1>1. /\ nread \in 0 .. CounterMod - 1 /\ nwrite \in 0 .. CounterMod - 1
      /\ data \in [0 .. PipeSize - 1 -> Bytes]
  BY DEF TypeOK
<1>2. /\ PipeSize \in 1 .. CounterMod - 1
      /\ CounterMod \in Nat
  BY PipeAssumption
<1>3. Size \in 0 .. PipeSize - 1
  BY <1>2, FullIs, SizeIs
<1>4. nwrite' = IF nwrite + 1 < CounterMod THEN nwrite + 1
                                           ELSE nwrite + 1 - CounterMod
  BY <1>1, <1>2, NextIs
<1>5. Size' = IF nwrite' >= nread THEN nwrite' - nread
                                  ELSE nwrite' - nread + CounterMod
  <2>1. nwrite' \in 0 .. CounterMod - 1
    BY DEF TypeOK
  <2> QED
    BY <1>1, <2>1, DifferenceIs DEF Size
<1>6. Size' = Size + 1
  BY <1>1, <1>2, <1>3, <1>4, <1>5, SizeIs
<1>7. ASSUME NEW k \in 1 .. Size PROVE Slot(k)' = Slot(k)
  <2>1. nread + k - 1 \in Nat /\ Size - k + 1 \in 1 .. PipeSize - 1
    BY <1>1, <1>2, <1>3
  <2>2. nread + k - 1 + (Size - k + 1) = nread + Size
    BY <1>1, <1>3
  <2>3. (nread + Size) % PipeSize # (nread + k - 1) % PipeSize
    BY <2>1, <2>2, SlotsDistinct
  <2>4. (nread + k - 1) % PipeSize \in 0 .. PipeSize - 1
    BY <2>1, Counters
  <2> QED
    BY <2>3, <2>4, <1>1, WriteSlot DEF Slot
<1>8. ASSUME NEW k \in {Size + 1} PROVE Slot(k)' = b
  <2>1. nread' + k - 1 = nread + Size
    BY <1>1, <1>3
  <2>2. nwrite % PipeSize \in 0 .. PipeSize - 1
    BY <1>1, Counters
  <2> QED
    BY <2>1, <2>2, <1>1, <1>6, WriteSlot DEF Slot
<1>9. /\ Queue' \in Seq(Bytes) /\ Len(Queue') = Size + 1
      /\ \A k \in 1 .. Size + 1 : Queue'[k] = Slot(k)'
  <2>1. nread' \in Nat /\ data' \in [0 .. PipeSize - 1 -> Bytes]
    BY DEF TypeOK
  <2>2. Size' \in Nat
    BY <1>3, <1>6
  <2>3. Queue' \in Seq(Bytes)
    BY <2>1, <2>2, SequenceIs DEF Queue
  <2>4. Len(Queue') = Size + 1
    BY <2>2, <1>6 DEF Queue
  <2>5. \A k \in 1 .. Size + 1 : Queue'[k] = Slot(k)'
    BY <1>6 DEF Queue, Slot
  <2> QED
    BY <2>3, <2>4, <2>5
<1>10. \A k \in 1 .. Size + 1 : Queue'[k] = Append(Queue, b)[k]
  BY <1>3, <1>7, <1>8, <1>9, QueueIs
<1> QED
  BY <1>3, <1>6, <1>9, <1>10, QueueIs

\* ReadByte removes the first byte of the queue.
LEMMA Removes ==
  ASSUME TypeOK, TypeOK', ~Empty,
         data' = data, nwrite' = nwrite, nread' = (nread + 1) % CounterMod
  PROVE  /\ Size' = Size - 1 /\ Size > 0
         /\ Queue' = Tail(Queue)
         /\ data[nread % PipeSize] = Head(Queue)
<1>1. /\ nread \in 0 .. CounterMod - 1 /\ nwrite \in 0 .. CounterMod - 1
      /\ data \in [0 .. PipeSize - 1 -> Bytes]
  BY DEF TypeOK
<1>2. /\ PipeSize \in 1 .. CounterMod - 1
      /\ CounterMod \in Nat
  BY PipeAssumption
<1>3. Size \in 1 .. CounterMod - 1
  BY <1>1, <1>2, SizeIs DEF Empty
<1>4. nread' = IF nread + 1 < CounterMod THEN nread + 1
                                         ELSE nread + 1 - CounterMod
  BY <1>1, <1>2, NextIs
<1>5. Size' = IF nwrite >= nread' THEN nwrite - nread'
                                  ELSE nwrite - nread' + CounterMod
  <2>1. nread' \in 0 .. CounterMod - 1
    BY DEF TypeOK
  <2> QED
    BY <1>1, <2>1, DifferenceIs DEF Size
<1>6. Size' = Size - 1
  BY <1>1, <1>2, <1>3, <1>4, <1>5, SizeIs DEF Empty
<1>7. ASSUME NEW k \in 1 .. Size - 1 PROVE Slot(k)' = Slot(k + 1)
  <2>1. CASE nread + 1 < CounterMod
    <3>1. nread' + k - 1 = nread + (k + 1) - 1
      BY <1>1, <1>3, <1>4, <2>1
    <3> QED
      BY <3>1 DEF Slot
  <2>2. CASE nread + 1 >= CounterMod
    <3>1. /\ nread' + k - 1 \in Nat
          /\ nread + (k + 1) - 1 = nread' + k - 1 + CounterMod
      BY <1>1, <1>2, <1>3, <1>4, <2>2
    <3>2. (nread + (k + 1) - 1) % PipeSize = (nread' + k - 1) % PipeSize
      BY <3>1, SlotPeriod
    <3> QED
      BY <3>2 DEF Slot
  <2> QED
    BY <1>1, <1>2, <2>1, <2>2
<1>8. Slot(1) = data[nread % PipeSize]
  <2>1. nread + 1 - 1 = nread
    BY <1>1
  <2> QED
    BY <2>1 DEF Slot
<1>9. /\ Queue' \in Seq(Bytes) /\ Len(Queue') = Size - 1
      /\ \A k \in 1 .. Size - 1 : Queue'[k] = Slot(k)'
  <2>1. nread' \in Nat /\ data' \in [0 .. PipeSize - 1 -> Bytes]
    BY DEF TypeOK
  <2>2. Size' \in Nat
    BY <1>3, <1>6
  <2>3. Queue' \in Seq(Bytes)
    BY <2>1, <2>2, SequenceIs DEF Queue
  <2>4. Len(Queue') = Size - 1
    BY <2>2, <1>6 DEF Queue
  <2>5. \A k \in 1 .. Size - 1 : Queue'[k] = Slot(k)'
    BY <1>6 DEF Queue, Slot
  <2> QED
    BY <2>3, <2>4, <2>5
<1>10. \A k \in 1 .. Size - 1 : Queue'[k] = Tail(Queue)[k]
  BY <1>3, <1>7, <1>9, QueueIs
<1>11. Queue' = Tail(Queue)
  BY <1>3, <1>6, <1>9, <1>10, QueueIs
<1> QED
  BY <1>3, <1>6, <1>8, <1>11, QueueIs
-----------------------------------------------------------------------------
\* The ring never holds more than PIPESIZE bytes.
RInv == IInv /\ Size <= PipeSize

\* The steps that touch the pipe itself.
PipeStep(p) ==
  \/ \E b \in Bytes : WriteByte(p, b)
  \/ ReadByte(p)
  \/ PipeCloseRead(p)
  \/ PipeCloseWrite(p)

\* The other steps leave it alone.
LEMMA OtherSteps ==
  [Next]_vars => UNCHANGED pipe \/ \E p \in Procs : PipeStep(p)
  BY DEF Next, Step, User, PipeStep, vars, CallWrite, WriteLock,
         WriteAbort, WriteFull, WriteFault, WriteDone, CallRead,
         ReadLock, ReadAbort, ReadWait, ReadStart, ReadFault, ReadDone,
         Sleep, DropRead, DropWrite, Fork, Kill

\* If the ring and the flags stay, so does the abstract channel.
LEMMA ChannelSame ==
  ASSUME UNCHANGED pipe
  PROVE  Size' = Size /\ UNCHANGED C!chvars
  BY DEF pipe, Size, Queue, C!chvars

\* A new pipe is an empty channel.
LEMMA InitRefines == Init => RInv /\ C!Init
<1> SUFFICES ASSUME Init PROVE RInv /\ C!Init
  OBVIOUS
<1>1. IInv
  BY InitIInv
<1>2. Size = 0
  <2>1. TypeOK
    BY <1>1 DEF IInv, Shape
  <2>2. nread = 0 /\ nwrite = 0
    BY DEF Init
  <2> QED
    BY <2>1, <2>2, SizeIs
<1>3. Queue = <<>>
  BY <1>2 DEF Queue
<1>4. ch \in Bytes /\ readopen = TRUE /\ writeopen = TRUE
  BY DEF Init
<1> QED
  BY <1>1, <1>2, <1>3, <1>4, PipeAssumption DEF RInv, C!Init

\* Every step of the pipe is a step of the channel or leaves it alone.
LEMMA StepRefines == RInv /\ [Next]_vars => RInv' /\ [C!Next]_(C!chvars)
<1> SUFFICES ASSUME RInv, [Next]_vars
             PROVE  Size' <= PipeSize /\ [C!Next]_(C!chvars)
  BY NextIInv DEF RInv
<1>1. /\ TypeOK /\ TypeOK' /\ Referenced /\ LockHeld
      /\ Size <= PipeSize
  BY NextIInv DEF RInv, IInv, Shape
<1>2. PipeSize \in Nat /\ CounterMod \in Nat /\ Size \in Nat
  BY <1>1, SizeIs, PipeAssumption
<1>3. CASE UNCHANGED pipe
  BY <1>1, <1>3, ChannelSame
<1>4. ASSUME NEW p \in Procs, NEW b \in Bytes, WriteByte(p, b)
      PROVE  Size' <= PipeSize /\ C!Send(b)
  <2>1. /\ ~Full /\ readopen /\ pc[p] = "write" /\ nread' = nread
        /\ data' = [data EXCEPT ![nwrite % PipeSize] = b]
        /\ nwrite' = (nwrite + 1) % CounterMod
        /\ UNCHANGED <<ch, readopen, writeopen>>
    BY <1>4 DEF WriteByte, CanWrite
  <2>2. writeopen
    BY <2>1, <1>1 DEF Referenced, Writing
  <2>3. Size' = Size + 1 /\ Queue' = Append(Queue, b)
    BY <1>1, <2>1, Appends
  <2>4. Size < PipeSize /\ Len(Queue) = Size
    BY <1>1, <1>2, <2>1, FullIs, QueueIs
  <2> QED
    BY <1>2, <2>1, <2>2, <2>3, <2>4 DEF C!Send
<1>5. ASSUME NEW p \in Procs, ReadByte(p)
      PROVE  Size' <= PipeSize /\ C!Receive
  <2>1. /\ ~Empty /\ pc[p] = "copy" /\ data' = data /\ nwrite' = nwrite
        /\ nread' = (nread + 1) % CounterMod
        /\ ch' = data[nread % PipeSize]
        /\ UNCHANGED <<readopen, writeopen>>
    BY <1>5 DEF ReadByte
  <2>2. readopen
    BY <2>1, <1>1 DEF Referenced, Reading
  <2>3. /\ Size' = Size - 1 /\ Size > 0
        /\ Queue' = Tail(Queue)
        /\ data[nread % PipeSize] = Head(Queue)
    BY <1>1, <2>1, Removes
  <2>4. Queue # <<>>
    BY <1>1, <1>2, <2>3, QueueIs
  <2> QED
    BY <1>1, <1>2, <2>1, <2>2, <2>3, <2>4 DEF C!Receive
<1>6. ASSUME NEW p \in Procs, PipeCloseRead(p)
      PROVE  Size' <= PipeSize /\ C!CloseRead
  <2>1. readopen
    BY <1>1, <1>6 DEF Referenced, PipeCloseRead, Goto
  <2>2. Size' = Size /\ Queue' = Queue
    BY <1>6 DEF PipeCloseRead, Size, Queue
  <2> QED
    BY <1>1, <1>6, <2>1, <2>2 DEF PipeCloseRead, C!CloseRead
<1>7. ASSUME NEW p \in Procs, PipeCloseWrite(p)
      PROVE  Size' <= PipeSize /\ C!CloseWrite
  <2>1. writeopen
    BY <1>1, <1>7 DEF Referenced, PipeCloseWrite, Goto
  <2>2. Size' = Size /\ Queue' = Queue
    BY <1>7 DEF PipeCloseWrite, Size, Queue
  <2> QED
    BY <1>1, <1>7, <2>1, <2>2 DEF PipeCloseWrite, C!CloseWrite
<1> QED
  BY <1>3, <1>4, <1>5, <1>6, <1>7, OtherSteps DEF PipeStep, C!Next

(* The pipe implements the bounded queue, for any number of processes, any *)
(* size of the ring and any width of the counters of which it is a divisor *)
(* (512 divides 2^32): bytes come out in the order they went in.           *)
THEOREM Refinement == Spec => ImplementsChannel
<1>1. Init => RInv /\ C!Init
  BY InitRefines
<1>2. RInv /\ [Next]_vars => RInv' /\ [C!Next]_(C!chvars)
  BY StepRefines
<1> QED
  BY <1>1, <1>2, PTL DEF Spec, ImplementsChannel, C!Spec
=============================================================================
