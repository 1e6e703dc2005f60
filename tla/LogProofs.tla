----------------------------- MODULE LogProofs -----------------------------
(***************************************************************************)
(* The log implements the atomic disk, sys_sync() keeps its promise and    *)
(* nobody waits for nothing, for any processes, blocks, contents and log   *)
(* size, and whatever the calls write.                                     *)
(*                                                                         *)
(* The invariant has two parts.  Control says which calls may be where in  *)
(* each phase of a commit; Data says what the cache, the log and the home  *)
(* blocks have in common in each phase.                                    *)
(***************************************************************************)
EXTENDS Log, FiniteSetTheorems, TLAPS

Open == {p \in Procs : pc[p] \in {"in", "panic"}}

Committing == phase \in {"write_log", "install", "done"}

Control ==
  /\ outstanding = Cardinality(Open)
  /\ committing <=> Committing
  /\ committing => Open = {} /\ \E p \in Procs : pc[p] = "commit"
  /\ ~Up => waiting = {} /\ \A p \in Procs : pc[p] = "out" /\ due[p] = 0
  /\ waiting # {} => outstanding > 0 \/ committing
  /\ \A p \in Procs : due[p] > 0 => outstanding > 0 \/ committing
  /\ phase \in {"done", "boot"} => n = 0
  /\ phase = "idle" /\ n > 0 => outstanding > 0
  /\ ended # {} => phase \in {"idle", "write_log"} /\ n > 0
  /\ \A p \in Procs : used[p] # {} => n > 0 /\ p \in Open
  /\ \A p \in Procs : debt[p] \subseteq ended
  /\ \A p \in Procs : pc[p] = "syncwait" /\ debt[p] # {} => due[p] > 0
  /\ phase \in {"write_log", "install", "recover"} => tail <= n

\* The cached copy of b, if there is one, equals its home block.
Clean(b) == cache[b] = None \/ cache[b] = disk[b]

Data ==
  /\ \A i, j \in 1 .. n : block[i] = block[j] => i = j
  /\ \A i, j \in 1 .. hn : hblock[i] = hblock[j] => i = j
  /\ phase \in {"idle", "write_log", "done"} => hn = 0
  /\ phase \in {"install", "recover"} =>
       hn = n /\ \A i \in 1 .. n : hblock[i] = block[i]
  /\ \A i \in 1 .. hn : logd[i] \in Values
  /\ \A b \in Blocks :
       disk[b] = Torn => ~Up /\ \E i \in 1 .. hn : hblock[i] = b
  /\ \A b \in Blocks : b \notin Logged => Clean(b)
  /\ phase \in {"idle", "write_log"} =>
       \A i \in 1 .. n : cache[block[i]] # None /\ pin[block[i]] > 0
  /\ phase = "write_log" =>
       \A i \in 1 .. tail : logd[i] = cache[block[i]]
  /\ phase \in {"install", "recover"} =>
       \A i \in 1 .. tail : disk[block[i]] = logd[i] /\ Clean(block[i])
  /\ phase = "install" =>
       \A i \in 1 .. n : i > tail =>
         cache[block[i]] = logd[i] /\ pin[block[i]] > 0
  /\ phase \in {"boot", "recover"} => \A b \in Blocks : Clean(b)

IInv == TypeOK /\ Control /\ Data
-----------------------------------------------------------------------------
LEMMA OpenFinite == IsFiniteSet(Open) /\ Cardinality(Open) \in Nat
  BY LogAssumption, FS_Subset, FS_CardinalityType DEF Open

LEMMA OpenEmpty == Cardinality(Open) = 0 <=> Open = {}
  BY OpenFinite, FS_EmptySet

LEMMA OpenAdd ==
  ASSUME NEW p \in Procs, p \notin Open, Open' = Open \cup {p}
  PROVE  Cardinality(Open') = Cardinality(Open) + 1
  BY OpenFinite, FS_AddElement

LEMMA OpenRemove ==
  ASSUME NEW p \in Procs, p \in Open, Open' = Open \ {p}
  PROVE  Cardinality(Open') = Cardinality(Open) - 1
  BY OpenFinite, FS_RemoveElement

\* An empty log over an empty cache satisfies the invariant.
LEMMA InitIInv == Init => IInv
<1> SUFFICES ASSUME Init PROVE IInv
  OBVIOUS
<1> USE LogAssumption DEF Init
<1>1. TypeOK
  <2>1. /\ logd \in [Slots -> Values \cup {Torn}]
        /\ hblock \in [Slots -> Blocks] /\ block \in [Slots -> Blocks]
    BY DEF Slots
  <2>2. /\ disk \in [Blocks -> Values \cup {Torn}]
        /\ cache \in [Blocks -> Values \cup {None}]
        /\ pin \in [Blocks -> Nat]
    OBVIOUS
  <2>3. /\ hn \in 0 .. LOGBLOCKS /\ n \in 0 .. LOGBLOCKS
        /\ tail \in 0 .. LOGBLOCKS
        /\ outstanding \in Nat
    OBVIOUS
  <2>5. due \in [Procs -> {0, 1}]
    OBVIOUS
  <2>6. committing \in BOOLEAN
    OBVIOUS
  <2>4. /\ pc \in [Procs -> PCs] /\ phase \in Phases
        /\ waiting \in SUBSET Procs /\ ended \in SUBSET Procs
        /\ used \in [Procs -> SUBSET Blocks]
        /\ debt \in [Procs -> SUBSET Procs]
    BY DEF PCs, Phases
  <2> QED
    BY <2>1, <2>2, <2>3, <2>4, <2>5, <2>6 DEF TypeOK
<1>2. Open = {}
  BY DEF Open
<1>3. Control
  BY <1>2, OpenEmpty DEF Control, Committing, Up
<1>4. Data
  BY <1>1 DEF Data, Clean, Up, Logged, TypeOK
<1> QED
  BY <1>1, <1>3, <1>4 DEF IInv

\* Every step keeps the types, given the invariant.
LEMMA TypeStep == IInv /\ [Next]_vars => TypeOK'
<1> SUFFICES ASSUME IInv, [Next]_vars PROVE TypeOK'
  OBVIOUS
<1> USE LogAssumption DEF IInv, TypeOK, Slots, PCs, Phases, mem, hdr, hist
<1>1. ASSUME NEW p \in Procs, BeginOp(p) PROVE TypeOK'
  <2>1. \/ /\ waiting' = waiting \cup {p}
           /\ pc' = [pc EXCEPT ![p] = "begin"]
           /\ outstanding' = outstanding /\ used' = used
        \/ /\ waiting' = waiting
           /\ pc' = [pc EXCEPT ![p] = "in"]
           /\ outstanding' = outstanding + 1
           /\ used' = [used EXCEPT ![p] = {}]
    BY ONLY <1>1 DEF BeginOp
  <2>0. /\ waiting \in SUBSET Procs /\ pc \in [Procs -> PCs]
        /\ used \in [Procs -> SUBSET Blocks] /\ outstanding \in Nat
    BY ONLY TypeOK DEF TypeOK
  <2>2. /\ waiting' \in SUBSET Procs
        /\ pc' \in [Procs -> PCs]
        /\ used' \in [Procs -> SUBSET Blocks]
        /\ outstanding' \in Nat
    <3>1. waiting' \in SUBSET Procs /\ outstanding' \in Nat
      BY ONLY <2>0, <2>1, p \in Procs
    <3>2. pc' \in [Procs -> PCs]
      BY ONLY <2>0, <2>1, p \in Procs DEF PCs
    <3>3. used' \in [Procs -> SUBSET Blocks]
      BY ONLY <2>0, <2>1, p \in Procs
    <3> QED
      BY ONLY <3>1, <3>2, <3>3
  <2>3. UNCHANGED <<disk, logd, hn, hblock, n, block, cache, pin, committing,
                    due, phase, tail, ended, debt>>
    BY ONLY <1>1 DEF BeginOp, hdr
  <2> QED
    BY ONLY TypeOK, <2>2, <2>3 DEF TypeOK
<1>2. ASSUME NEW p \in Procs, EndOp(p) PROVE TypeOK'
  <2>1. outstanding - 1 \in Nat
    BY <1>2, OpenFinite, OpenEmpty DEF EndOp, Control, Open
  <2>2. pc' \in [Procs -> PCs] /\ phase' \in Phases /\ committing' \in BOOLEAN
    BY <1>2 DEF EndOp
  <2>3. tail' \in 0 .. LOGBLOCKS /\ waiting' \in SUBSET Procs
    BY <1>2 DEF EndOp
  <2>4. ended' \in SUBSET Procs /\ used' \in [Procs -> SUBSET Blocks]
    BY <1>2 DEF EndOp
  <2> QED
    BY <1>2, <2>1, <2>2, <2>3, <2>4 DEF EndOp
<1>3. ASSUME NEW p \in Procs, WriteLog(p) PROVE TypeOK'
  <2>1. tail + 1 \in Slots /\ tail + 1 \in 1 .. n
    BY <1>3 DEF WriteLog
  <2>2. Bread(block[tail + 1]) \in Values
    BY <1>3, <2>1 DEF WriteLog, Bread, Data
  <2> QED
    BY <1>3, <2>1, <2>2 DEF WriteLog
<1>4. ASSUME NEW p \in Procs, WriteHead(p) PROVE TypeOK'
  BY <1>4 DEF WriteHead
<1>5. ASSUME NEW p \in Procs, Install(p) PROVE TypeOK'
  <2>1. tail + 1 \in 1 .. n /\ tail + 1 \in 1 .. hn
    BY <1>5 DEF Install, Data
  <2>2. logd[tail + 1] \in Values /\ block[tail + 1] \in Blocks
    BY <2>1 DEF Data
  <2>3. pin[block[tail + 1]] > 0
    BY <1>5, <2>1 DEF Install, Data
  <2> QED
    BY <1>5, <2>1, <2>2, <2>3 DEF Install
<1>6. ASSUME NEW p \in Procs, ClearHead(p) PROVE TypeOK'
  BY <1>6 DEF ClearHead
<1>7. ASSUME NEW p \in Procs, CommitDone(p) PROVE TypeOK'
  BY <1>7 DEF CommitDone
<1>8. ASSUME NEW p \in Procs, CallSync(p) PROVE TypeOK'
  BY <1>8 DEF CallSync
<1>9. ASSUME NEW p \in Procs, SyncTest(p) PROVE TypeOK'
  <2>1. \/ /\ due' = [due EXCEPT ![p] = 1]
           /\ waiting' = waiting \cup {p}
           /\ pc' = [pc EXCEPT ![p] = "syncwait"]
        \/ /\ due' = due /\ waiting' = waiting
           /\ pc' = [pc EXCEPT ![p] = "out"]
    BY ONLY <1>9 DEF SyncTest
  <2>2. /\ waiting' \in SUBSET Procs /\ pc' \in [Procs -> PCs]
        /\ due' \in [Procs -> {0, 1}]
    BY ONLY <2>1, TypeOK, p \in Procs DEF TypeOK, PCs
  <2>3. UNCHANGED <<disk, logd, hdr, mem, phase, tail, hist>>
    BY ONLY <1>9 DEF SyncTest
  <2> QED
    BY ONLY TypeOK, <2>2, <2>3 DEF TypeOK, hdr, mem, hist
<1>10. ASSUME NEW p \in Procs, SyncLoop(p) PROVE TypeOK'
  BY <1>10 DEF SyncLoop
<1>11. ASSUME NEW p \in Procs, KillWake(p) PROVE TypeOK'
  BY <1>11 DEF KillWake
<1>12. ASSUME NEW p \in Procs, NEW b \in Blocks, NEW v \in Values,
              LogWrite(p, b, v)
       PROVE  TypeOK'
  <2>1. CASE n >= LOGBLOCKS \/ outstanding < 1
    BY <1>12, <2>1 DEF LogWrite
  <2>2. CASE n < LOGBLOCKS /\ outstanding >= 1
    <3>0. \/ n' = n /\ block' = block /\ pin' = pin
          \/ /\ n' = n + 1
             /\ block' = [block EXCEPT ![n + 1] = b]
             /\ pin' = [pin EXCEPT ![b] = pin[b] + 1]
      BY <1>12, <2>2 DEF LogWrite
    <3>1. n' \in 0 .. LOGBLOCKS
      BY <2>2, <3>0
    <3>6. block' \in [Slots -> Blocks]
      BY <3>0
    <3>2. pin' \in [Blocks -> Nat]
      BY <3>0
    <3>3. cache' \in [Blocks -> Values \cup {None}]
      BY <1>12, <2>2 DEF LogWrite
    <3>4. used' = [used EXCEPT ![p] = used[p] \cup {b}] /\ pc' = pc
      BY <1>12, <2>2 DEF LogWrite
    <3>5. used' \in [Procs -> SUBSET Blocks]
      BY <3>4
    <3> QED
      BY <1>12, <3>1, <3>2, <3>3, <3>4, <3>5, <3>6 DEF LogWrite
  <2> QED
    BY <2>1, <2>2
<1>13. ASSUME NEW b \in Blocks, FillCache(b) PROVE TypeOK'
  <2>1. disk[b] \in Values
    BY <1>13 DEF FillCache, Data
  <2> QED
    BY <1>13, <2>1 DEF FillCache
<1>14. ASSUME NEW b \in Blocks, Evict(b) PROVE TypeOK'
  BY <1>14 DEF Evict
<1>15. CASE Crash
  <2>1. /\ logd' \in [Slots -> Values \cup {Torn}]
        /\ disk' \in [Blocks -> Values \cup {Torn}]
    BY <1>15 DEF Crash
  <2>2. /\ cache' \in [Blocks -> Values \cup {None}]
        /\ pin' \in [Blocks -> Nat]
        /\ due' \in [Procs -> {0, 1}]
        /\ used' \in [Procs -> SUBSET Blocks]
        /\ debt' \in [Procs -> SUBSET Procs]
    BY <1>15 DEF Crash
  <2>3. pc' \in [Procs -> PCs] /\ phase' \in Phases
    BY <1>15 DEF Crash
  <2>4. /\ hn' \in 0 .. LOGBLOCKS /\ hblock' \in [Slots -> Blocks]
        /\ n' \in 0 .. LOGBLOCKS /\ block' \in [Slots -> Blocks]
        /\ tail' \in 0 .. LOGBLOCKS /\ outstanding' \in Nat
    BY <1>15 DEF Crash
  <2>5. committing' \in BOOLEAN
    BY <1>15 DEF Crash
  <2>6. waiting' \in SUBSET Procs /\ ended' \in SUBSET Procs
    BY <1>15 DEF Crash
  <2> QED
    BY <2>1, <2>2, <2>3, <2>4, <2>5, <2>6
<1>16. CASE ReadHead
  BY <1>16 DEF ReadHead
<1>17. CASE Reinstall
  <2>1. tail + 1 \in 1 .. n /\ tail + 1 \in 1 .. hn
    BY <1>17 DEF Reinstall, Data
  <2>2. logd[tail + 1] \in Values /\ block[tail + 1] \in Blocks
    BY <2>1 DEF Data
  <2> QED
    BY <1>17, <2>1, <2>2 DEF Reinstall
<1>18. CASE RecoveryDone
  BY <1>18 DEF RecoveryDone
<1>19. CASE UNCHANGED vars
  BY <1>19 DEF vars
<1> QED
  BY <1>1, <1>2, <1>3, <1>4, <1>5, <1>6, <1>7, <1>8, <1>9, <1>10, <1>11,
     <1>12, <1>13, <1>14, <1>15, <1>16, <1>17, <1>18, <1>19
  DEF Next, Committer, Recovery

\* Every step keeps the control invariant.
LEMMA ControlStep == IInv /\ [Next]_vars => Control'
<1> SUFFICES ASSUME IInv, [Next]_vars PROVE Control'
  OBVIOUS
<1> USE LogAssumption
    DEF IInv, TypeOK, Control, Committing, Up, mem, hdr, hist
<1>1. ASSUME NEW p \in Procs, BeginOp(p) PROVE Control'
  <2>1. CASE committing \/ n + (outstanding + 1) * MAXOPBLOCKS > LOGBLOCKS
    <3>1. Open' = Open
      BY <1>1, <2>1 DEF BeginOp, Open
    <3>2. outstanding > 0 \/ committing
      <4> SUFFICES ASSUME outstanding = 0, ~committing PROVE FALSE
        OBVIOUS
      <4>1. n = 0
        BY <1>1 DEF BeginOp, Phases
      <4>2. n + (outstanding + 1) * MAXOPBLOCKS = MAXOPBLOCKS
        BY <4>1
      <4> QED
        BY <2>1, <4>2
    <3> QED
      BY <1>1, <2>1, <3>1, <3>2 DEF BeginOp
  <2>2. CASE ~(committing \/ n + (outstanding + 1) * MAXOPBLOCKS > LOGBLOCKS)
    <3>1. /\ outstanding' = outstanding + 1
          /\ pc' = [pc EXCEPT ![p] = "in"]
          /\ used' = [used EXCEPT ![p] = {}]
          /\ UNCHANGED <<n, committing, due, waiting, phase, tail, ended, debt>>
      BY <1>1, <2>2 DEF BeginOp
    <3>2. p \notin Open /\ Open' = Open \cup {p} /\ Up /\ ~committing
      BY <1>1, <2>2, <3>1 DEF BeginOp, Open
    <3>3. Cardinality(Open') = outstanding'
      BY <3>1, <3>2, OpenAdd
    <3> QED
      BY <3>1, <3>2, <3>3
  <2> QED
    BY <2>1, <2>2
<1>2. ASSUME NEW p \in Procs, EndOp(p) PROVE Control'
  <2>1. p \in Open /\ ~committing /\ phase = "idle"
    BY <1>2 DEF EndOp, Open, Phases
  <2>2. Open' = Open \ {p}
    BY <1>2, <2>1 DEF EndOp, Open
  <2>3. outstanding' = Cardinality(Open')
    BY <1>2, <2>1, <2>2, OpenRemove DEF EndOp
  <2>4. outstanding' = 0 <=> Open' = {}
    BY <2>3, <2>2, OpenFinite, FS_RemoveElement, FS_EmptySet
  <2>5. outstanding' \in Nat
    BY <2>3, <2>2, OpenFinite, FS_RemoveElement, FS_CardinalityType
  <2>6. \A q \in Procs : used'[q] # {} => used[q] # {} /\ q \in Open'
    BY <1>2, <2>2 DEF EndOp
  <2>7. ended' # {} => n > 0
    BY <1>2 DEF EndOp
  <2>8. UNCHANGED <<n, debt, due>> /\ ended \subseteq ended'
    BY <1>2 DEF EndOp
  <2>9. CASE outstanding' = 0
    <3>1. /\ committing' = TRUE /\ tail' = 0 /\ waiting' = waiting
          /\ pc' = [pc EXCEPT ![p] = "commit"]
          /\ phase' = IF n > 0 THEN "write_log" ELSE "done"
      BY <1>2, <2>1, <2>9 DEF EndOp
    <3> QED
      BY <2>3, <2>4, <2>5, <2>6, <2>7, <2>8, <2>9, <3>1
  <2>10. CASE outstanding' # 0
    <3>1. /\ waiting' = {} /\ UNCHANGED <<committing, phase, tail>>
          /\ pc' = [pc EXCEPT ![p] = "out"]
      BY <1>2, <2>1, <2>10 DEF EndOp
    <3> QED
      BY <2>1, <2>3, <2>4, <2>5, <2>6, <2>7, <2>8, <2>10, <3>1
  <2> QED
    BY <2>9, <2>10
<1>3. ASSUME NEW p \in Procs, WriteLog(p) PROVE Control'
  <2>1. Open' = Open
    BY <1>3 DEF WriteLog, Open
  <2> QED
    BY <1>3, <2>1 DEF WriteLog
<1>4. ASSUME NEW p \in Procs, WriteHead(p) PROVE Control'
  <2>1. Open' = Open
    BY <1>4 DEF WriteHead, Open
  <2> QED
    BY <1>4, <2>1 DEF WriteHead
<1>5. ASSUME NEW p \in Procs, Install(p) PROVE Control'
  <2>1. Open' = Open
    BY <1>5 DEF Install, Open
  <2> QED
    BY <1>5, <2>1 DEF Install
<1>6. ASSUME NEW p \in Procs, ClearHead(p) PROVE Control'
  <2>1. Open' = Open
    BY <1>6 DEF ClearHead, Open
  <2> QED
    BY <1>6, <2>1 DEF ClearHead
<1>7. ASSUME NEW p \in Procs, CommitDone(p) PROVE Control'
  <2>1. Open' = Open
    BY <1>7 DEF CommitDone, Open
  <2> QED
    BY <1>7, <2>1 DEF CommitDone
<1>8. ASSUME NEW p \in Procs, CallSync(p) PROVE Control'
  <2>1. Open' = Open
    BY <1>8 DEF CallSync, Open
  <2> QED
    BY <1>8, <2>1 DEF CallSync
<1>9. ASSUME NEW p \in Procs, SyncTest(p) PROVE Control'
  <2>1. Open' = Open
    BY <1>9 DEF SyncTest, Open
  <2> QED
    BY <1>9, <2>1 DEF SyncTest
<1>10. ASSUME NEW p \in Procs, SyncLoop(p) PROVE Control'
  <2>1. Open' = Open
    BY <1>10 DEF SyncLoop, Open
  <2> QED
    BY <1>10, <2>1 DEF SyncLoop
<1>11. ASSUME NEW p \in Procs, KillWake(p) PROVE Control'
  <2>1. Open' = Open
    BY <1>11 DEF KillWake, Open
  <2> QED
    BY <1>11, <2>1 DEF KillWake
<1>12. ASSUME NEW p \in Procs, NEW b \in Blocks, NEW v \in Values,
              LogWrite(p, b, v)
       PROVE  Control'
  <2>1. Open' = Open
    BY <1>12 DEF LogWrite, Open
  <2>2. p \in Open /\ ~committing /\ phase = "idle" /\ outstanding > 0
    BY <1>12, OpenFinite, OpenEmpty DEF LogWrite, Open, Phases
  <2>3. n' \in Nat /\ n' >= n /\ (n' > 0 \/ used' = used)
    BY <1>12, <2>2 DEF LogWrite, Logged
  <2>4. \A q \in Procs : used'[q] # {} => used[q] # {} \/ (q = p /\ n' > 0)
    BY <1>12, <2>3 DEF LogWrite
  <2>5. \A q \in Procs : pc'[q] = pc[q] \/ (q = p /\ pc'[q] = "panic")
    BY <1>12 DEF LogWrite
  <2>6. UNCHANGED <<outstanding, committing, due, waiting, phase, tail, ended,
                    debt>>
    BY <1>12 DEF LogWrite
  <2> QED
    BY <2>1, <2>2, <2>3, <2>4, <2>5, <2>6
<1>13. ASSUME NEW b \in Blocks, FillCache(b) PROVE Control'
  <2>1. Open' = Open
    BY <1>13 DEF FillCache, Open
  <2> QED
    BY <1>13, <2>1 DEF FillCache
<1>14. ASSUME NEW b \in Blocks, Evict(b) PROVE Control'
  <2>1. Open' = Open
    BY <1>14 DEF Evict, Open
  <2> QED
    BY <1>14, <2>1 DEF Evict
<1>15. CASE Crash
  <2>1. Open' = {}
    BY <1>15 DEF Crash, Open
  <2>2. Cardinality(Open') = 0
    BY <2>1, FS_EmptySet
  <2> QED
    BY <1>15, <2>1, <2>2 DEF Crash
<1>16. CASE ReadHead
  <2>1. Open' = Open
    BY <1>16 DEF ReadHead, Open
  <2> QED
    BY <1>16, <2>1 DEF ReadHead
<1>17. CASE Reinstall
  <2>1. Open' = Open
    BY <1>17 DEF Reinstall, Open
  <2> QED
    BY <1>17, <2>1 DEF Reinstall
<1>18. CASE RecoveryDone
  <2>1. Open' = Open
    BY <1>18 DEF RecoveryDone, Open
  <2>2. Open = {}
    BY <1>18 DEF RecoveryDone, Open
  <2> QED
    BY <1>18, <2>1, <2>2 DEF RecoveryDone
<1>19. CASE UNCHANGED vars
  BY <1>19 DEF vars, Open
<1> QED
  BY <1>1, <1>2, <1>3, <1>4, <1>5, <1>6, <1>7, <1>8, <1>9, <1>10, <1>11,
     <1>12, <1>13, <1>14, <1>15, <1>16, <1>17, <1>18, <1>19
  DEF Next, Committer, Recovery

\* Every step keeps the data invariant.
LEMMA DataStep == IInv /\ [Next]_vars => Data'
<1> SUFFICES ASSUME IInv, [Next]_vars PROVE Data'
  OBVIOUS
<1>0. TypeOK'
  BY TypeStep
<1> USE LogAssumption, <1>0
    DEF IInv, TypeOK, Data, Clean, Slots, Logged, Up, mem, hdr, hist
<1>1. ASSUME NEW p \in Procs, BeginOp(p) PROVE Data'
  BY <1>1 DEF BeginOp
<1>2. ASSUME NEW p \in Procs, EndOp(p) PROVE Data'
  <2>1. phase = "idle" /\ ~committing
    BY <1>2 DEF EndOp, Control, Committing, Open, Phases
  <2>2. phase' \in {"idle", "write_log", "done"} /\ (phase' = "done" => n = 0)
        /\ (phase' = "write_log" => tail' = 0)
    BY <1>2, <2>1 DEF EndOp
  <2>3. UNCHANGED <<disk, logd, hn, hblock, n, block, cache, pin>>
    BY <1>2 DEF EndOp
  <2> QED
    BY <2>1, <2>2, <2>3
<1>3. ASSUME NEW p \in Procs, WriteLog(p) PROVE Data'
  <2>1. tail + 1 \in 1 .. n /\ tail + 1 \in Slots /\ hn = 0
    BY <1>3 DEF WriteLog
  <2>2. Bread(block[tail + 1]) = cache[block[tail + 1]]
    BY <1>3, <2>1 DEF WriteLog, Bread
  <2>3. \A i \in 1 .. tail' : logd'[i] = cache[block[i]]
    BY <1>3, <2>1, <2>2 DEF WriteLog
  <2>4. UNCHANGED <<disk, hn, hblock, n, block, cache, pin, phase>>
    BY <1>3 DEF WriteLog
  <2> QED
    BY <1>3, <2>1, <2>3, <2>4 DEF WriteLog
<1>4. ASSUME NEW p \in Procs, WriteHead(p) PROVE Data'
  BY <1>4 DEF WriteHead
<1>5. ASSUME NEW p \in Procs, Install(p) PROVE Data'
  <2> DEFINE c == block[tail + 1]
  <2>1. tail + 1 \in 1 .. n /\ c \in Blocks /\ logd[tail + 1] \in Values
    BY <1>5 DEF Install
  <2>2. /\ cache' = [cache EXCEPT ![c] = logd[tail + 1]]
        /\ disk' = [disk EXCEPT ![c] = logd[tail + 1]]
        /\ pin' = [pin EXCEPT ![c] = pin[c] - 1]
        /\ tail' = tail + 1 /\ phase = "install"
        /\ UNCHANGED <<logd, hn, hblock, n, block, phase>>
    BY <1>5 DEF Install
  <2>3. \A i \in 1 .. n : block[i] = c <=> i = tail + 1
    BY <2>1
  <2>8. /\ n \in Nat /\ tail \in Nat /\ \A i \in 1 .. n : block[i] \in Blocks
        /\ cache \in [Blocks -> Values \cup {None}] /\ pin \in [Blocks -> Nat]
        /\ disk \in [Blocks -> Values \cup {Torn}]
    BY ONLY TypeOK, LogAssumption DEF TypeOK, Slots
  <2>4. \A i \in 1 .. n : i > tail' =>
          cache'[block[i]] = logd[i] /\ pin'[block[i]] > 0
    <3>1. \A i \in 1 .. n : i > tail =>
            cache[block[i]] = logd[i] /\ pin[block[i]] > 0
      BY ONLY Data, <2>2 DEF Data
    <3> QED
      BY ONLY <2>1, <2>2, <2>3, <2>8, <3>1
  <2>5. \A i \in 1 .. tail' : disk'[block[i]] = logd[i] /\ Clean(block[i])'
    <3>1. \A i \in 1 .. tail : disk[block[i]] = logd[i] /\ Clean(block[i])
      BY ONLY Data, <2>2 DEF Data
    <3>2. \A i \in 1 .. tail' : i \in 1 .. n /\ (i \in 1 .. tail \/ i = tail + 1)
      BY ONLY <2>1, <2>2, <2>8
    <3> QED
      BY ONLY <2>1, <2>2, <2>3, <2>8, <3>1, <3>2 DEF Clean
  <2>6. \A b \in Blocks : b \notin Logged => Clean(b)'
    BY <2>1, <2>2
  <2>7. \A b \in Blocks : disk'[b] # Torn
    BY <2>1, <2>2
  <2> QED
    BY <2>2, <2>4, <2>5, <2>6, <2>7
<1>6. ASSUME NEW p \in Procs, ClearHead(p) PROVE Data'
  BY <1>6 DEF ClearHead
<1>7. ASSUME NEW p \in Procs, CommitDone(p) PROVE Data'
  BY <1>7 DEF CommitDone, Control
<1>8. ASSUME NEW p \in Procs, CallSync(p) PROVE Data'
  BY <1>8 DEF CallSync
<1>9. ASSUME NEW p \in Procs, SyncTest(p) PROVE Data'
  BY <1>9 DEF SyncTest
<1>10. ASSUME NEW p \in Procs, SyncLoop(p) PROVE Data'
  BY <1>10 DEF SyncLoop
<1>11. ASSUME NEW p \in Procs, KillWake(p) PROVE Data'
  BY <1>11 DEF KillWake
<1>12. ASSUME NEW p \in Procs, NEW b \in Blocks, NEW v \in Values,
              LogWrite(p, b, v)
       PROVE  Data'
  <2>1. phase = "idle" /\ outstanding > 0
    BY <1>12, OpenFinite, OpenEmpty
    DEF LogWrite, Control, Committing, Open, Phases
  <2>2. UNCHANGED <<disk, logd, hn, hblock, phase, tail>>
    BY <1>12 DEF LogWrite
  <2>3. CASE n >= LOGBLOCKS
    BY <1>12, <2>1, <2>2, <2>3 DEF LogWrite
  <2>4. CASE n < LOGBLOCKS /\ b \in Logged
    <3>1. /\ cache' = [cache EXCEPT ![b] = v]
          /\ UNCHANGED <<n, block, pin>>
      BY <1>12, <2>1, <2>4 DEF LogWrite
    <3> QED
      BY <2>1, <2>2, <2>4, <3>1
  <2>5. CASE n < LOGBLOCKS /\ b \notin Logged
    <3>1. /\ cache' = [cache EXCEPT ![b] = v]
          /\ n' = n + 1
          /\ block' = [block EXCEPT ![n + 1] = b]
          /\ pin' = [pin EXCEPT ![b] = pin[b] + 1]
      BY <1>12, <2>1, <2>5 DEF LogWrite
    <3>0. /\ n \in Nat /\ n < LOGBLOCKS /\ LOGBLOCKS \in Nat
          /\ block \in [1 .. LOGBLOCKS -> Blocks]
      BY ONLY TypeOK, LogAssumption, <2>5 DEF TypeOK, Slots
    <3>9. /\ cache \in [Blocks -> Values \cup {None}]
          /\ pin \in [Blocks -> Nat]
      BY ONLY TypeOK DEF TypeOK
    <3>2. /\ \A i \in 1 .. n : block'[i] = block[i] /\ block[i] # b
          /\ block'[n + 1] = b
      BY ONLY <2>5, <3>0, <3>1 DEF Logged
    <3>7. \A i \in 1 .. n' : i \in 1 .. n \/ i = n + 1
      BY ONLY <3>0, <3>1
    <3>8. \A i \in 1 .. n : block[i] \in Blocks
      BY ONLY <3>0
    <3>3. \A i, j \in 1 .. n' : block'[i] = block'[j] => i = j
      <4> SUFFICES ASSUME NEW i \in 1 .. n', NEW j \in 1 .. n',
                          block'[i] = block'[j]
                   PROVE  i = j
        OBVIOUS
      <4>1. CASE i \in 1 .. n /\ j \in 1 .. n
        <5>1. block[i] = block[j]
          BY <3>2, <4>1
        <5> QED
          BY <4>1, <5>1
      <4>2. CASE i = n + 1 \/ j = n + 1
        BY <3>2, <3>7, <4>2
      <4> QED
        BY <3>7, <4>1, <4>2
    <3>4. \A i \in 1 .. n' : cache'[block'[i]] # None /\ pin'[block'[i]] > 0
      <4> SUFFICES ASSUME NEW i \in 1 .. n'
                   PROVE  cache'[block'[i]] # None /\ pin'[block'[i]] > 0
        OBVIOUS
      <4>1. CASE i \in 1 .. n
        <5>1. cache[block[i]] # None /\ pin[block[i]] > 0
          BY ONLY Data, <2>1, <4>1 DEF Data
        <5> QED
          BY ONLY <3>1, <3>2, <3>8, <3>9, <4>1, <5>1
      <4>2. CASE i = n + 1
        BY ONLY <3>1, <3>2, <3>9, <4>2, LogAssumption, b \in Blocks, v \in Values
      <4> QED
        BY <3>7, <4>1, <4>2
    <3>5. \A c \in Blocks : c \notin Logged' => c \notin Logged /\ c # b
      BY ONLY <3>0, <3>1, <3>2 DEF Logged
    <3>6. \A c \in Blocks : c \notin Logged' => Clean(c)'
      <4>1. \A c \in Blocks : c # b => cache'[c] = cache[c] /\ disk'[c] = disk[c]
        BY <2>2, <3>1
      <4> SUFFICES ASSUME NEW c \in Blocks, c \notin Logged' PROVE Clean(c)'
        OBVIOUS
      <4>2. c \notin Logged /\ c # b
        BY <3>5
      <4>3. Clean(c)
        BY <4>2
      <4> QED
        BY <4>1, <4>2, <4>3
    <3> QED
      BY <2>1, <2>2, <3>3, <3>4, <3>6
  <2> QED
    BY <2>3, <2>4, <2>5
<1>13. ASSUME NEW b \in Blocks, FillCache(b) PROVE Data'
  BY <1>13 DEF FillCache
<1>14. ASSUME NEW b \in Blocks, Evict(b) PROVE Data'
  <2>1. /\ cache' = [cache EXCEPT ![b] = None] /\ pin[b] = 0
        /\ UNCHANGED <<disk, logd, hn, hblock, n, block, pin, phase, tail>>
    BY <1>14 DEF Evict
  <2>2. \A c \in Blocks : Clean(c) => Clean(c)'
    BY <2>1
  <2>3. \A c \in Blocks : pin[c] > 0 => cache'[c] = cache[c]
    BY <2>1
  <2>5. phase = "write_log" => \A i \in 1 .. tail : i \in 1 .. n
    BY DEF Control
  <2>4. phase = "write_log" => \A i \in 1 .. tail : logd[i] = cache'[block[i]]
    BY <2>3, <2>5
  <2> QED
    BY <2>1, <2>2, <2>3, <2>4 DEF Control
<1>15. CASE Crash
  BY <1>15 DEF Crash
<1>16. CASE ReadHead
  BY <1>16 DEF ReadHead
<1>17. CASE Reinstall
  <2> DEFINE c == block[tail + 1]
  <2>1. tail + 1 \in 1 .. n /\ c \in Blocks /\ logd[tail + 1] \in Values
    BY <1>17 DEF Reinstall
  <2>2. /\ cache' = [cache EXCEPT ![c] = logd[tail + 1]]
        /\ disk' = [disk EXCEPT ![c] = logd[tail + 1]]
        /\ tail' = tail + 1 /\ phase = "recover"
        /\ UNCHANGED <<logd, hn, hblock, n, block, pin, phase>>
    BY <1>17 DEF Reinstall
  <2>3. \A i \in 1 .. n : block[i] = c <=> i = tail + 1
    BY <2>1
  <2>4. \A b \in Blocks : Clean(b)'
    BY <2>1, <2>2
  <2>5. \A i \in 1 .. tail' : disk'[block[i]] = logd[i] /\ Clean(block[i])'
    BY <2>1, <2>2, <2>3, <2>4
  <2>6. \A b \in Blocks : disk'[b] = Torn => disk[b] = Torn
    BY <2>1, <2>2
  <2> QED
    BY <2>2, <2>4, <2>5, <2>6
<1>18. CASE RecoveryDone
  BY <1>18 DEF RecoveryDone
<1>19. CASE UNCHANGED vars
  BY <1>19 DEF vars
<1> QED
  BY <1>1, <1>2, <1>3, <1>4, <1>5, <1>6, <1>7, <1>8, <1>9, <1>10, <1>11,
     <1>12, <1>13, <1>14, <1>15, <1>16, <1>17, <1>18, <1>19
  DEF Next, Committer, Recovery

\* The invariant holds in every reachable state.
LEMMA Invariant == Spec => []IInv
<1>1. IInv /\ [Next]_vars => IInv'
  BY TypeStep, ControlStep, DataStep DEF IInv
<1> QED
  BY <1>1, InitIInv, PTL DEF Spec

(* The variables of the log keep their types: in particular a block that   *)
(* a crash has torn never reaches the cache, and no buffer is unpinned     *)
(* more often than it was pinned.                                          *)
THEOREM TypeCorrect == Spec => []TypeOK
<1>1. IInv => TypeOK
  BY DEF IInv
<1> QED
  BY <1>1, Invariant, PTL

(* Nobody waits in begin_op() or sys_sync() unless an open call or a       *)
(* commit is there to wake it up, however small the log is.                *)
THEOREM NeverStuckProved == Spec => []NeverStuck
<1>1. IInv => NeverStuck
  <2> SUFFICES ASSUME IInv, waiting # {}
               PROVE  \E p \in Procs : pc[p] \in {"in", "commit", "panic"}
    BY DEF NeverStuck
  <2>1. CASE committing
    BY <2>1 DEF IInv, Control
  <2>2. CASE outstanding > 0
    <3>1. Open # {}
      BY <2>2, OpenEmpty DEF IInv, Control
    <3> QED
      BY <3>1 DEF Open
  <2> QED
    BY <2>1, <2>2 DEF IInv, Control
<1> QED
  BY <1>1, Invariant, PTL

(* When sys_sync() returns, no call that had ended when it began can be    *)
(* lost any more.                                                          *)
THEOREM SyncProved == Spec => SyncDurable
<1> DEFINE Returns(p) ==
      pc[p] \in {"sync", "syncwait"} /\ pc'[p] = "out" /\ phase' # "boot"
<1>1. ASSUME IInv, [Next]_vars PROVE [\A p \in Procs : Returns(p) => debt[p] = {}]_vars
  <2> SUFFICES ASSUME NEW p \in Procs, Returns(p) PROVE debt[p] = {}
    OBVIOUS
  <2>1. SyncTest(p) \/ SyncLoop(p)
    <3> USE <1>1 DEF IInv, TypeOK, mem
    <3>1. ASSUME NEW q \in Procs, BeginOp(q) PROVE FALSE
      BY <3>1 DEF BeginOp
    <3>2. ASSUME NEW q \in Procs, EndOp(q) PROVE FALSE
      BY <3>2 DEF EndOp
    <3>3. ASSUME NEW q \in Procs, Committer(q) PROVE FALSE
      BY <3>3 DEF Committer, WriteLog, WriteHead, Install, ClearHead, CommitDone
    <3>4. ASSUME NEW q \in Procs, CallSync(q) PROVE FALSE
      BY <3>4 DEF CallSync
    <3>5. ASSUME NEW q \in Procs, SyncTest(q) PROVE q = p
      BY <3>5 DEF SyncTest
    <3>6. ASSUME NEW q \in Procs, SyncLoop(q) PROVE q = p
      BY <3>6 DEF SyncLoop
    <3>7. ASSUME NEW q \in Procs, KillWake(q) PROVE FALSE
      BY <3>7 DEF KillWake
    <3>8. ASSUME NEW q \in Procs, NEW b \in Blocks, NEW v \in Values,
                 LogWrite(q, b, v)
          PROVE  FALSE
      BY <3>8 DEF LogWrite
    <3>9. ASSUME NEW b \in Blocks, FillCache(b) \/ Evict(b) PROVE FALSE
      BY <3>9 DEF FillCache, Evict
    <3>10. ~Crash
      BY DEF Crash
    <3>11. ~Recovery
      BY DEF Recovery, ReadHead, Reinstall, RecoveryDone
    <3>12. ~UNCHANGED vars
      BY DEF vars
    <3> QED
      BY <3>1, <3>2, <3>3, <3>4, <3>5, <3>6, <3>7, <3>8, <3>9, <3>10, <3>11,
         <3>12 DEF Next
  <2>2. CASE SyncTest(p)
    <3>1. ~committing /\ ~(outstanding > 0)
      BY <2>2, <1>1 DEF SyncTest, IInv, TypeOK
    <3>2. ended = {}
      BY <3>1, <1>1 DEF IInv, TypeOK, Control, Committing
    <3> QED
      BY <3>2, <1>1 DEF IInv, Control
  <2>3. CASE SyncLoop(p)
    BY <2>3, <1>1 DEF SyncLoop, IInv, TypeOK, Control
  <2> QED
    BY <2>1, <2>2, <2>3
<1> QED
  BY <1>1, Invariant, PTL DEF Spec, SyncDurable
-----------------------------------------------------------------------------
(* Space adds what the open calls have written: their blocks are in the    *)
(* log, so that a block that is not takes one of the slots still reserved. *)
Space ==
  /\ SpaceReserved
  /\ \A p \in Procs : pc[p] = "in" =>
       /\ used[p] \subseteq Logged
       /\ IsFiniteSet(used[p]) /\ Cardinality(used[p]) <= OpLimit

\* At most MAXOPBLOCKS slots for each call of a finite set O.
LEMMA SlotsBound ==
  ASSUME NEW O, IsFiniteSet(O), NEW R \in SUBSET (O \X (1 .. MAXOPBLOCKS))
  PROVE  /\ IsFiniteSet(R) /\ Cardinality(R) \in Nat
         /\ Cardinality(R) <= Cardinality(O) * MAXOPBLOCKS
<1> DEFINE S == 1 .. MAXOPBLOCKS
<1>1. IsFiniteSet(S) /\ Cardinality(S) = MAXOPBLOCKS
  BY LogAssumption, FS_Interval
<1>2. /\ IsFiniteSet(O \X S)
      /\ Cardinality(O \X S) = Cardinality(O) * Cardinality(S)
  BY <1>1, FS_Product
<1> QED
  BY <1>1, <1>2, FS_Subset, FS_CardinalityType

LEMMA ReservedFinite ==
  IsFiniteSet(Reserved) /\ Cardinality(Reserved) \in Nat
<1>1. Reserved \subseteq Open \X (1 .. MAXOPBLOCKS)
  BY DEF Reserved, Open
<1> QED
  BY <1>1, OpenFinite, SlotsBound

\* A step that reserves nothing and takes nothing from the log.
LEMMA ReservedShrinks ==
  ASSUME IInv, Space, n' \in Nat, n' <= n, Reserved' \subseteq Reserved
  PROVE  n' + Cardinality(Reserved') <= LOGBLOCKS
<1>1. Cardinality(Reserved') <= Cardinality(Reserved)
  BY ReservedFinite, FS_Subset DEF IInv
<1>2. IsFiniteSet(Reserved') /\ Cardinality(Reserved') \in Nat
  BY ReservedFinite, FS_Subset, FS_CardinalityType DEF IInv
<1> QED
  BY <1>1, <1>2, ReservedFinite, LogAssumption
  DEF IInv, TypeOK, Space, SpaceReserved

\* Every step keeps the space: begin_op() reserves what the call may use,
\* and every block that log_write() adds gives back one slot of its call.
LEMMA SpaceStep ==
  ASSUME OpLimit < MAXOPBLOCKS, IInv, Space, [Next]_vars
  PROVE  Space'
<1> USE LogAssumption
<1>t. TypeOK' /\ TypeOK /\ Control
  BY TypeStep DEF IInv
<1>a. ASSUME n' <= n, Logged \subseteq Logged',
             \A q \in Procs :
               /\ pc'[q] = "in" => pc[q] = "in" /\ used'[q] = used[q]
               /\ pc'[q] # "panic"
      PROVE  Space'
  <2>1. Reserved' \subseteq Reserved
    BY <1>a DEF Reserved
  <2> QED
    BY <1>a, <1>t, <2>1, ReservedShrinks DEF Space, SpaceReserved, TypeOK
<1>b. ASSUME n' \in 0 .. LOGBLOCKS,
             \A q \in Procs : pc'[q] \notin {"in", "panic"}
      PROVE  Space'
  <2>1. Cardinality(Reserved') = 0
    <3>1. Reserved' = {}
      BY <1>b DEF Reserved
    <3> QED
      BY <3>1, FS_EmptySet
  <2> QED
    BY <1>b, <2>1 DEF Space, SpaceReserved
<1>c. ASSUME committing PROVE \A q \in Procs : pc[q] \notin {"in", "panic"}
  BY <1>c, <1>t DEF Control, Open
<1>1. ASSUME NEW p \in Procs, BeginOp(p) PROVE Space'
  <2>0. n' = n /\ Logged' = Logged
    BY <1>1 DEF BeginOp, Logged
  <2>1. CASE committing \/ n + (outstanding + 1) * MAXOPBLOCKS > LOGBLOCKS
    BY <1>1, <2>0, <2>1, <1>a, <1>t DEF BeginOp, Space, SpaceReserved, TypeOK
  <2>2. CASE ~(committing \/ n + (outstanding + 1) * MAXOPBLOCKS > LOGBLOCKS)
    <3>1. /\ outstanding' = outstanding + 1
          /\ pc' = [pc EXCEPT ![p] = "in"]
          /\ used' = [used EXCEPT ![p] = {}]
      BY <1>1, <2>2 DEF BeginOp
    <3>2. Cardinality(Open') = outstanding + 1
      BY <3>1, ControlStep DEF Control
    <3>3. /\ IsFiniteSet(Reserved') /\ Cardinality(Reserved') \in Nat
          /\ Cardinality(Reserved') <= (outstanding + 1) * MAXOPBLOCKS
      <4>1. Reserved' \subseteq Open' \X (1 .. MAXOPBLOCKS)
        BY DEF Reserved, Open
      <4>2. IsFiniteSet(Open')
        BY FS_Subset DEF Open
      <4> QED
        BY <4>1, <4>2, <3>2, SlotsBound
    <3>4. n' + Cardinality(Reserved') <= LOGBLOCKS
      <4>1. n \in Nat /\ (outstanding + 1) * MAXOPBLOCKS \in Nat
        BY <1>t DEF TypeOK
      <4>2. n + (outstanding + 1) * MAXOPBLOCKS <= LOGBLOCKS
        BY <2>2, <4>1
      <4> QED
        BY <2>0, <3>3, <4>1, <4>2
    <3>5. IsFiniteSet({}) /\ Cardinality({}) = 0
      BY FS_EmptySet
    <3> QED
      BY <2>0, <3>1, <3>4, <3>5, <1>t DEF Space, SpaceReserved, TypeOK
  <2> QED
    BY <2>1, <2>2
<1>2. ASSUME NEW p \in Procs, EndOp(p) PROVE Space'
  <2>1. ~committing
    BY <1>2, <1>c DEF EndOp
  <2>2. \/ pc' = [pc EXCEPT ![p] = "commit"]
        \/ pc' = [pc EXCEPT ![p] = "out"]
    BY <1>2, <2>1 DEF EndOp
  <2>3. n' = n /\ Logged' = Logged /\ used' = [used EXCEPT ![p] = {}]
    BY <1>2 DEF EndOp, Logged
  <2> QED
    BY <2>2, <2>3, <1>a, <1>t DEF Space, SpaceReserved, TypeOK
<1>3. ASSUME NEW p \in Procs, Committer(p) PROVE Space'
  <2>1. committing
    BY <1>3, <1>t DEF Committer, WriteLog, WriteHead, Install, ClearHead,
                      CommitDone, Control, Committing
  <2>2. pc' = pc \/ pc' = [pc EXCEPT ![p] = "out"]
    BY <1>3 DEF Committer, WriteLog, WriteHead, Install, ClearHead, CommitDone,
                mem
  <2>3. \A q \in Procs : pc'[q] \notin {"in", "panic"}
    BY <2>1, <2>2, <1>c, <1>t DEF TypeOK
  <2> QED
    BY <2>3, <1>b, <1>t DEF TypeOK
<1>4. ASSUME NEW p \in Procs,
             CallSync(p) \/ SyncTest(p) \/ SyncLoop(p) \/ KillWake(p)
      PROVE  Space'
  <2>1. n' = n /\ Logged' = Logged /\ used' = used
    BY <1>4 DEF CallSync, SyncTest, SyncLoop, KillWake, mem, hist, Logged
  <2>2. \E s \in {"out", "sync", "syncwait"} :
          pc' = pc \/ pc' = [pc EXCEPT ![p] = s]
    BY <1>4 DEF CallSync, SyncTest, SyncLoop, KillWake
  <2> QED
    BY <2>1, <2>2, <1>a, <1>t DEF Space, SpaceReserved, TypeOK
<1>5. ASSUME NEW p \in Procs, NEW b \in Blocks, NEW v \in Values,
             LogWrite(p, b, v)
      PROVE  Space'
  <2> DEFINE u == Cardinality(used[p])
  <2>1. /\ pc[p] = "in" /\ used[p] \subseteq Logged /\ IsFiniteSet(used[p])
        /\ u \in Nat /\ u <= OpLimit
    BY <1>5, FS_CardinalityType DEF LogWrite, Space
  <2>2. <<p, u + 1>> \in Reserved
    BY <2>1 DEF Reserved
  <2>3. Cardinality(Reserved) > 0
    BY <1>t, <2>2, ReservedFinite, FS_EmptySet
  <2>4. n < LOGBLOCKS
    BY <1>t, <2>3, ReservedFinite DEF Space, SpaceReserved, TypeOK
  <2>5. outstanding >= 1
    <3>1. Open # {}
      BY <2>1 DEF Open
    <3> QED
      BY <3>1, <1>t, OpenEmpty, OpenFinite DEF Control
  <2>6. /\ pc' = pc /\ used' = [used EXCEPT ![p] = used[p] \cup {b}]
        /\ \/ b \in Logged /\ n' = n /\ block' = block
           \/ /\ b \notin Logged /\ n' = n + 1
              /\ block' = [block EXCEPT ![n + 1] = b]
    BY <1>5, <2>4, <2>5, <1>t DEF LogWrite, TypeOK
  <2>7. Logged' = Logged \cup {b}
    <3>1. CASE b \in Logged /\ n' = n /\ block' = block
      BY <3>1 DEF Logged
    <3>2. CASE /\ b \notin Logged /\ n' = n + 1
               /\ block' = [block EXCEPT ![n + 1] = b]
      <4>1. n \in Nat /\ n + 1 \in Slots /\ block \in [Slots -> Blocks]
        BY <2>4, <1>t DEF TypeOK, Slots
      <4>2. \A i \in 1 .. n : block'[i] = block[i]
        BY <3>2, <4>1, <2>4 DEF Slots
      <4>3. block'[n + 1] = b
        BY <3>2, <4>1
      <4>4. 1 .. n' = (1 .. n) \cup {n + 1}
        BY <3>2, <4>1
      <4> QED
        BY <4>2, <4>3, <4>4 DEF Logged
    <3> QED
      BY <2>6, <3>1, <3>2
  <2>8. CASE b \in used[p]
    <3>1. \A q \in Procs : used'[q] = used[q]
      BY <2>6, <2>8, <1>t DEF TypeOK
    <3>2. n' <= n /\ Logged \subseteq Logged'
      BY <2>1, <2>6, <2>7, <2>8, <1>t DEF TypeOK
    <3> QED
      BY <2>6, <3>1, <3>2, <1>a DEF Space, SpaceReserved
  <2>9. CASE b \notin used[p]
    <3>1. u < OpLimit
      BY <1>5, <2>9 DEF LogWrite
    <3>2. /\ IsFiniteSet(used'[p]) /\ Cardinality(used'[p]) = u + 1
          /\ \A q \in Procs \ {p} : used'[q] = used[q]
      BY <2>1, <2>6, <2>9, <1>t, FS_AddElement DEF TypeOK
    <3>3. Reserved' \subseteq Reserved \ {<<p, u + 1>>}
      <4> SUFFICES ASSUME NEW s \in Reserved'
                   PROVE  s \in Reserved /\ s # <<p, u + 1>>
        OBVIOUS
      <4>1. /\ s \in Procs \X (1 .. MAXOPBLOCKS) /\ pc[s[1]] = "in"
            /\ s[2] > Cardinality(used'[s[1]])
        BY <2>6 DEF Reserved
      <4>2. CASE s[1] = p
        BY <4>1, <4>2, <3>2, <2>1 DEF Reserved
      <4>3. CASE s[1] # p
        BY <4>1, <4>3, <3>2 DEF Reserved
      <4> QED
        BY <4>2, <4>3
    <3>4. /\ Cardinality(Reserved') \in Nat
          /\ Cardinality(Reserved') <= Cardinality(Reserved) - 1
      <4>1. /\ IsFiniteSet(Reserved \ {<<p, u + 1>>})
            /\ Cardinality(Reserved \ {<<p, u + 1>>})
                 = Cardinality(Reserved) - 1
        BY <1>t, <2>2, ReservedFinite, FS_RemoveElement
      <4> QED
        BY <3>3, <4>1, FS_Subset, FS_CardinalityType
    <3>5. n' + Cardinality(Reserved') <= LOGBLOCKS
      BY <2>6, <3>4, <1>t, ReservedFinite DEF Space, SpaceReserved, TypeOK
    <3>6. ASSUME NEW q \in Procs, pc'[q] = "in"
          PROVE  /\ used'[q] \subseteq Logged' /\ IsFiniteSet(used'[q])
                 /\ Cardinality(used'[q]) <= OpLimit
      BY <2>1, <2>6, <2>7, <3>1, <3>2, <3>6, <1>t DEF Space, TypeOK
    <3> QED
      BY <2>6, <3>5, <3>6 DEF Space, SpaceReserved
  <2> QED
    BY <2>8, <2>9
<1>6. ASSUME NEW b \in Blocks, FillCache(b) \/ Evict(b) PROVE Space'
  <2>1. UNCHANGED <<n, block, pc, used>>
    BY <1>6 DEF FillCache, Evict, hist
  <2> QED
    BY <2>1, <1>a, <1>t DEF Logged, Space, SpaceReserved, TypeOK
<1>7. CASE Crash \/ Recovery
  <2>1. \A q \in Procs : pc'[q] = "out"
    BY <1>7, <1>t DEF Crash, Recovery, ReadHead, Reinstall, RecoveryDone,
                      Control, Up
  <2> QED
    BY <2>1, <1>b, <1>t DEF TypeOK
<1>8. CASE UNCHANGED vars
  <2>1. UNCHANGED <<n, block, pc, used>>
    BY <1>8 DEF vars, mem, hist
  <2> QED
    BY <2>1, <1>a, <1>t DEF Logged, Space, SpaceReserved, TypeOK
<1> QED
  BY <1>1, <1>2, <1>3, <1>4, <1>5, <1>6, <1>7, <1>8 DEF Next

(* What begin_op() reserves is enough, for any processes and log size: the *)
(* log never overflows, and log_write() and end_op() never panic.  A call  *)
(* must write fewer blocks than MAXOPBLOCKS: log_write() panics on a full  *)
(* log even when the block is in it already.                               *)
THEOREM SpaceProved ==
  ASSUME OpLimit < MAXOPBLOCKS
  PROVE  Spec => []SpaceReserved
<1>1. Init => Space
  <2> SUFFICES ASSUME Init PROVE Space
    OBVIOUS
  <2>1. \A p \in Procs : pc[p] = "out"
    BY DEF Init
  <2>2. n = 0 /\ Reserved = {} /\ Cardinality({}) = 0
    BY <2>1, FS_EmptySet DEF Init, Reserved
  <2> QED
    BY <2>1, <2>2, LogAssumption DEF Space, SpaceReserved
<1>2. IInv /\ Space /\ [Next]_vars => Space'
  BY SpaceStep
<1>3. Space => SpaceReserved
  BY DEF Space
<1> QED
  BY <1>1, <1>2, <1>3, Invariant, PTL DEF Spec
-----------------------------------------------------------------------------
\* What an overlay holds, when no block is twice in the header.
LEMMA OverlayIs ==
  ASSUME NEW d, NEW l, NEW k \in Nat, NEW h,
         \A i, j \in 1 .. k : h[i] = h[j] => i = j,
         NEW b \in Blocks
  PROVE  /\ \A i \in 1 .. k : h[i] = b => Overlay(d, l, k, h)[b] = l[i]
         /\ (\A i \in 1 .. k : h[i] # b) => Overlay(d, l, k, h)[b] = d[b]
<1>1. ASSUME NEW i \in 1 .. k, h[i] = b
      PROVE  (CHOOSE j \in 1 .. k : h[j] = b) = i
  BY <1>1
<1> QED
  BY <1>1 DEF Overlay

\* Two overlays that agree on every block are equal.
LEMMA OverlayEq ==
  ASSUME NEW d, NEW l, NEW k, NEW h, NEW e, NEW m, NEW r, NEW g,
         \A b \in Blocks : Overlay(d, l, k, h)[b] = Overlay(e, m, r, g)[b]
  PROVE  Overlay(d, l, k, h) = Overlay(e, m, r, g)
  BY DEF Overlay

\* A log whose header is empty overlays nothing.
LEMMA DurableEmpty ==
  ASSUME NEW d, NEW l, NEW h
  PROVE  \A b \in Blocks : Overlay(d, l, 0, h)[b] = d[b]
  BY DEF Overlay

\* The steps that change what is on disk leave the durable state alone, but
\* for the one that writes the header.
LEMMA DurableStep ==
  ASSUME IInv, [Next]_vars, ~(\E p \in Procs : WriteHead(p))
  PROVE  Durable' = Durable
<1> USE LogAssumption DEF mem, hdr, hist
<1>a. hn \in Nat /\ (\A i, j \in 1 .. hn : hblock[i] = hblock[j] => i = j)
  BY DEF IInv, TypeOK, Data
<1>1. ASSUME UNCHANGED <<disk, logd, hdr>> PROVE Durable' = Durable
  BY <1>1 DEF Durable
<1>2. ASSUME NEW p \in Procs, WriteLog(p) PROVE Durable' = Durable
  <2>1. hn = 0 /\ hn' = 0 /\ disk' = disk /\ hblock' = hblock
    BY <1>2 DEF WriteLog, IInv, Data
  <2>2. \A b \in Blocks :
          Overlay(disk, logd', 0, hblock)[b] = Overlay(disk, logd, 0, hblock)[b]
    BY DurableEmpty
  <2> QED
    BY <2>1, <2>2, OverlayEq DEF Durable
<1>3. ASSUME NEW c, c = block[tail + 1], tail + 1 \in 1 .. hn,
             hblock[tail + 1] = c, NEW w, disk' = [disk EXCEPT ![c] = w],
             UNCHANGED <<logd, hdr>>
      PROVE  Durable' = Durable
  <2>1. \A b \in Blocks :
          (\A i \in 1 .. hn : hblock[i] # b) => disk'[b] = disk[b]
    BY <1>3 DEF IInv, TypeOK
  <2>2. hn' = hn /\ hblock' = hblock /\ logd' = logd
    BY <1>3
  <2> QED
    BY <2>1, <2>2 DEF Durable, Overlay
<1>4. ASSUME NEW p \in Procs, Install(p) PROVE Durable' = Durable
  <2>1. /\ tail + 1 \in 1 .. hn /\ hblock[tail + 1] = block[tail + 1]
        /\ disk' = [disk EXCEPT ![block[tail + 1]] = logd[tail + 1]]
        /\ UNCHANGED <<logd, hdr>>
    BY <1>4 DEF Install, IInv, Data, TypeOK
  <2> QED
    BY <1>3, <2>1
<1>5. CASE Reinstall
  <2>1. /\ tail + 1 \in 1 .. hn /\ hblock[tail + 1] = block[tail + 1]
        /\ disk' = [disk EXCEPT ![block[tail + 1]] = logd[tail + 1]]
        /\ UNCHANGED <<logd, hdr>>
    BY <1>5 DEF Reinstall, IInv, Data, TypeOK
  <2> QED
    BY <1>3, <2>1
<1>6. ASSUME phase \in {"install", "recover"}, tail = n, hn' = 0,
             UNCHANGED <<disk, logd, hblock>>
      PROVE  Durable' = Durable
  <2>1. ASSUME NEW b \in Blocks
        PROVE  disk[b] = Overlay(disk, logd, hn, hblock)[b]
    <3>1. CASE \A i \in 1 .. hn : hblock[i] # b
      BY <3>1 DEF Overlay
    <3>2. ASSUME NEW i \in 1 .. hn, hblock[i] = b PROVE disk[b] = logd[i]
      BY <1>6, <3>2 DEF IInv, Data, TypeOK
    <3> QED
      BY <1>a, <3>1, <3>2, OverlayIs
  <2> QED
    BY <1>6, <2>1, DurableEmpty, OverlayEq DEF Durable
<1>7. ASSUME NEW p \in Procs, ClearHead(p) PROVE Durable' = Durable
  BY <1>6, <1>7 DEF ClearHead
<1>8. CASE RecoveryDone
  BY <1>6, <1>8 DEF RecoveryDone
<1>9. CASE Crash
  <2>1. CASE UNCHANGED <<disk, logd>>
    BY <1>1, <1>9, <2>1 DEF Crash
  <2>2. CASE /\ phase = "write_log"
             /\ UNCHANGED disk
    <3>1. hn = 0 /\ hn' = 0 /\ disk' = disk /\ hblock' = hblock
      BY <1>9, <2>2 DEF Crash, IInv, Data
    <3>2. \A b \in Blocks :
           Overlay(disk, logd', 0, hblock)[b] = Overlay(disk, logd, 0, hblock)[b]
      BY DurableEmpty
    <3> QED
      BY <3>1, <3>2, OverlayEq DEF Durable
  <2>3. CASE /\ phase \in {"install", "recover"} /\ tail < n
             /\ disk' = [disk EXCEPT ![block[tail + 1]] = Torn]
             /\ UNCHANGED logd
    <3>1. tail + 1 \in 1 .. hn /\ hblock[tail + 1] = block[tail + 1]
      BY <2>3 DEF IInv, Data, TypeOK
    <3> QED
      BY <1>3, <1>9, <2>3, <3>1 DEF Crash
  <2> QED
    BY <1>9, <2>1, <2>2, <2>3 DEF Crash
<1> QED
  BY <1>1, <1>2, <1>4, <1>5, <1>7, <1>8, <1>9
  DEF Next, Committer, Recovery, vars, BeginOp, EndOp, CommitDone, CallSync,
      SyncTest, SyncLoop, KillWake, LogWrite, FillCache, Evict, ReadHead

\* A step that changes neither buffers nor home blocks keeps the view.
LEMMA ViewSame ==
  ASSUME Durable' = Durable, Up' <=> Up,
         Up => \A b \in Blocks : Bread(b)' = Bread(b)
  PROVE  View' = View
  BY DEF View

\* With an empty header, the durable state is what the home blocks hold.
LEMMA CommitPoint ==
  ASSUME IInv, NEW p \in Procs, WriteHead(p)
  PROVE  Durable' = View /\ View' = View
<1> USE LogAssumption DEF IInv, TypeOK, Data, WriteHead, mem, Up, Slots
<1>1. \A i \in 1 .. n : hblock'[i] = block[i] /\ logd[i] = cache[block[i]]
                        /\ cache[block[i]] # None
  OBVIOUS
<1>2. hn' = n /\ n \in Nat /\ UNCHANGED <<disk, logd, cache>>
  OBVIOUS
<1>3. \A i, j \in 1 .. n : hblock'[i] = hblock'[j] => i = j
  BY <1>1
<1>4. ASSUME NEW b \in Blocks
      PROVE  Overlay(disk, logd, n, hblock')[b] = Bread(b)
  <2>1. ASSUME NEW i \in 1 .. n, hblock'[i] = b
        PROVE  Overlay(disk, logd, n, hblock')[b] = Bread(b)
    <3>2. \A j \in 1 .. n : hblock'[j] = b => j = i
      BY <1>3, <2>1
    <3>3. (CHOOSE j \in 1 .. n : hblock'[j] = b) = i
      BY <2>1, <3>2
    <3>1. Overlay(disk, logd, n, hblock')[b] = logd[i]
      BY <2>1, <3>3 DEF Overlay
    <3> QED
      BY <1>1, <2>1, <3>1 DEF Bread
  <2>2. CASE \A i \in 1 .. n : hblock'[i] # b
    <3>1. Overlay(disk, logd, n, hblock')[b] = disk[b]
      BY <2>2 DEF Overlay
    <3>3. \A i \in 1 .. n : block[i] # b
      BY <1>1, <2>2
    <3>2. b \notin Logged
      BY <3>3 DEF Logged
    <3> QED
      BY <3>1, <3>2 DEF Clean, Bread
  <2> QED
    BY <2>1, <2>2
<1>5. Durable' = View
  <2>1. Durable' = Overlay(disk, logd, n, hblock')
    BY <1>2 DEF Durable
  <2>2. View = [b \in Blocks |-> Bread(b)]
    BY DEF View
  <2>3. Overlay(disk, logd, n, hblock')
          = [b \in Blocks |-> Overlay(disk, logd, n, hblock')[b]]
    BY DEF Overlay
  <2> QED
    BY <1>4, <2>1, <2>2, <2>3
<1>6. View' = View
  BY <1>2 DEF View, Bread
<1> QED
  BY <1>5, <1>6

\* Every step of the log is a step of the atomic disk, or none.
LEMMA StepRefines ==
  ASSUME IInv, [Next]_vars
  PROVE  A!Next \/ UNCHANGED <<Durable, View, Open>>
<1> USE LogAssumption DEF mem, hdr, hist
<1>1. ASSUME NEW p \in Procs, BeginOp(p)
      PROVE  A!Begin(p) \/ UNCHANGED <<Durable, View, Open>>
  <2>1. UNCHANGED <<disk, logd, hdr, cache, phase>>
    BY <1>1 DEF BeginOp
  <2>2. UNCHANGED <<Durable, View>>
    BY <2>1 DEF Durable, View, Bread, Up
  <2>3. p \notin Open /\ (Open' = Open \cup {p} \/ Open' = Open)
    BY <1>1 DEF BeginOp, Open, IInv, TypeOK
  <2> QED
    BY <2>2, <2>3 DEF A!Begin, Open
<1>2. ASSUME NEW p \in Procs, EndOp(p) PROVE A!End(p)
  <2>1. p \in Open /\ ~committing /\ phase = "idle"
    BY <1>2 DEF EndOp, Open, IInv, TypeOK, Control, Committing, Up, Phases
  <2>2. UNCHANGED <<disk, logd, hdr, cache>> /\ Up /\ Up'
    BY <1>2, <2>1 DEF EndOp, Up
  <2>3. UNCHANGED <<Durable, View>>
    BY <2>2 DEF Durable, View, Bread
  <2>4. Open' = Open \ {p}
    BY <1>2, <2>1 DEF EndOp, Open, IInv, TypeOK
  <2> QED
    BY <2>1, <2>3, <2>4 DEF A!End, Open
<1>3. ASSUME NEW p \in Procs, WriteHead(p) PROVE A!Commit
  <2>1. Open = {} /\ Open' = Open
    BY <1>3 DEF WriteHead, IInv, Control, Committing, Open
  <2> QED
    BY <1>3, <2>1, CommitPoint DEF A!Commit, Open
<1>4. ASSUME NEW p \in Procs, NEW b \in Blocks, NEW v \in Values,
             LogWrite(p, b, v)
      PROVE  A!Write(p, b, v) \/ UNCHANGED <<Durable, View, Open>>
  <2>1. p \in Open /\ Open' = Open
    BY <1>4 DEF LogWrite, Open, IInv, TypeOK
  <2>2. Durable' = Durable
    BY <1>4 DEF LogWrite, Durable
  <2>3. Up /\ Up' /\ disk' = disk
    BY <1>4 DEF LogWrite, IInv, Control, Up
  <2>4. CASE cache' = cache
    BY <2>1, <2>2, <2>3, <2>4 DEF View, Bread
  <2>5. CASE cache' = [cache EXCEPT ![b] = v]
    <3>1. \A c \in Blocks : Bread(c)' = IF c = b THEN v ELSE Bread(c)
      BY <2>3, <2>5 DEF Bread, IInv, TypeOK
    <3>2. View' = [View EXCEPT ![b] = v]
      BY <2>3, <3>1 DEF View
    <3> QED
      BY <2>1, <2>2, <3>2 DEF A!Write, Open
  <2> QED
    BY <1>4, <2>4, <2>5 DEF LogWrite
<1>5. CASE Crash
  <2>1. Durable' = Durable
    BY <1>5, DurableStep DEF Crash, WriteHead
  <2>2. ~Up' /\ Open' = {}
    BY <1>5 DEF Crash, Up, Open
  <2>3. View' = Durable
    <3>1. View' = [b \in Blocks |-> Durable'[b]]
      BY <2>2 DEF View
    <3>2. Durable = [b \in Blocks |-> Durable[b]]
      BY DEF Durable, Overlay
    <3> QED
      BY <2>1, <3>1, <3>2
  <2> QED
    BY <2>1, <2>2, <2>3 DEF A!Crash, A!Next, Open
<1>6. ASSUME NEW p \in Procs, WriteLog(p) \/ Install(p) \/ ClearHead(p)
      PROVE  UNCHANGED <<Durable, View, Open>>
  <2>1. Durable' = Durable
    BY <1>6, DurableStep DEF WriteLog, Install, ClearHead, WriteHead
  <2>2. Up /\ Up' /\ Open' = Open
    BY <1>6 DEF WriteLog, Install, ClearHead, Up, Open
  <2>3. ASSUME NEW b \in Blocks PROVE Bread(b)' = Bread(b)
    <3>1. CASE Install(p)
      <4>1. tail + 1 \in 1 .. n /\ block[tail + 1] \in Blocks
            /\ cache[block[tail + 1]] = logd[tail + 1]
            /\ logd[tail + 1] \in Values
        BY <3>1 DEF Install, IInv, TypeOK, Data, Slots
      <4> QED
        BY <3>1, <4>1 DEF Install, Bread, IInv, TypeOK
    <3>2. CASE WriteLog(p) \/ ClearHead(p)
      BY <3>2 DEF WriteLog, ClearHead, Bread
    <3> QED
      BY <1>6, <3>1, <3>2
  <2> QED
    BY <2>1, <2>2, <2>3, ViewSame
<1>7. ASSUME NEW p \in Procs,
             \/ CommitDone(p) \/ CallSync(p) \/ SyncTest(p) \/ SyncLoop(p)
             \/ KillWake(p)
      PROVE  UNCHANGED <<Durable, View, Open>>
  <2>1. UNCHANGED <<disk, logd, hdr, cache>> /\ (Up' <=> Up)
    BY <1>7 DEF CommitDone, CallSync, SyncTest, SyncLoop, KillWake, Up
  <2>2. Open' = Open
    BY <1>7 DEF CommitDone, CallSync, SyncTest, SyncLoop, KillWake, Open,
                IInv, TypeOK
  <2> QED
    BY <2>1, <2>2 DEF Durable, View, Bread
<1>8. ASSUME NEW b \in Blocks, FillCache(b) \/ Evict(b)
      PROVE  UNCHANGED <<Durable, View, Open>>
  <2>1. UNCHANGED <<disk, logd, hdr, phase, pc>> /\ Durable' = Durable
    BY <1>8 DEF FillCache, Evict, Durable
  <2>2. ASSUME Evict(b), Up PROVE Clean(b)
    BY <2>2 DEF Evict, IInv, TypeOK, Data, Control, Phases, Logged, Up
  <2>3. ASSUME NEW c \in Blocks, Up PROVE Bread(c)' = Bread(c)
    BY <1>8, <2>1, <2>2, <2>3
    DEF FillCache, Evict, Bread, Clean, IInv, TypeOK
  <2> QED
    BY <2>1, <2>3, ViewSame DEF Up, Open
<1>9. CASE ReadHead \/ Reinstall
  <2>1. Durable' = Durable
    BY <1>9, DurableStep DEF ReadHead, Reinstall, WriteHead
  <2>2. ~Up /\ ~Up' /\ Open' = Open
    BY <1>9 DEF ReadHead, Reinstall, Up, Open
  <2> QED
    BY <2>1, <2>2, ViewSame
<1>10. CASE RecoveryDone
  <2>1. Durable' = Durable
    BY <1>10, DurableStep DEF RecoveryDone, WriteHead
  <2>2. ~Up /\ Up' /\ Open' = Open /\ hn' = 0
        /\ UNCHANGED <<disk, logd, hblock, cache>>
    BY <1>10 DEF RecoveryDone, Up, Open
  <2>3. ASSUME NEW b \in Blocks PROVE Bread(b)' = Durable[b]
    <3>1. Durable'[b] = disk[b]
      BY <2>2 DEF Durable, Overlay
    <3>2. Clean(b)
      BY <1>10 DEF RecoveryDone, IInv, Data
    <3> QED
      BY <2>1, <2>2, <3>1, <3>2 DEF Bread, Clean
  <2>4. View' = View
    BY <2>2, <2>3 DEF View
  <2> QED
    BY <2>1, <2>2, <2>4
<1>11. CASE UNCHANGED vars
  BY <1>11 DEF vars, Durable, View, Bread, Up, Open
<1> QED
  BY <1>1, <1>2, <1>3, <1>4, <1>5, <1>6, <1>7, <1>8, <1>9, <1>10, <1>11
  DEF Next, Committer, Recovery, A!Next

(* The log implements an atomic disk for any processes, blocks, contents   *)
(* and log size: whatever crashes happen, and wherever, the writes of each *)
(* system call survive together or not at all.                             *)
THEOREM Refinement == Spec => ImplementsAtomicDisk
<1>1. Init => A!Init
  <2> SUFFICES ASSUME Init PROVE A!Init
    OBVIOUS
  <2>1. Durable = disk
    BY DEF Init, Durable, Overlay
  <2>2. View = Durable /\ Open = {}
    BY <2>1 DEF Init, View, Up, Open
  <2> QED
    BY <2>1, <2>2 DEF A!Init, Init, Open
<1>2. IInv /\ [Next]_vars => [A!Next]_<<Durable, View, Open>>
  BY StepRefines
<1> QED
  BY <1>1, <1>2, Invariant, PTL DEF Spec, ImplementsAtomicDisk, A!Spec, A!vars, Open
=============================================================================
