--------------------------- MODULE ConsoleProofs ---------------------------
(***************************************************************************)
(* Proofs about Console.tla: the input buffer keeps the edited line, for   *)
(* any readers and writers, any buffer size and any modulus of the indices *)
(* that the size divides, as 128 divides 2^32.                             *)
(*                                                                         *)
(* The buffer alone is not inductive.  consoleintr() tests for room, then  *)
(* echoes for as long as the device takes, and stores after that: the      *)
(* invariant adds that it has cons.lock all the while (Locked), so that    *)
(* the room it has seen is still there (Fits).                             *)
(***************************************************************************)
EXTENDS Console, ModLemmas, SequenceTheorems

Indices == 0 .. IndexMod - 1
Slots == 0 .. INPUT_BUF_SIZE - 1
Symbols == Chars \cup {"nul", "nl"}

Inside == {"char", "spin", "put", "store", "release"}

Buffers == [buf : [Slots -> Symbols], r : Indices, w : Indices, e : Indices]
RecordsR ==
  [pc : {"idle", "acquire", "loop", "sleep", "asleep", "woken"},
   target : Nat, n : Nat]
RecordsW ==
  [pc : {"idle", "prepare", "test", "thr", "sleep", "asleep", "woken",
         "done"},
   i : Nat]

TypeOK ==
  /\ cons \in Buffers
  /\ lock \in Readers \cup {NoProc, Handler}
  /\ rd \in [Readers -> RecordsR] /\ wr \in [Writers -> RecordsW]
  /\ txlock \in Writers \cup {NoProc}
  /\ chan \in SUBSET (Readers \cup Writers) /\ killed \in SUBSET Victims
  /\ intr \in [pc : {"idle", "status", "getc"} \cup Inside,
               c : Chars \cup {"nul"}]
  /\ uart \in [rx : Seq(Chars), tx : Seq(Writers \cup {Handler}),
               irq : BOOLEAN]
  /\ typed \in Nat /\ line \in Seq(Symbols)

\* cons.lock belongs to the reader in its loop, or to consoleintr().
Locked ==
  /\ \A p \in Readers : rd[p].pc = "loop" => lock = p
  /\ intr.pc \in Inside => lock = Handler

\* The room that consoleintr() has seen before the echo is there after it.
Fits ==
  intr.pc = "store" \/ (intr.pc \in {"spin", "put"}
                        /\ intr.c \notin {"kill", "bs"}) => Room

\* The characters from r to e are the line that has not been read.
Holds(c, l) ==
  /\ Len(l) = Minus(c.e, c.r) /\ Len(l) <= INPUT_BUF_SIZE
  /\ Minus(c.w, c.r) <= Len(l)
  /\ \A k \in 1 .. Len(l) :
       l[k] = c.buf[Rem(c.r + (k - 1), INPUT_BUF_SIZE)]
Kept == Holds(cons, line)

\* Nobody sleeps while there is something to read.
Waits ==
  \A p \in chan \cap Readers :
    rd[p].pc \in {"sleep", "asleep"} => cons.r = cons.w

\* A read goes on while it wants more.
Asks == \A p \in Readers : rd[p].pc # "idle" => rd[p].n >= 1

\* The invariant without the types.
Rest == Locked /\ Fits /\ Kept /\ Waits /\ Asks
IInv == TypeOK /\ Rest
-----------------------------------------------------------------------------
\* Indices.

\* How far an index is ahead of another, which may have wrapped around.
LEMMA MinusIs ==
  ASSUME NEW i \in Indices, NEW j \in Indices
  PROVE  /\ Minus(i, j) = IF j <= i THEN i - j ELSE i - j + IndexMod
         /\ Minus(i, j) \in Indices
<1>1. CASE j <= i
  BY <1>1, ConsoleAssumption, RemSmall DEF Minus, Indices
<1>2. CASE i < j
  BY <1>2, ConsoleAssumption, RemNeg DEF Minus, Indices
<1> QED
  BY <1>1, <1>2 DEF Indices

\* An index is not ahead of itself.
LEMMA MinusZero ==
  ASSUME NEW i \in Indices
  PROVE  Minus(i, i) = 0
<1>1. Minus(i, i) = IF i <= i THEN i - i ELSE i - i + IndexMod
  BY MinusIs
<1> QED
  BY <1>1 DEF Indices

\* The index after another.
LEMMA IndexAfter ==
  ASSUME NEW i \in Indices
  PROVE  (i + 1) % IndexMod = IF i = IndexMod - 1 THEN 0 ELSE i + 1
  BY ConsoleAssumption, RemSmall, RemOver DEF Indices

\* The index before another.
LEMMA IndexBefore ==
  ASSUME NEW i \in Indices
  PROVE  Minus(i, 1) = IF i = 0 THEN IndexMod - 1 ELSE i - 1
<1>1. 1 \in Indices
  BY ConsoleAssumption DEF Indices
<1> QED
  BY <1>1, MinusIs, ConsoleAssumption DEF Indices

\* Different indices have different distances from a third.
LEMMA MinusDiffer ==
  ASSUME NEW i \in Indices, NEW j \in Indices, NEW k \in Indices, i # j
  PROVE  Minus(i, k) # Minus(j, k)
<1>1. Minus(i, k) = IF k <= i THEN i - k ELSE i - k + IndexMod
  BY MinusIs
<1>2. Minus(j, k) = IF k <= j THEN j - k ELSE j - k + IndexMod
  BY MinusIs
<1> QED
  BY <1>1, <1>2, ConsoleAssumption DEF Indices

\* The distance when the index behind advances.
LEMMA MinusTake ==
  ASSUME NEW i \in Indices, NEW j \in Indices, i # j,
         NEW k \in Indices, k = (j + 1) % IndexMod
  PROVE  Minus(i, j) >= 1 /\ Minus(i, k) = Minus(i, j) - 1
<1>1. Minus(i, j) = IF j <= i THEN i - j ELSE i - j + IndexMod
  BY MinusIs
<1>2. Minus(i, k) = IF k <= i THEN i - k ELSE i - k + IndexMod
  BY MinusIs
<1>3. k = IF j = IndexMod - 1 THEN 0 ELSE j + 1
  BY IndexAfter
<1> QED
  BY <1>1, <1>2, <1>3, ConsoleAssumption DEF Indices

\* The distance when the index in front goes back.
LEMMA MinusErase ==
  ASSUME NEW i \in Indices, NEW j \in Indices, i # j,
         NEW k \in Indices, k = Minus(i, 1)
  PROVE  Minus(k, j) = Minus(i, j) - 1
<1>1. Minus(i, j) = IF j <= i THEN i - j ELSE i - j + IndexMod
  BY MinusIs
<1>2. Minus(k, j) = IF j <= k THEN k - j ELSE k - j + IndexMod
  BY MinusIs
<1>3. k = IF i = 0 THEN IndexMod - 1 ELSE i - 1
  BY IndexBefore
<1> QED
  BY <1>1, <1>2, <1>3, ConsoleAssumption DEF Indices

\* The distance when the index in front advances.
LEMMA MinusStore ==
  ASSUME NEW i \in Indices, NEW j \in Indices,
         Minus(i, j) < INPUT_BUF_SIZE,
         NEW k \in Indices, k = (i + 1) % IndexMod
  PROVE  Minus(k, j) = Minus(i, j) + 1
<1>1. Minus(i, j) = IF j <= i THEN i - j ELSE i - j + IndexMod
  BY MinusIs
<1>2. Minus(k, j) = IF j <= k THEN k - j ELSE k - j + IndexMod
  BY MinusIs
<1>3. k = IF i = IndexMod - 1 THEN 0 ELSE i + 1
  BY IndexAfter
<1> QED
  BY <1>1, <1>2, <1>3, ConsoleAssumption DEF Indices

\* Every index has a place in the buffer.
LEMMA SlotType ==
  /\ \A x \in Nat : Rem(x, INPUT_BUF_SIZE) \in Slots
  /\ \A x : Slot(x) = Rem(x, INPUT_BUF_SIZE)
  BY ConsoleAssumption, RemExists DEF Slots, Slot, Rem

\* The size of the buffer divides the modulus of its indices.
LEMMA SlotPeriod ==
  \A x \in Nat : Rem(x + IndexMod, INPUT_BUF_SIZE) = Rem(x, INPUT_BUF_SIZE)
<1>1. /\ INPUT_BUF_SIZE \in Nat \ {0} /\ IndexMod \in Nat
      /\ Rem(IndexMod, INPUT_BUF_SIZE) = 0
  BY ConsoleAssumption DEF Rem
<1> QED
  BY <1>1, RemPeriod

\* A step of the reader leaves each character where it is.
LEMMA SlotAfter ==
  ASSUME NEW i \in Indices, NEW j, j = (i + 1) % IndexMod, NEW k \in Nat
  PROVE  Rem(j + k, INPUT_BUF_SIZE) = Rem(i + (k + 1), INPUT_BUF_SIZE)
<1>1. CASE i = IndexMod - 1
  <2>1. j + k = k
    BY <1>1, IndexAfter
  <2>2. i + (k + 1) = k + IndexMod
    BY <1>1, ConsoleAssumption
  <2> QED
    BY <2>1, <2>2, SlotPeriod
<1>2. CASE i # IndexMod - 1
  <2>1. j = i + 1 /\ i \in Nat
    BY <1>2, IndexAfter, ConsoleAssumption DEF Indices
  <2>2. j + k = i + (k + 1)
    BY <2>1
  <2> QED
    BY <2>2
<1> QED
  BY <1>1, <1>2

\* The place for the next character is behind the last one.
LEMMA SlotLast ==
  ASSUME NEW i \in Indices, NEW j \in Indices
  PROVE  Rem(i + Minus(j, i), INPUT_BUF_SIZE) = Rem(j, INPUT_BUF_SIZE)
<1>1. CASE i <= j
  <2>1. i + Minus(j, i) = j
    BY <1>1, MinusIs, ConsoleAssumption DEF Indices
  <2> QED
    BY <2>1
<1>2. CASE ~(i <= j)
  <2>1. i + Minus(j, i) = j + IndexMod /\ j \in Nat
    BY <1>2, MinusIs, ConsoleAssumption DEF Indices
  <2> QED
    BY <2>1, SlotPeriod
<1> QED
  BY <1>1, <1>2

\* Characters that are in the buffer together have different places.
LEMMA SlotsDiffer ==
  ASSUME NEW i \in Nat, NEW k \in Nat, NEW l \in Nat, k < l,
         l - k < INPUT_BUF_SIZE
  PROVE  Rem(i + k, INPUT_BUF_SIZE) # Rem(i + l, INPUT_BUF_SIZE)
<1>1. /\ INPUT_BUF_SIZE \in Nat \ {0} /\ i + k \in Nat
      /\ l - k \in 1 .. INPUT_BUF_SIZE - 1
  BY ConsoleAssumption
<1>2. Rem((i + k) + (l - k), INPUT_BUF_SIZE) # Rem(i + k, INPUT_BUF_SIZE)
  BY <1>1, RemDistinct
<1>3. (i + k) + (l - k) = i + l
  OBVIOUS
<1> QED
  BY <1>2, <1>3
-----------------------------------------------------------------------------
\* What the operations do to the buffer and the line.

\* A reader takes the first character.
LEMMA Taken ==
  ASSUME NEW c \in Buffers, NEW l \in Seq(Symbols), Holds(c, l), c.r # c.w,
         NEW d \in Buffers, d.buf = c.buf, d.w = c.w, d.e = c.e,
         d.r = (c.r + 1) % IndexMod
  PROVE  Holds(d, Tail(l)) /\ Tail(l) \in Seq(Symbols) /\ l # <<>>
<1>1. /\ c.r \in Indices /\ c.w \in Indices /\ c.e \in Indices
      /\ d.r \in Indices /\ Len(l) \in Nat
  BY DEF Buffers
<1>2. Minus(c.w, c.r) >= 1 /\ Minus(d.w, d.r) = Minus(c.w, c.r) - 1
  BY <1>1, MinusTake
<1>0. /\ Minus(c.w, c.r) \in Nat /\ Minus(c.e, c.r) \in Nat
      /\ Minus(c.r, c.r) = 0
  <2>1. Minus(c.w, c.r) \in Indices /\ Minus(c.e, c.r) \in Indices
    BY <1>1, MinusIs
  <2> QED
    BY <1>1, <2>1, MinusZero DEF Indices
<1>3. /\ Len(l) >= 1 /\ Len(l) = Minus(c.e, c.r)
      /\ Len(l) <= INPUT_BUF_SIZE /\ Minus(c.w, c.r) <= Len(l)
  BY <1>0, <1>1, <1>2 DEF Holds
<1>4. Minus(d.e, d.r) = Minus(c.e, c.r) - 1
  <2>1. c.e # c.r
    BY <1>0, <1>3
  <2> QED
    BY <1>1, <2>1, MinusTake
<1>5. l # <<>>
  BY <1>3
<1>6. /\ Tail(l) \in Seq(Symbols) /\ Len(Tail(l)) = Len(l) - 1
      /\ \A k \in 1 .. Len(l) - 1 : Tail(l)[k] = l[k + 1]
  BY <1>5
<1>7. ASSUME NEW k \in 1 .. Len(l) - 1
      PROVE  Tail(l)[k] = d.buf[Rem(d.r + (k - 1), INPUT_BUF_SIZE)]
  <2>1. Tail(l)[k] = l[k + 1] /\ k + 1 \in 1 .. Len(l) /\ k - 1 \in Nat
    BY <1>1, <1>6
  <2>2. l[k + 1] = c.buf[Rem(c.r + k, INPUT_BUF_SIZE)]
    <3>1. (k + 1) - 1 = k
      OBVIOUS
    <3>2. l[k + 1] = c.buf[Rem(c.r + ((k + 1) - 1), INPUT_BUF_SIZE)]
      BY <2>1 DEF Holds
    <3> QED
      BY <3>1, <3>2
  <2>3. Rem(d.r + (k - 1), INPUT_BUF_SIZE)
          = Rem(c.r + ((k - 1) + 1), INPUT_BUF_SIZE)
    BY <1>1, <2>1, SlotAfter
  <2>4. (k - 1) + 1 = k
    OBVIOUS
  <2> QED
    BY <2>1, <2>2, <2>3, <2>4
<1> QED
  <2>1. /\ Len(Tail(l)) = Minus(d.e, d.r)
        /\ Len(Tail(l)) <= INPUT_BUF_SIZE
        /\ Minus(d.w, d.r) <= Len(Tail(l))
    BY <1>0, <1>1, <1>2, <1>3, <1>4, <1>6, ConsoleAssumption
  <2>2. \A k \in 1 .. Len(Tail(l)) :
          Tail(l)[k] = d.buf[Rem(d.r + (k - 1), INPUT_BUF_SIZE)]
    BY <1>6, <1>7
  <2> QED
    BY <1>5, <1>6, <2>1, <2>2 DEF Holds

\* Backspace takes the last character that is not available yet.
LEMMA Erased ==
  ASSUME NEW c \in Buffers, NEW l \in Seq(Symbols), Holds(c, l), c.e # c.w,
         NEW d \in Buffers, d.buf = c.buf, d.w = c.w, d.r = c.r,
         d.e = Minus(c.e, 1)
  PROVE  Holds(d, Front(l)) /\ Front(l) \in Seq(Symbols)
<1>1. /\ c.r \in Indices /\ c.w \in Indices /\ c.e \in Indices
      /\ d.e \in Indices /\ Len(l) \in Nat
  BY DEF Buffers
<1>0. Minus(c.w, c.r) \in Indices
  BY <1>1, MinusIs
<1>2. /\ Len(l) = Minus(c.e, c.r) /\ Len(l) <= INPUT_BUF_SIZE
      /\ Minus(c.w, c.r) <= Len(l) /\ Minus(c.w, c.r) \in Nat
  BY <1>0, <1>1 DEF Holds, Indices
<1>3. Len(l) > Minus(c.w, c.r)
  <2>1. Minus(c.e, c.r) # Minus(c.w, c.r)
    BY <1>1, MinusDiffer
  <2> QED
    BY <1>1, <1>2, <2>1
<1>4. Minus(d.e, d.r) = Minus(c.e, c.r) - 1
  <2>1. Minus(c.r, c.r) = 0
    BY <1>1, MinusZero
  <2>2. c.e # c.r
    BY <1>2, <1>3, <2>1
  <2> QED
    BY <1>1, <2>2, MinusErase
<1>5. /\ Front(l) \in Seq(Symbols) /\ Len(Front(l)) = Len(l) - 1
      /\ \A k \in 1 .. Len(l) - 1 : Front(l)[k] = l[k]
  BY <1>1, <1>2, <1>3, SubSeqProperties DEF Front
<1> QED
  <2>1. /\ Len(Front(l)) = Minus(d.e, d.r)
        /\ Len(Front(l)) <= INPUT_BUF_SIZE
        /\ Minus(d.w, d.r) <= Len(Front(l))
    BY <1>1, <1>2, <1>3, <1>4, <1>5, ConsoleAssumption
  <2>2. \A k \in 1 .. Len(Front(l)) :
          Front(l)[k] = d.buf[Rem(d.r + (k - 1), INPUT_BUF_SIZE)]
    BY <1>1, <1>5 DEF Holds
  <2> QED
    BY <1>5, <2>1, <2>2 DEF Holds

\* consoleintr() stores a character behind the last one; the input up to
\* the old w or up to the new character is available.
LEMMA Stored ==
  ASSUME NEW c \in Buffers, NEW l \in Seq(Symbols), Holds(c, l),
         Minus(c.e, c.r) < INPUT_BUF_SIZE, NEW x \in Symbols,
         NEW d \in Buffers, d.r = c.r, d.e = (c.e + 1) % IndexMod,
         d.w \in {c.w, d.e},
         d.buf = [c.buf EXCEPT ![Slot(c.e)] = x]
  PROVE  Holds(d, Append(l, x)) /\ Append(l, x) \in Seq(Symbols)
<1>1. /\ c.r \in Indices /\ c.w \in Indices /\ c.e \in Indices
      /\ d.e \in Indices /\ Len(l) \in Nat /\ c.buf \in [Slots -> Symbols]
      /\ c.r \in Nat /\ c.e \in Nat
  BY DEF Buffers, Indices
<1>0. Minus(c.w, c.r) \in Indices
  BY <1>1, MinusIs
<1>2. /\ Len(l) = Minus(c.e, c.r) /\ Len(l) < INPUT_BUF_SIZE
      /\ Minus(c.w, c.r) <= Len(l) /\ Minus(c.w, c.r) \in Nat
  BY <1>0, <1>1 DEF Holds, Indices
<1>3. Minus(d.e, d.r) = Len(l) + 1
  BY <1>1, <1>2, MinusStore
<1>4. /\ Append(l, x) \in Seq(Symbols) /\ Len(Append(l, x)) = Len(l) + 1
      /\ \A k \in 1 .. Len(l) : Append(l, x)[k] = l[k]
      /\ Append(l, x)[Len(l) + 1] = x
  OBVIOUS
<1>5. Minus(d.w, d.r) <= Len(l) + 1
  BY <1>1, <1>2, <1>3
<1>6. Slot(c.e) = Rem(c.r + Len(l), INPUT_BUF_SIZE) /\ Slot(c.e) \in Slots
  BY <1>1, <1>2, SlotLast, SlotType
<1>7. d.buf[Rem(c.r + Len(l), INPUT_BUF_SIZE)] = x
  BY <1>1, <1>6
<1>8. ASSUME NEW k \in 1 .. Len(l)
      PROVE  l[k] = d.buf[Rem(c.r + (k - 1), INPUT_BUF_SIZE)]
  <2>1. k - 1 \in Nat /\ k - 1 < Len(l) /\ Len(l) - (k - 1) < INPUT_BUF_SIZE
        /\ c.r + (k - 1) \in Nat
    BY <1>1, <1>2, ConsoleAssumption
  <2>2. Rem(c.r + (k - 1), INPUT_BUF_SIZE) # Slot(c.e)
    BY <1>1, <1>6, <2>1, SlotsDiffer
  <2>3. Rem(c.r + (k - 1), INPUT_BUF_SIZE) \in Slots
    BY <2>1, SlotType
  <2>4. l[k] = c.buf[Rem(c.r + (k - 1), INPUT_BUF_SIZE)]
    BY DEF Holds
  <2> QED
    BY <1>1, <2>2, <2>3, <2>4
<1>9. ASSUME NEW k \in 1 .. Len(Append(l, x))
      PROVE  Append(l, x)[k] = d.buf[Rem(d.r + (k - 1), INPUT_BUF_SIZE)]
  <2>1. CASE k = Len(l) + 1
    <3>1. k - 1 = Len(l)
      BY <1>1, <2>1
    <3> QED
      BY <1>4, <1>7, <2>1, <3>1
  <2>2. CASE k # Len(l) + 1
    <3>1. k \in 1 .. Len(l)
      BY <1>1, <1>4, <2>2
    <3> QED
      BY <1>4, <1>8, <3>1
  <2> QED
    BY <2>1, <2>2
<1> QED
  <2>1. /\ Len(Append(l, x)) = Minus(d.e, d.r)
        /\ Len(Append(l, x)) <= INPUT_BUF_SIZE
        /\ Minus(d.w, d.r) <= Len(Append(l, x))
    BY <1>1, <1>2, <1>3, <1>4, <1>5, ConsoleAssumption
  <2> QED
    BY <1>4, <1>9, <2>1 DEF Holds
-----------------------------------------------------------------------------
\* The steps.

\* wakeup() moves those who sleep, and nobody else.
LEMMA AwakeIs ==
  ASSUME TypeOK, NEW S
  PROVE  /\ Awake(rd, S) \in [Readers -> RecordsR]
         /\ Awake(wr, S) \in [Writers -> RecordsW]
         /\ \A p \in Readers :
              \/ Awake(rd, S)[p] = rd[p]
              \/ /\ rd[p].pc = "asleep" /\ Awake(rd, S)[p].pc = "woken"
                 /\ Awake(rd, S)[p].n = rd[p].n
<1>1. \A x \in RecordsR : /\ [x EXCEPT !.pc = "woken"] \in RecordsR
                           /\ [x EXCEPT !.pc = "woken"].pc = "woken"
                           /\ [x EXCEPT !.pc = "woken"].n = x.n
  BY DEF RecordsR
<1>2. \A x \in RecordsW : [x EXCEPT !.pc = "woken"] \in RecordsW
  BY DEF RecordsW
<1>3. /\ rd \in [Readers -> RecordsR] /\ wr \in [Writers -> RecordsW]
  BY DEF TypeOK
<1> QED
  BY <1>1, <1>2, <1>3 DEF Awake

\* A step of a writer or of the device.
LEMMA OutsideOK ==
  ASSUME Rest, UNCHANGED <<cons, lock, rd, intr, line>>,
         chan' \cap Readers \subseteq chan
  PROVE  Rest'
<1>1. Locked' /\ Fits' /\ Kept'
  BY DEF Rest, Locked, Fits, Room, Kept, Minus, Holds
<1>2. Waits' /\ Asks'
  BY DEF Rest, Waits, Asks
<1> QED
  BY <1>1, <1>2 DEF Rest

\* A writer keeps the types.
LEMMA WriteType ==
  ASSUME TypeOK, NEW p \in Writers, WriteStep(p)
  PROVE  TypeOK'
<1>0. wr[p] \in RecordsW /\ WriteLen \in Nat
  BY ConsoleAssumption DEF TypeOK
<1>1. ASSUME NEW k \in {"prepare", "test", "thr", "sleep", "asleep",
                        "woken", "done"}
      PROVE  [wr EXCEPT ![p].pc = k] \in [Writers -> RecordsW]
  BY DEF TypeOK, RecordsW
<1>2. CASE Write(p)
  BY <1>1, <1>2 DEF Write, TypeOK
<1>3. CASE WritePrepare(p)
  BY <1>1, <1>3 DEF WritePrepare, TypeOK
<1>4. CASE WriteTest(p)
  BY <1>1, <1>4 DEF WriteTest, TypeOK
<1>5. CASE WriteThr(p)
  <2>1. wr' \in [Writers -> RecordsW]
    BY <1>0, <1>5 DEF WriteThr, TypeOK, RecordsW
  <2>2. uart' \in [rx : Seq(Chars), tx : Seq(Writers \cup {Handler}),
                   irq : BOOLEAN]
    <3>1. PICK t : t = Append(uart.tx, p)
      OBVIOUS
    <3>2. t \in Seq(Writers \cup {Handler})
      BY <3>1 DEF TypeOK
    <3> QED
      BY <1>5, <3>1, <3>2 DEF WriteThr, TypeOK
  <2> QED
    BY <1>5, <2>1, <2>2 DEF WriteThr, TypeOK
<1>6. CASE WriteSleep(p)
  BY <1>1, <1>6 DEF WriteSleep, TypeOK
<1>7. CASE WriteEnd(p)
  BY <1>1, <1>7 DEF WriteEnd, TypeOK
<1> QED
  BY <1>2, <1>3, <1>4, <1>5, <1>6, <1>7 DEF WriteStep

\* A writer leaves the input alone.
LEMMA WriteRest ==
  ASSUME TypeOK, Rest, NEW p \in Writers, WriteStep(p)
  PROVE  Rest'
<1>1. UNCHANGED <<cons, lock, rd, intr, line>>
  BY DEF WriteStep, Write, WritePrepare, WriteTest, WriteThr, WriteSleep,
         WriteEnd
<1>2. chan' \cap Readers \subseteq chan
  BY ConsoleAssumption DEF WriteStep, Write, WritePrepare, WriteTest,
       WriteThr, WriteSleep, WriteEnd
<1> QED
  BY <1>1, <1>2, OutsideOK

\* A character is typed, or sent.
LEMMA DeviceOK ==
  ASSUME TypeOK, Rest, (\E c \in Chars : Type(c)) \/ Send
  PROVE  TypeOK' /\ Rest'
<1>0. typed' \in Nat
  <2>1. CASE Send
    BY <2>1 DEF Send, TypeOK
  <2>2. ASSUME NEW c \in Chars, Type(c) PROVE typed' \in Nat
    <3>1. typed' = typed + 1 /\ typed \in Nat
      BY <2>2 DEF Type, TypeOK
    <3> QED
      BY <3>1
  <2> QED
    BY <2>1, <2>2
<1>1. UNCHANGED <<cons, lock, rd, wr, txlock, chan, killed, intr, line>>
  BY DEF Type, Send, procs
<1>2. uart' \in [rx : Seq(Chars), tx : Seq(Writers \cup {Handler}),
                 irq : BOOLEAN]
  <2>1. CASE Send
    <3>1. PICK t : t = Tail(uart.tx)
      OBVIOUS
    <3>2. t \in Seq(Writers \cup {Handler})
      BY <2>1, <3>1 DEF Send, TypeOK
    <3> QED
      BY <2>1, <3>1, <3>2 DEF Send, TypeOK
  <2>2. ASSUME NEW c \in Chars, Type(c)
        PROVE  uart' \in [rx : Seq(Chars), tx : Seq(Writers \cup {Handler}),
                          irq : BOOLEAN]
    <3>1. PICK t : t = <<c>>
      OBVIOUS
    <3>2. t \in Seq(Chars)
      BY <3>1
    <3> QED
      BY <2>2, <3>1, <3>2 DEF Type, TypeOK
  <2> QED
    BY <2>1, <2>2
<1>3. TypeOK'
  BY <1>0, <1>1, <1>2 DEF TypeOK
<1> QED
  BY <1>1, <1>3, OutsideOK

\* kkill() wakes its victim.
LEMMA KillOK ==
  ASSUME TypeOK, Rest, NEW p \in Victims, Kill(p)
  PROVE  TypeOK' /\ Rest'
<1>1. /\ UNCHANGED <<cons, lock, txlock, chan, intr, uart, typed, line>>
      /\ killed' = killed \cup {p}
      /\ rd' = Awake(rd, {p}) /\ wr' = Awake(wr, {p})
  BY DEF Kill
<1>2. TypeOK'
  BY <1>1, AwakeIs DEF TypeOK
<1>3. \A q \in Readers : \/ rd'[q] = rd[q]
                         \/ /\ rd[q].pc = "asleep" /\ rd'[q].pc = "woken"
                            /\ rd'[q].n = rd[q].n
  BY <1>1, AwakeIs
<1>4. Locked' /\ Waits' /\ Asks'
  BY <1>1, <1>3 DEF Rest, Locked, Waits, Asks
<1>5. Fits' /\ Kept'
  BY <1>1 DEF Rest, Fits, Room, Kept, Minus, Holds
<1> QED
  BY <1>2, <1>4, <1>5 DEF Rest

\* A reader begins, gets cons.lock, waits or sleeps.
LEMMA ReadWaitOK ==
  ASSUME TypeOK, Rest, NEW p \in Readers,
         \/ \E n \in Counts : Read(p, n)
         \/ ReadAcquire(p) \/ ReadWait(p) \/ ReadSleep(p)
  PROVE  TypeOK' /\ Rest'
<1>0. /\ rd \in [Readers -> RecordsR] /\ rd[p] \in RecordsR
      /\ p # NoProc /\ p # Handler /\ NoProc # Handler
  BY ConsoleAssumption DEF TypeOK
<1>1. UNCHANGED <<cons, wr, txlock, killed, intr, uart, typed, line>>
  BY DEF Read, ReadAcquire, ReadWait, ReadSleep, Return
<1>2. Fits' /\ Kept'
  BY <1>1 DEF Rest, Fits, Room, Kept, Minus, Holds
<1>3. ASSUME NEW k \in {"idle", "loop", "sleep", "asleep", "woken"}
      PROVE  /\ [rd EXCEPT ![p].pc = k] \in [Readers -> RecordsR]
             /\ [rd EXCEPT ![p].pc = k][p].pc = k
             /\ [rd EXCEPT ![p].pc = k][p].n = rd[p].n
             /\ \A q \in Readers \ {p} : [rd EXCEPT ![p].pc = k][q] = rd[q]
  BY <1>0 DEF RecordsR
<1>4. ASSUME NEW n \in Counts, Read(p, n) PROVE TypeOK' /\ Rest'
  <2>1. n \in Nat /\ n >= 1
    BY ConsoleAssumption
  <2>2. /\ rd' \in [Readers -> RecordsR] /\ rd'[p].pc = "acquire"
        /\ rd'[p].n = n
        /\ \A q \in Readers \ {p} : rd'[q] = rd[q]
        /\ UNCHANGED <<lock, chan>>
    BY <1>0, <1>4, <2>1 DEF Read, RecordsR
  <2> QED
    BY <1>0, <1>1, <1>2, <2>1, <2>2 DEF TypeOK, Rest, Locked, Waits, Asks
<1>5. CASE ReadAcquire(p)
  <2>1. /\ rd' \in [Readers -> RecordsR] /\ rd'[p].pc = "loop"
        /\ rd'[p].n = rd[p].n /\ rd[p].pc # "idle"
        /\ \A q \in Readers \ {p} : rd'[q] = rd[q]
        /\ lock = NoProc /\ lock' = p /\ chan' = chan
    BY <1>3, <1>5 DEF ReadAcquire
  <2>2. \A q \in Readers : rd[q].pc # "loop"
    BY <2>1, ConsoleAssumption DEF Rest, Locked
  <2>3. Locked'
    BY <1>0, <1>1, <2>1, <2>2 DEF Rest, Locked
  <2> QED
    BY <1>0, <1>1, <1>2, <2>1, <2>3 DEF TypeOK, Rest, Waits, Asks
<1>6. CASE ReadWait(p)
  <2>1. /\ rd' \in [Readers -> RecordsR] /\ rd'[p].pc \in {"idle", "sleep"}
        /\ rd'[p].n = rd[p].n
        /\ \A q \in Readers \ {p} : rd'[q] = rd[q]
        /\ lock' = NoProc /\ chan' \in {chan, chan \cup {p}}
        /\ rd[p].pc = "loop" /\ cons.r = cons.w
    BY <1>3, <1>6 DEF ReadWait, Return
  <2>2. lock = p
    BY <2>1 DEF Rest, Locked
  <2>3. Locked'
    BY <1>0, <1>1, <2>1, <2>2 DEF Rest, Locked
  <2>4. Waits' /\ Asks'
    BY <1>1, <2>1 DEF Rest, Waits, Asks
  <2>5. TypeOK'
    BY <1>1, <2>1 DEF TypeOK
  <2> QED
    BY <1>2, <2>3, <2>4, <2>5 DEF Rest
<1>7. CASE ReadSleep(p)
  <2>1. /\ rd' \in [Readers -> RecordsR]
        /\ rd'[p].pc \in {"asleep", "woken"} /\ rd'[p].n = rd[p].n
        /\ \A q \in Readers \ {p} : rd'[q] = rd[q]
        /\ UNCHANGED <<lock, chan>> /\ rd[p].pc = "sleep"
    BY <1>3, <1>7 DEF ReadSleep
  <2> QED
    BY <1>0, <1>1, <1>2, <2>1 DEF TypeOK, Rest, Locked, Waits, Asks
<1> QED
  BY <1>4, <1>5, <1>6, <1>7

\* A reader that has cons.lock takes a character, or leaves an end of file.
LEMMA ReadCharOK ==
  ASSUME TypeOK, Rest, NEW p \in Readers, NEW fault, ReadChar(p, fault)
  PROVE  TypeOK' /\ Rest'
<1>0. /\ rd \in [Readers -> RecordsR] /\ rd[p] \in RecordsR
      /\ p # NoProc /\ p # Handler /\ NoProc # Handler
      /\ cons \in Buffers /\ line \in Seq(Symbols)
  BY ConsoleAssumption DEF TypeOK
<1>1. /\ UNCHANGED <<wr, txlock, chan, killed, intr, uart, typed>>
      /\ rd[p].pc = "loop" /\ cons.r # cons.w
  BY DEF ReadChar
<1>2. lock = p /\ intr.pc \notin Inside
  BY <1>0, <1>1 DEF Rest, Locked
<1>3. \/ cons' = cons /\ line' = line
      \/ cons' = [cons EXCEPT !.r = (@ + 1) % IndexMod] /\ line' = Tail(line)
  BY DEF ReadChar
<1>4. \/ lock' = NoProc /\ rd' = [rd EXCEPT ![p].pc = "idle"]
      \/ lock' = lock /\ rd' = [rd EXCEPT ![p].n = @ - 1] /\ rd[p].n # 1
  BY DEF ReadChar, Return
<1>5. cons' \in Buffers /\ line' \in Seq(Symbols) /\ Kept' /\ cons'.w = cons.w
  <2>1. CASE cons' = cons /\ line' = line
    BY <1>0, <2>1 DEF Rest, Kept, Holds, Minus
  <2>2. CASE /\ cons' = [cons EXCEPT !.r = (@ + 1) % IndexMod]
             /\ line' = Tail(line)
    <3>1. PICK j : j = (cons.r + 1) % IndexMod
      OBVIOUS
    <3>2. j \in Indices
      BY <1>0, <3>1, IndexAfter, ConsoleAssumption DEF Buffers, Indices
    <3>3. PICK d : d = cons'
      OBVIOUS
    <3>4. /\ d \in Buffers /\ d.buf = cons.buf /\ d.w = cons.w
          /\ d.e = cons.e /\ d.r = j
      BY <1>0, <2>2, <3>1, <3>2, <3>3 DEF Buffers
    <3>5. Holds(cons, line)
      BY DEF Rest, Kept
    <3>6. Holds(d, Tail(line)) /\ Tail(line) \in Seq(Symbols)
      BY <1>0, <1>1, <3>1, <3>4, <3>5, Taken
    <3> QED
      BY <2>2, <3>3, <3>4, <3>6 DEF Kept, Holds, Minus
  <2> QED
    BY <1>3, <2>1, <2>2
<1>6. /\ rd' \in [Readers -> RecordsR] /\ rd'[p].pc \in {"idle", "loop"}
      /\ rd'[p].pc = "idle" \/ rd'[p].n >= 1
      /\ \A q \in Readers \ {p} : rd'[q] = rd[q]
  <2>1. rd[p].n >= 1
    BY <1>1 DEF Rest, Asks
  <2>2. CASE rd' = [rd EXCEPT ![p].pc = "idle"]
    BY <1>0, <2>2 DEF RecordsR
  <2>3. CASE rd' = [rd EXCEPT ![p].n = @ - 1] /\ rd[p].n # 1
    <3>1. PICK n : n = rd[p].n - 1
      OBVIOUS
    <3>2. n \in Nat /\ n >= 1
      BY <1>0, <2>1, <2>3, <3>1 DEF RecordsR
    <3>3. rd' = [rd EXCEPT ![p].n = n]
      BY <2>3, <3>1
    <3> QED
      BY <1>0, <1>1, <3>2, <3>3 DEF RecordsR
  <2> QED
    BY <1>4, <2>2, <2>3
<1>7. lock' \in {p, NoProc} /\ (rd'[p].pc = "loop" => lock' = p)
  BY <1>0, <1>1, <1>2, <1>4 DEF RecordsR
<1>8. Locked'
  <2>1. \A q \in Readers \ {p} : rd'[q].pc # "loop"
    BY <1>2, <1>6 DEF Rest, Locked
  <2> QED
    BY <1>1, <1>2, <1>6, <1>7, <2>1 DEF Locked
<1>9. Fits'
  BY <1>1, <1>2 DEF Fits, Inside
<1>10. Waits' /\ Asks'
  BY <1>1, <1>6 DEF Rest, Waits, Asks
<1>11. TypeOK'
  BY <1>1, <1>5, <1>6, <1>7 DEF TypeOK
<1> QED
  BY <1>5, <1>8, <1>9, <1>10, <1>11 DEF Rest

\* The interrupt handler outside of consoleintr(), and while it echoes.
LEMMA IntrOK ==
  ASSUME TypeOK, Rest,
         IntrStart \/ IntrTx \/ IntrGetc \/ Echo \/ Spin \/ Put \/ Release
  PROVE  TypeOK' /\ Rest'
<1>0. /\ NoProc # Handler /\ Handler \notin Readers /\ NoProc \notin Readers
      /\ intr \in [pc : {"idle", "status", "getc"} \cup Inside,
                   c : Chars \cup {"nul"}]
      /\ uart \in [rx : Seq(Chars), tx : Seq(Writers \cup {Handler}),
                   irq : BOOLEAN]
      /\ wr \in [Writers -> RecordsW]
  BY ConsoleAssumption DEF TypeOK
<1>1. UNCHANGED <<cons, rd, txlock, killed, typed, line>>
  BY DEF IntrStart, IntrTx, IntrGetc, Echo, Spin, Put, Release, procs
<1>2. Kept' /\ (Room' <=> Room)
  BY <1>1 DEF Rest, Room, Kept, Minus, Holds
<1>3. Waits' /\ Asks'
  <2>1. chan' \subseteq chan
    BY DEF IntrStart, IntrTx, IntrGetc, Echo, Spin, Put, Release, procs
  <2> QED
    BY <1>1, <2>1 DEF Rest, Waits, Asks
<1>4. SUFFICES TypeOK' /\ Locked' /\ Fits'
  BY <1>2, <1>3 DEF Rest
<1>5. CASE IntrStart
  BY <1>0, <1>1, <1>5 DEF IntrStart, procs, TypeOK, Rest, Locked, Fits, Inside
<1>6. CASE IntrTx
  <2>1. /\ wr' \in [Writers -> RecordsW]
        /\ chan' \in SUBSET (Readers \cup Writers)
    BY <1>6, AwakeIs DEF IntrTx, TypeOK
  <2> QED
    BY <1>0, <1>1, <1>6, <2>1 DEF IntrTx, TypeOK, Rest, Locked, Fits, Inside
<1>7. CASE IntrGetc
  <2>1. CASE uart.rx = <<>>
    BY <1>0, <1>1, <1>7, <2>1 DEF IntrGetc, procs, TypeOK, Rest, Locked,
         Fits, Inside
  <2>2. CASE uart.rx # <<>>
    <3>1. PICK x, t : x = Head(uart.rx) /\ t = Tail(uart.rx)
      OBVIOUS
    <3>2. x \in Chars /\ t \in Seq(Chars)
      BY <1>0, <2>2, <3>1
    <3>3. /\ intr' = [pc |-> "char", c |-> x]
          /\ uart' = [uart EXCEPT !.rx = t]
          /\ lock = NoProc /\ lock' = Handler /\ UNCHANGED <<wr, chan>>
      BY <1>7, <2>2, <3>1 DEF IntrGetc, procs
    <3>4. TypeOK'
      BY <1>0, <1>1, <3>2, <3>3 DEF TypeOK, Inside
    <3>5. Locked' /\ Fits'
      BY <1>0, <1>1, <3>3 DEF Rest, Locked, Fits
    <3> QED
      BY <3>4, <3>5
  <2> QED
    BY <2>1, <2>2
<1>8. CASE Echo
  BY <1>0, <1>1, <1>2, <1>8 DEF Echo, Stores, procs, TypeOK, Rest, Locked,
       Fits, Inside
<1>9. CASE Spin
  BY <1>0, <1>1, <1>2, <1>9 DEF Spin, procs, TypeOK, Rest, Locked, Fits,
       Inside
<1>10. CASE Put
  <2>1. PICK t : t = Append(uart.tx, Handler)
    OBVIOUS
  <2>2. t \in Seq(Writers \cup {Handler})
    BY <1>0, <2>1
  <2>3. /\ uart' = [uart EXCEPT !.tx = t] /\ intr.pc = "put"
        /\ UNCHANGED <<lock, wr, chan>>
    BY <1>10, <2>1 DEF Put, procs
  <2>4. /\ intr' = [intr EXCEPT !.pc = intr'.pc]
        /\ \/ intr'.pc = "char"
           \/ intr'.pc = "release"
           \/ intr'.pc = "store" /\ intr.c \notin {"kill", "bs"}
    BY <1>0, <1>10 DEF Put
  <2>5. TypeOK'
    BY <1>0, <1>1, <2>2, <2>3, <2>4 DEF TypeOK, Inside
  <2>6. Locked' /\ Fits'
    BY <1>0, <1>1, <1>2, <2>3, <2>4 DEF Rest, Locked, Fits, Inside
  <2> QED
    BY <2>5, <2>6
<1>11. CASE Release
  <2>1. /\ lock' = NoProc /\ intr' = [pc |-> "getc", c |-> "nul"]
        /\ UNCHANGED <<uart, wr, chan>> /\ intr.pc \in Inside
    BY <1>11 DEF Release, procs, Inside
  <2>2. Locked' /\ Fits'
    BY <1>0, <1>1, <2>1 DEF Rest, Locked, Fits, Inside
  <2> QED
    BY <1>0, <1>1, <2>1, <2>2 DEF TypeOK
<1> QED
  BY <1>5, <1>6, <1>7, <1>8, <1>9, <1>10, <1>11

\* An erased character is the last one of the line.
LEMMA EraseOK ==
  ASSUME TypeOK, Rest, Erase
  PROVE  TypeOK' /\ Rest'
<1>0. /\ cons \in Buffers /\ line \in Seq(Symbols)
      /\ intr \in [pc : {"idle", "status", "getc"} \cup Inside,
                   c : Chars \cup {"nul"}]
  BY DEF TypeOK
<1>1. /\ UNCHANGED <<lock, rd, wr, txlock, chan, killed, uart, typed>>
      /\ intr.pc = "char" /\ intr' = [intr EXCEPT !.pc = "spin"]
      /\ intr.c \in {"kill", "bs"} /\ cons.e # cons.w
      /\ cons' = [cons EXCEPT !.e = Minus(cons.e, 1)] /\ line' = Front(line)
  BY DEF Erase, Erases, procs
<1>2. PICK j : j = Minus(cons.e, 1)
  OBVIOUS
<1>3. j \in Indices
  BY <1>0, <1>2, IndexBefore, ConsoleAssumption DEF Buffers, Indices
<1>4. PICK d : d = cons'
  OBVIOUS
<1>5. /\ d \in Buffers /\ d.buf = cons.buf /\ d.w = cons.w
      /\ d.r = cons.r /\ d.e = j
  BY <1>0, <1>1, <1>2, <1>3, <1>4 DEF Buffers
<1>6. Holds(cons, line)
  BY DEF Rest, Kept
<1>7. Holds(d, Front(line)) /\ Front(line) \in Seq(Symbols)
  BY <1>0, <1>1, <1>2, <1>5, <1>6, Erased
<1>8. Kept'
  BY <1>1, <1>4, <1>7 DEF Kept, Holds, Minus
<1>9. TypeOK'
  BY <1>0, <1>1, <1>4, <1>5, <1>7 DEF TypeOK, Inside
<1>10. Locked' /\ Fits'
  BY <1>0, <1>1 DEF Rest, Locked, Fits, Inside
<1>11. Waits' /\ Asks'
  BY <1>1, <1>4, <1>5 DEF Rest, Waits, Asks
<1> QED
  BY <1>8, <1>9, <1>10, <1>11 DEF Rest

\* A stored character goes behind the line, and a whole line wakes everybody
\* who waits for one.
LEMMA StoreOK ==
  ASSUME TypeOK, Rest, Store
  PROVE  TypeOK' /\ Rest'
<1>0. /\ cons \in Buffers /\ line \in Seq(Symbols)
      /\ intr \in [pc : {"idle", "status", "getc"} \cup Inside,
                   c : Chars \cup {"nul"}]
      /\ NoProc # Handler /\ Handler \notin Readers /\ NoProc \notin Readers
  BY ConsoleAssumption DEF TypeOK
<1>1. PICK x, j : /\ x = IF intr.c = "cr" THEN "nl" ELSE intr.c
                  /\ j = (cons.e + 1) % IndexMod
  OBVIOUS
<1>2. PICK whole : whole = (x \in {"nl", "eof"}
                            \/ Minus(j, cons.r) = INPUT_BUF_SIZE)
  OBVIOUS
<1>3. /\ UNCHANGED <<wr, txlock, killed, uart, typed>>
      /\ intr.pc = "store" /\ intr' = [pc |-> "getc", c |-> "nul"]
      /\ cons' = [cons EXCEPT !.buf[Slot(cons.e)] = x, !.e = j,
                              !.w = IF whole THEN j ELSE @]
      /\ line' = Append(line, x) /\ lock' = NoProc
      /\ IF whole THEN chan' = chan \ Readers /\ rd' = Awake(rd, chan)
                  ELSE UNCHANGED <<chan, rd>>
  BY <1>1, <1>2 DEF Store
<1>4. x \in Symbols
  BY <1>0, <1>1 DEF Symbols
<1>5. j \in Indices
  BY <1>0, <1>1, IndexAfter, ConsoleAssumption DEF Buffers, Indices
<1>6. PICK d : d = cons'
  OBVIOUS
<1>7. /\ d \in Buffers /\ d.buf = [cons.buf EXCEPT ![Slot(cons.e)] = x]
      /\ d.r = cons.r /\ d.e = j /\ d.w \in {cons.w, d.e}
      /\ ~whole => d.w = cons.w
  BY <1>0, <1>3, <1>4, <1>5, <1>6 DEF Buffers
<1>8. Holds(cons, line) /\ Minus(cons.e, cons.r) < INPUT_BUF_SIZE
  BY <1>3 DEF Rest, Kept, Fits, Room
<1>9. Holds(d, Append(line, x)) /\ Append(line, x) \in Seq(Symbols)
  BY <1>0, <1>1, <1>4, <1>7, <1>8, Stored
<1>10. Kept'
  BY <1>3, <1>6, <1>9 DEF Kept, Holds, Minus
<1>11. /\ rd' \in [Readers -> RecordsR]
       /\ \A q \in Readers : \/ rd'[q] = rd[q]
                             \/ /\ rd[q].pc = "asleep" /\ rd'[q].pc = "woken"
                                /\ rd'[q].n = rd[q].n
  <2>1. CASE rd' = rd
    BY <2>1 DEF TypeOK
  <2>2. CASE rd' = Awake(rd, chan)
    BY <2>2, AwakeIs
  <2> QED
    BY <1>3, <2>1, <2>2
<1>12. TypeOK'
  <2>1. chan' \in SUBSET (Readers \cup Writers)
    BY <1>3 DEF TypeOK
  <2> QED
    BY <1>0, <1>3, <1>6, <1>7, <1>9, <1>11, <2>1 DEF TypeOK
<1>13. Locked' /\ Fits' /\ Asks'
  BY <1>0, <1>3, <1>11 DEF Rest, Locked, Fits, Inside, Asks
<1>14. Waits'
  BY <1>3, <1>6, <1>7, <1>11 DEF Rest, Waits
<1> QED
  BY <1>10, <1>12, <1>13, <1>14 DEF Rest

\* The empty console.
LEMMA InitOK == Init => IInv
<1> SUFFICES ASSUME Init PROVE IInv
  OBVIOUS
<1>1. TypeOK
  <2>1. cons \in Buffers
    BY ConsoleAssumption DEF Init, Buffers, Symbols, Slots, Indices
  <2>2. /\ rd \in [Readers -> RecordsR] /\ wr \in [Writers -> RecordsW]
    BY DEF Init, RecordsR, RecordsW
  <2>3. PICK s : s = <<>>
    OBVIOUS
  <2>4. s \in Seq(Chars) /\ s \in Seq(Writers \cup {Handler})
        /\ s \in Seq(Symbols)
    BY <2>3
  <2>5. uart \in [rx : Seq(Chars), tx : Seq(Writers \cup {Handler}),
                  irq : BOOLEAN]
    BY <2>3, <2>4 DEF Init
  <2> QED
    BY <2>1, <2>2, <2>3, <2>4, <2>5 DEF Init, TypeOK
<1>2. Locked /\ Fits /\ Waits /\ Asks
  BY DEF Init, Locked, Fits, Waits, Asks, Inside
<1>3. Kept
  <2>1. cons.r = Start /\ cons.w = Start /\ cons.e = Start /\ line = <<>>
    BY DEF Init
  <2>2. Minus(Start, Start) = 0
    BY MinusZero, ConsoleAssumption DEF Indices
  <2> QED
    BY <2>1, <2>2, ConsoleAssumption DEF Kept, Holds
<1> QED
  BY <1>1, <1>2, <1>3 DEF IInv, Rest

\* Every step keeps the invariant.
LEMMA NextOK == IInv /\ [Next]_vars => IInv'
<1> SUFFICES ASSUME IInv, [Next]_vars PROVE IInv'
  OBVIOUS
<1>0. TypeOK /\ Rest
  BY DEF IInv
<1>1. ASSUME NEW p \in Readers,
             \/ ReadStep(p) \/ ReadChar(p, TRUE)
             \/ \E n \in Counts : Read(p, n)
      PROVE  TypeOK' /\ Rest'
  BY <1>0, <1>1, ReadWaitOK, ReadCharOK DEF ReadStep
<1>2. ASSUME NEW p \in Writers, WriteStep(p) PROVE TypeOK' /\ Rest'
  BY <1>0, <1>2, WriteType, WriteRest
<1>3. ASSUME NEW p \in Victims, Kill(p) PROVE TypeOK' /\ Rest'
  BY <1>0, <1>3, KillOK
<1>4. CASE (\E c \in Chars : Type(c)) \/ Send
  BY <1>0, <1>4, DeviceOK DEF IInv
<1>5. CASE IntrStep
  BY <1>0, <1>5, IntrOK, EraseOK, StoreOK DEF IntrStep, IInv
<1>6. CASE UNCHANGED vars
  <2>1. TypeOK'
    BY <1>0, <1>6 DEF vars, TypeOK
  <2>2. Rest'
    BY <1>0, <1>6, OutsideOK DEF vars
  <2> QED
    BY <2>1, <2>2 DEF IInv
<1> QED
  BY <1>1, <1>2, <1>3, <1>4, <1>5, <1>6 DEF Next, IInv

\* The invariant holds throughout.
LEMMA InvariantHolds == Spec => []IInv
  BY InitOK, NextOK, PTL DEF Spec

(* Type correctness of kernel/console.c and kernel/uart.c: the indices of  *)
(* the input buffer stay within a uint, the buffer holds characters, and   *)
(* the rest keeps its types, for any readers, writers and sizes.           *)
THEOREM TypeCorrect == Spec => []TypeOK
<1>1. IInv => TypeOK
  BY DEF IInv
<1> QED
  BY <1>1, InvariantHolds, PTL

(* consoleintr() and consoleread() keep the edited input in order and      *)
(* whole, across the wrap of the indices, and no reader sleeps while there *)
(* is a line for it.                                                       *)
THEOREM InputProved == Spec => []InputKept
<1>1. IInv => InputKept
  <2> SUFFICES ASSUME IInv PROVE InputKept
    OBVIOUS
  <2>1. /\ cons \in Buffers /\ line \in Seq(Symbols)
        /\ Holds(cons, line) /\ Waits
    BY DEF IInv, TypeOK, Rest, Kept
  <2>2. PICK n : n = Minus(cons.e, cons.r)
    OBVIOUS
  <2>3. /\ Len(line) = n /\ n <= INPUT_BUF_SIZE
        /\ Minus(cons.w, cons.r) <= n
    BY <2>1, <2>2 DEF Holds
  <2>4. line = [k \in 1 .. n |-> line[k]]
    BY <2>1, <2>3
  <2>5. \A k \in 1 .. n : line[k] = cons.buf[Slot(cons.r + k - 1)]
    <3> SUFFICES ASSUME NEW k \in 1 .. n
                 PROVE  line[k] = cons.buf[Slot(cons.r + k - 1)]
      OBVIOUS
    <3>1. cons.r \in Int /\ k \in Int
      BY <2>1, <2>3 DEF Buffers, Indices
    <3>2. cons.r + k - 1 = cons.r + (k - 1)
      BY <3>1
    <3>3. line[k] = cons.buf[Rem(cons.r + (k - 1), INPUT_BUF_SIZE)]
      BY <2>1, <2>3 DEF Holds
    <3> QED
      BY <3>2, <3>3, SlotType
  <2>6. line = [k \in 1 .. n |-> cons.buf[Slot(cons.r + k - 1)]]
    BY <2>4, <2>5
  <2> QED
    BY <2>1, <2>2, <2>3, <2>6 DEF InputKept, Waits
<1> QED
  BY <1>1, InvariantHolds, PTL

=============================================================================
