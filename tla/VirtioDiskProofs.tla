-------------------------- MODULE VirtioDiskProofs --------------------------
(***************************************************************************)
(* The safety properties of VirtioDisk for any number of processes, any    *)
(* size of the rings and any modulus of their indices that the size        *)
(* divides, whatever the order in which the device completes requests.     *)
(*                                                                         *)
(* A ring is first treated on its own: what is written is neither lost nor *)
(* overwritten as long as no descriptor is in the ring twice, because then *)
(* the ring cannot be full when a further one is offered.                  *)
(***************************************************************************)
EXTENDS VirtioDisk, ModLemmas, FiniteSetTheorems

\* The k-th entry from index i on, and the entries between two indices.
Entry(r, i, k) == r[(i + k) % NUM]
Ring(r, i, j) == {Entry(r, i, k) : k \in 0 .. Distance(i, j) - 1}

\* No descriptor is in the ring twice.
Distinct(r, i, j) ==
  \A k, l \in 0 .. Distance(i, j) - 1 :
    Entry(r, i, k) = Entry(r, i, l) => k = l

OnlyOnce ==
  /\ Distinct(avail, seen, avail_idx)
  /\ Distinct(used, used_idx, used_ring_idx)

\* A request is offered, with the device, or completed: one of the three.
OnePlace ==
  /\ Offered \cap busy = {}
  /\ Completed \cap Offered = {}
  /\ Completed \cap busy = {}

\* disk.info[], b->disk and the rings agree on what is in flight.
InFlight ==
  /\ \A d \in Pending \cup Completed :
       d \in Descs /\ b[d] \in Procs /\ b[d] \in disk /\ head[b[d]] = d
  /\ \A p \in disk : head[p] \in Pending \cup Completed
  /\ \A p \in Procs : head[p] # None => b[head[p]] = p
  /\ \A d \in Completed : status[d] = 0
  /\ \A p \in Procs : head[p] # None /\ p \notin disk => status[head[p]] = 0

\* A process has a request while it waits for its buffer, and none panics.
HeadPc ==
  \A p \in Procs :
    /\ head[p] # None <=> pc[p] \in {"wait", "waitsleep"}
    /\ pc[p] # "panic"

\* A request has three descriptors, which are not free and of no other.
Chains ==
  /\ \A p \in Procs : head[p] # None =>
       LET d0 == head[p]
           d1 == next[d0]
           d2 == next[d1]
       IN  /\ d1 \in Descs /\ d2 \in Descs
           /\ d0 # d1 /\ d0 # d2 /\ d1 # d2
           /\ d0 \notin free /\ d1 \notin free /\ d2 \notin free
  /\ \A p, q \in Procs :
       p # q /\ head[p] # None /\ head[q] # None
         => Chain(head[p]) \cap Chain(head[q]) = {}
  /\ \A d \in Descs : d \notin free =>
       \E p \in Procs : head[p] # None /\ d \in Chain(head[p])

\* What a process sleeps on follows from where it is.
ChanPc ==
  \A p \in Procs :
    /\ pc[p] \in {"wait", "waitsleep"} => chan[p] # "free"
    /\ pc[p] = "allocsleep" => chan[p] # "b"
    /\ state[p] = "SLEEPING" => \/ pc[p] = "alloc" /\ chan[p] = "free"
                                \/ pc[p] = "wait" /\ chan[p] = "b"

\* An entry of the used ring has an interrupt on its way or being served.
Signalled == used_idx # used_ring_idx => intr \/ irq \/ raise

\* Whoever sleeps for a buffer or for descriptors, or is about to, has to.
Waiting ==
  \A p \in Procs :
    pc[p] \in {"allocsleep", "waitsleep"} \/ state[p] = "SLEEPING" =>
      /\ chan[p] = "b" => p \in disk
      /\ chan[p] = "free" => Cardinality(free) < 3

IInv == /\ TypeOK /\ OnlyOnce /\ OnePlace /\ InFlight /\ HeadPc /\ Chains
        /\ ChanPc /\ Signalled /\ Waiting
-----------------------------------------------------------------------------
(* Ring indices.                                                           *)

\* How far an index is ahead of another, which may have wrapped around.
LEMMA DistanceIs ==
  ASSUME NEW i \in Indices, NEW j \in Indices
  PROVE  Distance(i, j) = IF i <= j THEN j - i ELSE j - i + IdxMod
<1>1. CASE i <= j
  BY <1>1, VirtioAssumption, RemSmall DEF Distance, Indices
<1>2. CASE i > j
  BY <1>2, VirtioAssumption, RemNeg DEF Distance, Indices
<1> QED
  BY <1>1, <1>2 DEF Indices

\* The index after another.
LEMMA IndexAfter ==
  ASSUME NEW i \in Indices
  PROVE  (i + 1) % IdxMod = IF i = IdxMod - 1 THEN 0 ELSE i + 1
  BY VirtioAssumption, RemSmall, RemOver DEF Indices

\* An entry, with the remainder out of the provers' sight.
LEMMA EntryRem ==
  ASSUME NEW r, NEW i, NEW k
  PROVE  Entry(r, i, k) = r[Rem(i + k, NUM)]
  BY DEF Entry, Rem

\* Every index has a place in the ring.
LEMMA SlotType == \A x \in Nat : Rem(x, NUM) \in Descs
  BY VirtioAssumption, RemExists DEF Descs

\* The size of the ring divides the modulus of its indices.
LEMMA SlotPeriod == \A x \in Nat : Rem(x + IdxMod, NUM) = Rem(x, NUM)
<1>1. NUM \in Nat \ {0} /\ IdxMod \in Nat /\ Rem(IdxMod, NUM) = 0
  BY VirtioAssumption DEF Rem
<1> QED
  BY <1>1, RemPeriod

\* Entries are found from the next index one place earlier.
LEMMA SlotAfter ==
  ASSUME NEW i \in Indices, NEW k \in Nat
  PROVE  Rem(((i + 1) % IdxMod) + k, NUM) = Rem(i + (k + 1), NUM)
<1>1. CASE i = IdxMod - 1
  <2>1. ((i + 1) % IdxMod) + k = k
    BY <1>1, IndexAfter
  <2>2. i + (k + 1) = k + IdxMod
    BY <1>1, VirtioAssumption
  <2> QED
    BY <2>1, <2>2, SlotPeriod
<1>2. CASE i # IdxMod - 1
  <2>1. (i + 1) % IdxMod = i + 1 /\ i \in Nat
    BY <1>2, IndexAfter, VirtioAssumption DEF Indices
  <2>2. (i + 1) + k = i + (k + 1)
    BY <2>1
  <2> QED
    BY <2>1, <2>2
<1> QED
  BY <1>1, <1>2

\* The place that index j names is the one behind the last entry.
LEMMA SlotLast ==
  ASSUME NEW i \in Indices, NEW j \in Indices
  PROVE  Rem(i + Distance(i, j), NUM) = Rem(j, NUM)
<1>1. CASE i <= j
  <2>1. i + Distance(i, j) = j
    BY <1>1, DistanceIs, VirtioAssumption DEF Indices
  <2> QED
    BY <2>1
<1>2. CASE ~(i <= j)
  <2>1. i + Distance(i, j) = j + IdxMod /\ j \in Nat
    BY <1>2, DistanceIs, VirtioAssumption DEF Indices
  <2> QED
    BY <2>1, SlotPeriod
<1> QED
  BY <1>1, <1>2

\* Fewer than NUM successive indices have different places.
LEMMA SlotsDiffer ==
  ASSUME NEW i \in Nat, NEW k \in Nat, NEW l \in Nat, k < l, l - k < NUM
  PROVE  Rem(i + k, NUM) # Rem(i + l, NUM)
<1>1. NUM \in Nat \ {0} /\ i + k \in Nat /\ l - k \in 1 .. NUM - 1
  BY VirtioAssumption
<1>2. Rem((i + k) + (l - k), NUM) # Rem(i + k, NUM)
  BY <1>1, RemDistinct
<1>3. (i + k) + (l - k) = i + l
  OBVIOUS
<1> QED
  BY <1>2, <1>3
-----------------------------------------------------------------------------
(* Rings.                                                                  *)

\* A ring without repetition that misses a descriptor is not full.
LEMMA NotFull ==
  ASSUME NEW r \in [Descs -> Descs], NEW i \in Indices, NEW j \in Indices,
         Distinct(r, i, j), NEW d \in Descs, d \notin Ring(r, i, j)
  PROVE  Distance(i, j) < NUM
<1> DEFINE D == Distance(i, j)
<1>1. D \in Nat
  BY DistanceIs, VirtioAssumption DEF Indices
<1> SUFFICES ASSUME D >= NUM PROVE FALSE
  BY <1>1, VirtioAssumption
<1> HIDE DEF D
<1> DEFINE T == Descs \ {d}
           f == [k \in Descs |-> Entry(r, i, k)]
<1>2. IsFiniteSet(Descs) /\ Cardinality(Descs) = NUM
  BY FS_Interval, VirtioAssumption DEF Descs
<1>3. IsFiniteSet(T) /\ Cardinality(T) = NUM - 1
  BY <1>2, FS_RemoveElement
<1>4. \A k \in Descs : k \in 0 .. D - 1
  BY <1>1, VirtioAssumption DEF Descs
<1>5. \A k \in Descs : Entry(r, i, k) \in T
  <2> SUFFICES ASSUME NEW k \in Descs PROVE Entry(r, i, k) \in T
    OBVIOUS
  <2>1. Entry(r, i, k) \in Ring(r, i, j)
    BY <1>4 DEF Ring, D
  <2>2. i + k \in Nat
    BY VirtioAssumption DEF Indices, Descs
  <2>3. Entry(r, i, k) \in Descs
    BY <2>2, EntryRem, SlotType
  <2> QED
    BY <2>1, <2>3
<1>6. f \in [Descs -> T]
  BY <1>5
<1>7. Cardinality(T) < Cardinality(Descs)
  BY <1>2, <1>3, VirtioAssumption
<1> HIDE DEF T, f
<1>8. PICK k \in Descs, l \in Descs : k # l /\ f[k] = f[l]
  BY <1>2, <1>3, <1>6, <1>7, FS_PigeonHole
<1>9. Entry(r, i, k) = Entry(r, i, l)
  BY <1>8 DEF f
<1> QED
  BY <1>4, <1>8, <1>9 DEF Distinct, D

\* What a step that adds entry d does to a ring that is not full.
Pushes(r, i, j, d) ==
  LET s == [r EXCEPT ![j % NUM] = d]
      m == (j + 1) % IdxMod
  IN  /\ s \in [Descs -> Descs] /\ m \in Indices
      /\ Ring(s, i, m) = Ring(r, i, j) \cup {d}
      /\ Distinct(s, i, m)
      /\ m # i

LEMMA Push ==
  ASSUME NEW r \in [Descs -> Descs], NEW i \in Indices, NEW j \in Indices,
         Distinct(r, i, j), NEW d \in Descs, d \notin Ring(r, i, j)
  PROVE  Pushes(r, i, j, d)
<1> DEFINE s == [r EXCEPT ![j % NUM] = d]
           m == (j + 1) % IdxMod
           D == Distance(i, j)
<1>1. D \in Nat /\ D < NUM /\ i \in Nat /\ j \in Nat
  BY DistanceIs, NotFull, VirtioAssumption DEF Indices
<1>2. m \in Indices /\ Distance(i, m) = D + 1
  <2>1. m = IF j = IdxMod - 1 THEN 0 ELSE j + 1
    BY IndexAfter
  <2> HIDE DEF m
  <2>2. m \in Indices
    BY <2>1, VirtioAssumption DEF Indices
  <2>3. Distance(i, m) = IF i <= m THEN m - i ELSE m - i + IdxMod
    BY <2>2, DistanceIs
  <2>4. D = IF i <= j THEN j - i ELSE j - i + IdxMod
    BY DistanceIs
  <2> HIDE DEF D
  <2> QED
    BY <1>1, <2>1, <2>2, <2>3, <2>4, VirtioAssumption DEF Indices
<1> HIDE DEF m
<1>3. m # i
  BY <1>1, <1>2, DistanceIs, VirtioAssumption DEF Indices
<1> HIDE DEF D
<1>4. s = [r EXCEPT ![Rem(j, NUM)] = d] /\ Rem(j, NUM) \in Descs
  BY <1>1, SlotType DEF Rem
<1> HIDE DEF s
<1>5. s \in [Descs -> Descs]
  BY <1>4
<1>6. Entry(s, i, D) = d
  BY <1>4, EntryRem, SlotLast DEF D
<1>7. \A k \in 0 .. D - 1 : Entry(s, i, k) = Entry(r, i, k)
  <2> SUFFICES ASSUME NEW k \in 0 .. D - 1
               PROVE  Entry(s, i, k) = Entry(r, i, k)
    OBVIOUS
  <2>1. Rem(i + k, NUM) # Rem(j, NUM)
    <3>1. Rem(i + k, NUM) # Rem(i + D, NUM)
      <4>1. k \in Nat /\ k < D /\ D - k < NUM
        BY <1>1, VirtioAssumption
      <4> QED
        BY <1>1, <4>1, SlotsDiffer
    <3> QED
      BY <3>1, SlotLast DEF D
  <2>2. Rem(i + k, NUM) \in Descs
    BY <1>1, SlotType
  <2> QED
    BY <1>4, <2>1, <2>2, EntryRem
<1>8. Ring(s, i, m) = {Entry(s, i, k) : k \in 0 .. D}
  <2>1. (D + 1) - 1 = D
    BY <1>1
  <2> QED
    BY <1>2, <2>1 DEF Ring
<1>9. Ring(r, i, j) = {Entry(r, i, k) : k \in 0 .. D - 1}
  BY DEF Ring, D
<1>10. Ring(s, i, m) = Ring(r, i, j) \cup {d}
  <2>1. ASSUME NEW x \in Ring(s, i, m) PROVE x \in Ring(r, i, j) \cup {d}
    <3>1. PICK k \in 0 .. D : x = Entry(s, i, k)
      BY <1>8
    <3>2. k = D \/ k \in 0 .. D - 1
      BY <1>1
    <3> QED
      BY <1>6, <1>7, <1>9, <3>1, <3>2
  <2>2. ASSUME NEW x \in Ring(r, i, j) \cup {d} PROVE x \in Ring(s, i, m)
    <3>1. D \in 0 .. D /\ \A k \in 0 .. D - 1 : k \in 0 .. D
      BY <1>1
    <3> QED
      BY <1>6, <1>7, <1>8, <1>9, <3>1
  <2> QED
    BY <2>1, <2>2
<1>11. Distinct(s, i, m)
  <2> SUFFICES ASSUME NEW k \in 0 .. D, NEW l \in 0 .. D,
                      Entry(s, i, k) = Entry(s, i, l)
               PROVE  k = l
    BY <1>1, <1>2 DEF Distinct
  <2>1. (k = D \/ k \in 0 .. D - 1) /\ (l = D \/ l \in 0 .. D - 1)
    BY <1>1
  <2>2. \A n \in 0 .. D - 1 : Entry(r, i, n) # d
    BY <1>9
  <2> QED
    BY <1>6, <1>7, <2>1, <2>2 DEF Distinct, D
<1> QED
  BY <1>2, <1>3, <1>5, <1>10, <1>11 DEF s, m, Pushes

\* What a step that removes the first entry does to a ring.
LEMMA Pop ==
  ASSUME NEW r \in [Descs -> Descs], NEW i \in Indices, NEW j \in Indices,
         Distinct(r, i, j), i # j, NEW m, m = (i + 1) % IdxMod
  PROVE  /\ m \in Indices
         /\ r[i % NUM] \in Descs
         /\ Ring(r, m, j) = Ring(r, i, j) \ {r[i % NUM]}
         /\ r[i % NUM] \in Ring(r, i, j)
         /\ Distinct(r, m, j)
<1> DEFINE D == Distance(i, j)
<1>1. D \in Nat /\ D > 0 /\ i \in Nat
  BY DistanceIs, VirtioAssumption DEF Indices
<1>2. m \in Indices /\ Distance(m, j) = D - 1
  <2>1. m = IF i = IdxMod - 1 THEN 0 ELSE i + 1
    BY IndexAfter
  <2>2. m \in Indices
    BY <2>1, VirtioAssumption DEF Indices
  <2>3. Distance(m, j) = IF m <= j THEN j - m ELSE j - m + IdxMod
    BY <2>2, DistanceIs
  <2>4. D = IF i <= j THEN j - i ELSE j - i + IdxMod
    BY DistanceIs
  <2> HIDE DEF D
  <2> QED
    BY <1>1, <2>1, <2>2, <2>3, <2>4, VirtioAssumption DEF Indices
<1> HIDE DEF D
<1>3. r[i % NUM] = Entry(r, i, 0) /\ r[i % NUM] \in Descs
  <2>1. i + 0 = i
    BY <1>1
  <2>2. r[i % NUM] = r[Rem(i, NUM)]
    BY DEF Rem
  <2> QED
    BY <1>1, <2>1, <2>2, EntryRem, SlotType
<1>4. \A k \in 0 .. D - 2 : Entry(r, m, k) = Entry(r, i, k + 1)
  BY <1>1, EntryRem, SlotAfter
<1>5. Ring(r, i, j) = {Entry(r, i, k) : k \in 0 .. D - 1}
  BY DEF Ring, D
<1>6. Ring(r, m, j) = {Entry(r, m, k) : k \in 0 .. D - 2}
  <2>1. (D - 1) - 1 = D - 2
    BY <1>1
  <2> QED
    BY <1>2, <2>1 DEF Ring
<1>7. \A k, l \in 0 .. D - 1 : Entry(r, i, k) = Entry(r, i, l) => k = l
  BY DEF Distinct, D
<1>8. /\ 0 \in 0 .. D - 1
      /\ \A k \in 0 .. D - 2 : k + 1 \in 0 .. D - 1 /\ k + 1 # 0
  BY <1>1
<1>9. Ring(r, m, j) = Ring(r, i, j) \ {r[i % NUM]}
  <2>1. ASSUME NEW x \in Ring(r, m, j)
        PROVE  x \in Ring(r, i, j) /\ x # r[i % NUM]
    <3>1. PICK k \in 0 .. D - 2 : x = Entry(r, m, k)
      BY <1>6
    <3> QED
      BY <1>3, <1>4, <1>5, <1>7, <1>8, <3>1
  <2>2. ASSUME NEW x \in Ring(r, i, j), x # r[i % NUM]
        PROVE  x \in Ring(r, m, j)
    <3>1. PICK k \in 0 .. D - 1 : x = Entry(r, i, k)
      BY <1>5
    <3>2. k # 0
      BY <1>3, <2>2, <3>1
    <3>3. k - 1 \in 0 .. D - 2 /\ (k - 1) + 1 = k
      BY <1>1, <3>2
    <3> QED
      BY <1>4, <1>6, <3>1, <3>3
  <2> QED
    BY <2>1, <2>2
<1>10. r[i % NUM] \in Ring(r, i, j)
  BY <1>3, <1>5, <1>8
<1>11. Distinct(r, m, j)
  <2> SUFFICES ASSUME NEW k \in 0 .. D - 2, NEW l \in 0 .. D - 2,
                      Entry(r, m, k) = Entry(r, m, l)
               PROVE  k = l
    <3>1. (D - 1) - 1 = D - 2
      BY <1>1
    <3> QED
      BY <1>2, <3>1 DEF Distinct
  <2>1. k + 1 = l + 1
    BY <1>4, <1>7, <1>8
  <2> QED
    BY <2>1
<1> QED
  BY <1>2, <1>3, <1>9, <1>10, <1>11

\* A ring whose indices agree is empty.
LEMMA RingEmpty ==
  ASSUME NEW r, NEW i \in Indices
  PROVE  Ring(r, i, i) = {} /\ Distinct(r, i, i)
  BY DistanceIs DEF Ring, Distinct, Indices

\* The sets of requests of the specification are rings.
LEMMA Rings ==
  /\ Offered = Ring(avail, seen, avail_idx)
  /\ Completed = Ring(used, used_idx, used_ring_idx)
  BY DEF Offered, Completed, Ring, Entry

\* A step that leaves the rings alone leaves the sets of requests alone.
LEMMA RingsSame ==
  ASSUME UNCHANGED <<ring, seen>>
  PROVE  /\ Offered' = Offered /\ Completed' = Completed
         /\ OnlyOnce => OnlyOnce'
  BY DEF ring, Offered, Completed, OnlyOnce
-----------------------------------------------------------------------------
(* Descriptors.                                                            *)

\* A null pointer is no descriptor.
LEMMA NoneNoDesc == None \notin Descs
  BY VirtioAssumption DEF Descs

\* Sets of descriptors are finite.
LEMMA DescsFinite == \A S : S \subseteq Descs => IsFiniteSet(S)
<1>1. IsFiniteSet(Descs)
  BY FS_Interval, VirtioAssumption DEF Descs
<1> QED
  BY <1>1, FS_Subset

\* alloc_desc() finds a free descriptor if there is one.
LEMMA MinIn ==
  ASSUME NEW S, S \subseteq Descs, S # {}
  PROVE  Min(S) \in S
<1>1. S \subseteq Nat
  BY VirtioAssumption DEF Descs
<1>2. PICK x \in S : \A y \in S : ~(<<y, x>> \in OpToRel(<, Nat))
  BY <1>1, WFMin, NatLessThanWellFounded
<1>3. \A y \in S : x =< y
  <2>1. OpToRel(<, Nat) = {ss \in Nat \X Nat : ss[1] < ss[2]}
    BY DEF OpToRel
  <2>2. \A y \in S : <<y, x>> \in Nat \X Nat
    BY <1>1
  <2>3. \A y \in S : ~(y < x)
    BY <1>2, <2>1, <2>2
  <2> QED
    BY <1>1, <2>3
<1> QED
  BY <1>3 DEF Min

\* alloc3_desc() finds three of them.
LEMMA ThreeFree ==
  ASSUME NEW S, S \subseteq Descs, Cardinality(S) >= 3
  PROVE  LET d0 == Min(S)
             d1 == Min(S \ {d0})
             d2 == Min(S \ {d0, d1})
         IN  /\ d0 \in S /\ d1 \in S /\ d2 \in S
             /\ d0 # d1 /\ d0 # d2 /\ d1 # d2
<1> DEFINE d0 == Min(S)
           d1 == Min(S \ {d0})
           d2 == Min(S \ {d0, d1})
<1>1. IsFiniteSet(S) /\ Cardinality(S) \in Nat
  BY DescsFinite, FS_CardinalityType
<1>2. d0 \in S
  BY <1>1, FS_EmptySet, MinIn
<1> HIDE DEF d0
<1>3. IsFiniteSet(S \ {d0}) /\ Cardinality(S \ {d0}) = Cardinality(S) - 1
  BY <1>1, <1>2, FS_RemoveElement
<1>4. d1 \in S \ {d0}
  BY <1>1, <1>3, FS_EmptySet, MinIn
<1> HIDE DEF d1
<1>5. IsFiniteSet((S \ {d0}) \ {d1})
      /\ Cardinality((S \ {d0}) \ {d1}) = Cardinality(S \ {d0}) - 1
  BY <1>3, <1>4, FS_RemoveElement
<1>6. (S \ {d0}) \ {d1} = S \ {d0, d1}
  OBVIOUS
<1>7. d2 \in S \ {d0, d1}
  BY <1>1, <1>3, <1>5, <1>6, FS_EmptySet, MinIn
<1> QED
  BY <1>2, <1>4, <1>7 DEF d0, d1
-----------------------------------------------------------------------------
\* virtio_disk_init() establishes the invariant.
LEMMA InitIInv == Init => IInv
<1> SUFFICES ASSUME Init PROVE IInv
  OBVIOUS
<1> USE VirtioAssumption DEF Init
<1>1. 0 \in Descs /\ 0 \in Indices
  BY DEF Descs, Indices
<1>2. Offered = {} /\ Completed = {} /\ OnlyOnce
  BY <1>1, Rings, RingEmpty DEF OnlyOnce
<1>3. TypeOK
  BY <1>1 DEF TypeOK
<1>4. OnePlace /\ InFlight /\ HeadPc
  BY <1>2 DEF OnePlace, InFlight, HeadPc, Pending
<1>5. Chains
  BY DEF Chains
<1>6. ChanPc /\ Signalled /\ Waiting
  BY DEF ChanPc, Signalled, Waiting
<1> QED
  BY <1>2, <1>3, <1>4, <1>5, <1>6 DEF IInv

\* Every step of the processes, of the handler and of the device preserves it.
LEMMA NextIInv == IInv /\ [Next]_vars => IInv'
<1> SUFFICES ASSUME IInv, [Next]_vars PROVE IInv'
  OBVIOUS
<1> USE VirtioAssumption, NoneNoDesc DEF IInv, ring, device, sched
<1>1. ASSUME NEW p \in Procs, Call(p) PROVE IInv'
  <2> USE <1>1 DEF Call
  <2>1. Offered' = Offered /\ Completed' = Completed /\ OnlyOnce'
    BY RingsSame
  <2>2. OnePlace' /\ InFlight' /\ Chains'
    BY <2>1 DEF OnePlace, InFlight, Pending, Chains, Chain
  <2>3. TypeOK' /\ HeadPc' /\ ChanPc' /\ Signalled' /\ Waiting'
    BY DEF TypeOK, HeadPc, ChanPc, Signalled, Waiting
  <2> QED
    BY <2>1, <2>2, <2>3
<1>2. ASSUME NEW p \in Procs, AllocFails(p) PROVE IInv'
  <2> USE <1>2 DEF AllocFails, OnFree
  <2>1. Offered' = Offered /\ Completed' = Completed /\ OnlyOnce'
    BY RingsSame
  <2>2. TypeOK'
    BY DEF TypeOK
  <2>3. OnePlace'
    BY <2>1 DEF OnePlace
  <2>4. InFlight'
    BY <2>1 DEF InFlight, TypeOK, Pending, HeadPc
  <2>5. HeadPc'
    BY DEF HeadPc, TypeOK
  <2>6. Chains'
    <3>1. \A q \in Procs : head[q] # None =>
            /\ next'[head[q]] = next[head[q]]
            /\ next'[next[head[q]]] = next[next[head[q]]]
      BY DEF Chains, TypeOK
    <3>2. \A q \in Procs : head[q] # None =>
            Chain(head[q])' = Chain(head[q])
      BY <3>1 DEF Chain
    <3>3. \A q, r \in Procs : q # r /\ head[q] # None /\ head[r] # None
            => Chain(head[q])' \cap Chain(head[r])' = {}
      <4>1. \A q, r \in Procs : q # r /\ head[q] # None /\ head[r] # None
              => Chain(head[q]) \cap Chain(head[r]) = {}
        BY DEF Chains
      <4> QED
        BY <3>2, <4>1
    <3>4. \A d \in Descs : d \notin free' =>
            \E q \in Procs : head'[q] # None /\ d \in Chain(head[q])'
      BY <3>2 DEF Chains
    <3>5. \A q \in Procs : head'[q] # None =>
            LET d0 == head'[q]
                d1 == next'[d0]
                d2 == next'[d1]
            IN  /\ d1 \in Descs /\ d2 \in Descs
                /\ d0 # d1 /\ d0 # d2 /\ d1 # d2
                /\ d0 \notin free' /\ d1 \notin free' /\ d2 \notin free'
      BY <3>1 DEF Chains
    <3>6. head' = head
      OBVIOUS
    <3> HIDE <1>2
    <3> QED
      BY <3>3, <3>4, <3>5, <3>6 DEF Chains
  <2>7. ChanPc'
    BY DEF ChanPc, TypeOK, HeadPc
  <2>8. Signalled'
    BY DEF Signalled
  <2>9. Waiting'
    BY DEF Waiting, TypeOK, ChanPc
  <2> QED
    BY <2>1, <2>2, <2>3, <2>4, <2>5, <2>6, <2>7, <2>8, <2>9
<1>3. ASSUME NEW p \in Procs, Sleep(p) PROVE IInv'
  <2> USE <1>3 DEF Sleep
  <2>1. Offered' = Offered /\ Completed' = Completed /\ OnlyOnce'
    BY RingsSame
  <2>2. OnePlace' /\ InFlight' /\ Chains'
    BY <2>1 DEF OnePlace, InFlight, Pending, Chains, Chain
  <2>3. TypeOK' /\ HeadPc' /\ ChanPc' /\ Signalled' /\ Waiting'
    BY DEF TypeOK, HeadPc, ChanPc, Signalled, Waiting
  <2> QED
    BY <2>1, <2>2, <2>3
<1>4. ASSUME NEW p \in Procs, WaitMore(p) PROVE IInv'
  <2> USE <1>4 DEF WaitMore
  <2>1. Offered' = Offered /\ Completed' = Completed /\ OnlyOnce'
    BY RingsSame
  <2>2. OnePlace' /\ InFlight' /\ Chains'
    BY <2>1 DEF OnePlace, InFlight, Pending, Chains, Chain
  <2>3. TypeOK' /\ HeadPc' /\ ChanPc' /\ Signalled' /\ Waiting'
    BY DEF TypeOK, HeadPc, ChanPc, Signalled, Waiting
  <2> QED
    BY <2>1, <2>2, <2>3
\* free_chain() finds the three descriptors of the request in use.
<1>5. ASSUME NEW p \in Procs, Finish(p) PROVE IInv'
  <2> DEFINE C == Chain(head[p])
  <2>1. Offered' = Offered /\ Completed' = Completed /\ OnlyOnce'
    BY <1>5, RingsSame DEF Finish
  <2>2. /\ pc[p] = "wait" /\ state[p] = "RUNNABLE" /\ p \notin disk
        /\ head[p] \in Descs
    BY <1>5 DEF Finish, HeadPc, TypeOK
  <2>3. C \subseteq Descs \ free
    BY <2>2 DEF Chains, Chain, TypeOK
  <2>4. /\ pc' = [pc EXCEPT ![p] = "idle"]
        /\ free' = free \cup C
        /\ next' = [d \in Descs |-> IF d \in C THEN None ELSE next[d]]
        /\ b' = [b EXCEPT ![head[p]] = None]
        /\ head' = [head EXCEPT ![p] = None]
        /\ Wakeup(OnFree)
        /\ UNCHANGED <<status, disk, ring, intr, device>>
    BY <1>5, <2>3 DEF Finish
  <2>5. \A d \in Pending \cup Completed : d # head[p]
    BY <2>2 DEF InFlight
  <2>6. \A q \in Procs \ {p} : head[q] # None =>
          Chain(head[q]) \cap C = {} /\ head[q] \in Descs \ C
    <3>1. \A q \in Procs \ {p} : head[q] # None => Chain(head[q]) \cap C = {}
      BY <2>2 DEF Chains
    <3>2. \A q \in Procs : head[q] # None =>
            head[q] \in Chain(head[q]) /\ head[q] \in Descs
      BY DEF Chain, TypeOK
    <3> HIDE DEF C
    <3> QED
      BY <3>1, <3>2
  <2> HIDE DEF C
  <2>7. TypeOK'
    BY <2>2, <2>3, <2>4 DEF TypeOK, Wakeup
  <2>8. OnePlace'
    BY <2>1, <2>4 DEF OnePlace
  <2>9. InFlight'
    BY <2>1, <2>2, <2>4, <2>5 DEF InFlight, Pending, TypeOK
  <2>10. HeadPc'
    BY <2>2, <2>4 DEF HeadPc, TypeOK
  <2>11. Chains'
    <3>1. \A q \in Procs : head'[q] # None =>
            /\ q # p /\ head'[q] = head[q]
            /\ next[head[q]] \in Descs /\ next[next[head[q]]] \in Descs
            /\ next'[head[q]] = next[head[q]]
            /\ next'[next[head[q]]] = next[next[head[q]]]
            /\ Chain(head[q])' = Chain(head[q])
      BY <2>2, <2>4, <2>6 DEF Chains, Chain, TypeOK
    <3>2. \A q \in Procs : head'[q] # None =>
            Chain(head[q]) \cap free' = {}
      BY <2>4, <2>6, <3>1 DEF Chains, Chain
    <3>3. \A d \in Descs : d \notin free' =>
            \E q \in Procs : head'[q] # None /\ d \in Chain(head[q])'
      <4> SUFFICES ASSUME NEW d \in Descs, d \notin free'
                   PROVE  \E q \in Procs :
                            head'[q] # None /\ d \in Chain(head[q])'
        OBVIOUS
      <4>1. d \notin free /\ d \notin C
        BY <2>4
      <4>2. PICK q \in Procs : head[q] # None /\ d \in Chain(head[q])
        BY <4>1 DEF Chains
      <4>3. q # p
        BY <4>1, <4>2 DEF C
      <4>4. head'[q] = head[q]
        BY <2>4, <4>3 DEF TypeOK
      <4> QED
        BY <3>1, <4>2, <4>4
    <3>4. \A q, r \in Procs :
            q # r /\ head'[q] # None /\ head'[r] # None
              => Chain(head[q])' \cap Chain(head[r])' = {}
      <4>1. \A q, r \in Procs : q # r /\ head[q] # None /\ head[r] # None
              => Chain(head[q]) \cap Chain(head[r]) = {}
        BY DEF Chains
      <4>2. \A q \in Procs : head'[q] # None =>
              head[q] # None /\ Chain(head[q])' = Chain(head[q])
        BY <3>1
      <4> QED
        BY <4>1, <4>2
    <3>5. \A q \in Procs : head'[q] # None =>
            LET d0 == head[q]
                d1 == next[d0]
                d2 == next[d1]
            IN  /\ d0 # d1 /\ d0 # d2 /\ d1 # d2
                /\ d0 \notin free' /\ d1 \notin free' /\ d2 \notin free'
      BY <3>1, <3>2 DEF Chains, Chain
    <3> QED
      BY <3>1, <3>3, <3>4, <3>5 DEF Chains, Chain
  <2>12. ChanPc' /\ Signalled'
    BY <2>2, <2>4 DEF ChanPc, Signalled, Wakeup, OnFree, TypeOK
  <2>13. Waiting'
    BY <2>2, <2>4 DEF Waiting, Wakeup, OnFree, TypeOK, ChanPc
  <2> QED
    BY <2>1, <2>7, <2>8, <2>9, <2>10, <2>11, <2>12, <2>13
<1>6. ASSUME NEW p \in Procs, KillWake(p) PROVE IInv'
  <2> USE <1>6 DEF KillWake
  <2>1. Offered' = Offered /\ Completed' = Completed /\ OnlyOnce'
    BY RingsSame
  <2>2. OnePlace' /\ InFlight' /\ Chains'
    BY <2>1 DEF OnePlace, InFlight, Pending, Chains, Chain
  <2>3. TypeOK' /\ HeadPc' /\ ChanPc' /\ Signalled' /\ Waiting'
    BY DEF TypeOK, HeadPc, ChanPc, Signalled, Waiting
  <2> QED
    BY <2>1, <2>2, <2>3
<1>7. ASSUME IntrStart PROVE IInv'
  <2> USE <1>7 DEF IntrStart
  <2>1. Offered' = Offered /\ Completed' = Completed /\ OnlyOnce'
    BY RingsSame
  <2>2. OnePlace' /\ InFlight' /\ Chains'
    BY <2>1 DEF OnePlace, InFlight, Pending, Chains, Chain
  <2>3. TypeOK' /\ HeadPc' /\ ChanPc' /\ Signalled' /\ Waiting'
    BY DEF TypeOK, HeadPc, ChanPc, Signalled, Waiting
  <2> QED
    BY <2>1, <2>2, <2>3
<1>8. ASSUME IntrEnd PROVE IInv'
  <2> USE <1>8 DEF IntrEnd
  <2>1. Offered' = Offered /\ Completed' = Completed /\ OnlyOnce'
    BY RingsSame
  <2>2. OnePlace' /\ InFlight' /\ Chains'
    BY <2>1 DEF OnePlace, InFlight, Pending, Chains, Chain
  <2>3. TypeOK' /\ HeadPc' /\ ChanPc' /\ Signalled' /\ Waiting'
    BY DEF TypeOK, HeadPc, ChanPc, Signalled, Waiting
  <2> QED
    BY <2>1, <2>2, <2>3
<1>9. ASSUME DeviceRaises PROVE IInv'
  <2> USE <1>9 DEF DeviceRaises
  <2>1. Offered' = Offered /\ Completed' = Completed /\ OnlyOnce'
    BY RingsSame
  <2>2. OnePlace' /\ InFlight' /\ Chains'
    BY <2>1 DEF OnePlace, InFlight, Pending, Chains, Chain
  <2>3. TypeOK' /\ HeadPc' /\ ChanPc' /\ Signalled' /\ Waiting'
    BY DEF TypeOK, HeadPc, ChanPc, Signalled, Waiting
  <2> QED
    BY <2>1, <2>2, <2>3
\* Three free descriptors become a request that is offered to the device.
<1>10. ASSUME NEW p \in Procs, Request(p) PROVE IInv'
  <2> DEFINE d0 == Min(free)
             d1 == Min(free \ {d0})
             d2 == Min(free \ {d0, d1})
  <2>1. /\ d0 \in free /\ d1 \in free /\ d2 \in free
        /\ d0 # d1 /\ d0 # d2 /\ d1 # d2
    BY <1>10, ThreeFree DEF Request, TypeOK
  <2>2. /\ pc[p] = "alloc" /\ state[p] = "RUNNABLE"
        /\ free' = free \ {d0, d1, d2}
        /\ next' = [next EXCEPT ![d0] = d1, ![d1] = d2, ![d2] = None]
        /\ status' = [status EXCEPT ![d0] = 255]
        /\ b' = [b EXCEPT ![d0] = p]
        /\ head' = [head EXCEPT ![p] = d0]
        /\ avail' = [avail EXCEPT ![avail_idx % NUM] = d0]
        /\ disk' = disk \cup {p}
        /\ avail_idx' = (avail_idx + 1) % IdxMod
        /\ chan' = [chan EXCEPT ![p] = "b"]
        /\ pc' = [pc EXCEPT ![p] = "waitsleep"]
        /\ UNCHANGED <<used, used_ring_idx, used_idx, intr, device, state>>
    BY <1>10 DEF Request
  <2> HIDE DEF d0, d1, d2
  <2>3. d0 \in Descs /\ d1 \in Descs /\ d2 \in Descs
    BY <2>1 DEF TypeOK
  <2>4. \A d \in Pending \cup Completed : d # d0
    BY <2>1 DEF InFlight, Chains, TypeOK
  <2>5. /\ Offered' = Offered \cup {d0} /\ Completed' = Completed /\ OnlyOnce'
        /\ avail' \in [Descs -> Descs] /\ avail_idx' \in Indices
    <3>1. d0 \notin Ring(avail, seen, avail_idx)
      BY <2>4, Rings DEF Pending
    <3>2. /\ avail' \in [Descs -> Descs] /\ avail_idx' \in Indices
          /\ Ring(avail', seen, avail_idx')
               = Ring(avail, seen, avail_idx) \cup {d0}
          /\ Distinct(avail', seen, avail_idx')
      <4>1. /\ avail \in [Descs -> Descs] /\ seen \in Indices
            /\ avail_idx \in Indices /\ Distinct(avail, seen, avail_idx)
        BY DEF OnlyOnce, TypeOK
      <4>2. /\ avail' = [avail EXCEPT ![avail_idx % NUM] = d0]
            /\ avail_idx' = (avail_idx + 1) % IdxMod
        BY <2>2
      <4>3. Pushes(avail, seen, avail_idx, d0)
        BY <2>3, <3>1, <4>1, Push
      <4> QED
        BY <4>2, <4>3, Zenon DEF Pushes
    <3>3. /\ Offered' = Ring(avail', seen', avail_idx')
          /\ Completed' = Ring(used', used_idx', used_ring_idx')
      BY DEF Offered, Completed, Ring, Entry
    <3> QED
      BY <2>2, <3>2, <3>3, Rings DEF OnlyOnce
  <2>6. head[p] = None /\ p \notin disk
    BY <2>2, <2>4 DEF HeadPc, InFlight, TypeOK
  <2>7. \A q \in Procs : head[q] # None => b[head[q]] = q /\ head[q] # d0
    BY <2>1 DEF InFlight, Chains
  <2>8. TypeOK'
    BY <2>2, <2>3, <2>5 DEF TypeOK
  <2>9. OnePlace'
    BY <2>2, <2>4, <2>5 DEF OnePlace, Pending
  <2>10. InFlight'
    BY <2>2, <2>3, <2>4, <2>5, <2>6, <2>7 DEF InFlight, Pending, TypeOK
  <2>11. HeadPc'
    BY <2>2, <2>3 DEF HeadPc, TypeOK
  <2>12. Chains'
    <3>1. \A q \in Procs : head[q] # None =>
            /\ q # p /\ head'[q] = head[q]
            /\ next'[head[q]] = next[head[q]]
            /\ next'[next[head[q]]] = next[next[head[q]]]
            /\ Chain(head[q])' = Chain(head[q])
            /\ Chain(head[q]) \cap {d0, d1, d2} = {}
      BY <2>1, <2>2, <2>3, <2>6 DEF Chains, Chain, TypeOK
    <3>2. /\ head'[p] = d0 /\ next'[d0] = d1 /\ next'[d1] = d2
          /\ Chain(head[p])' = {d0, d1, d2}
      BY <2>1, <2>2, <2>3 DEF Chain, TypeOK
    <3>3. \A q \in Procs : head'[q] # None => q = p \/ head[q] # None
      BY <2>2 DEF TypeOK
    <3>4. \A q \in Procs : head'[q] # None =>
            LET e0 == head'[q]
                e1 == next'[e0]
                e2 == next'[e1]
            IN  /\ e1 \in Descs /\ e2 \in Descs
                /\ e0 # e1 /\ e0 # e2 /\ e1 # e2
                /\ e0 \notin free' /\ e1 \notin free' /\ e2 \notin free'
      <4> SUFFICES ASSUME NEW q \in Procs, head'[q] # None
                   PROVE  LET e0 == head'[q]
                              e1 == next'[e0]
                              e2 == next'[e1]
                          IN  /\ e1 \in Descs /\ e2 \in Descs
                              /\ e0 # e1 /\ e0 # e2 /\ e1 # e2
                              /\ e0 \notin free' /\ e1 \notin free'
                              /\ e2 \notin free'
        OBVIOUS
      <4>1. CASE q = p
        BY <2>1, <2>2, <2>3, <3>2, <4>1
      <4>2. CASE head[q] # None
        <5>1. /\ head'[q] = head[q]
              /\ next'[head[q]] = next[head[q]]
              /\ next'[next[head[q]]] = next[next[head[q]]]
          BY <3>1, <4>2
        <5>2. free' \subseteq free
          BY <2>2
        <5> QED
          BY <4>2, <5>1, <5>2 DEF Chains
      <4> QED
        BY <3>3, <4>1, <4>2
    <3>5. \A q, r \in Procs :
            q # r /\ head'[q] # None /\ head'[r] # None
              => Chain(head[q])' \cap Chain(head[r])' = {}
      <4>1. \A q, r \in Procs : q # r /\ head[q] # None /\ head[r] # None
              => Chain(head[q]) \cap Chain(head[r]) = {}
        BY DEF Chains
      <4>2. \A q \in Procs : head[q] # None =>
              /\ Chain(head[q])' = Chain(head[q])
              /\ Chain(head[q])' \cap Chain(head[p])' = {}
        BY <3>1, <3>2
      <4>3. \A q \in Procs : head'[q] # None => q = p \/ head[q] # None
        BY <3>3
      <4> QED
        BY <4>1, <4>2, <4>3
    <3>6. \A d \in Descs : d \notin free' =>
            \E q \in Procs : head'[q] # None /\ d \in Chain(head[q])'
      BY <2>2, <2>3, <3>1, <3>2 DEF Chains
    <3> QED
      BY <3>4, <3>5, <3>6 DEF Chains
  <2>13. ChanPc' /\ Signalled'
    BY <2>2 DEF ChanPc, Signalled, TypeOK
  <2>14. Waiting'
    <3>1. Cardinality(free') <= Cardinality(free)
          /\ Cardinality(free) \in Nat /\ Cardinality(free') \in Nat
      BY <2>2, DescsFinite, FS_Subset, FS_CardinalityType DEF TypeOK
    <3> QED
      BY <2>2, <3>1 DEF Waiting, TypeOK, ChanPc
  <2> QED
    BY <2>5, <2>8, <2>9, <2>10, <2>11, <2>12, <2>13, <2>14
\* The handler takes an entry off the used ring and wakes its process.
<1>11. ASSUME IntrEntry PROVE IInv'
  <2> DEFINE id == used[used_idx % NUM]
  <2>1. /\ used_idx' \in Indices /\ id \in Descs /\ id \in Completed
        /\ Completed' = Completed \ {id} /\ Offered' = Offered /\ OnlyOnce'
    <3>1. /\ used_idx' \in Indices /\ id \in Descs
          /\ Ring(used, used_idx', used_ring_idx)
               = Ring(used, used_idx, used_ring_idx) \ {id}
          /\ id \in Ring(used, used_idx, used_ring_idx)
          /\ Distinct(used, used_idx', used_ring_idx)
      BY <1>11, Pop DEF IntrEntry, OnlyOnce, TypeOK
    <3>2. /\ Offered' = Ring(avail', seen', avail_idx')
          /\ Completed' = Ring(used', used_idx', used_ring_idx')
      BY DEF Offered, Completed, Ring, Entry
    <3> HIDE DEF id
    <3> QED
      BY <1>11, <3>1, <3>2, Rings DEF OnlyOnce, IntrEntry
  <2>2. /\ intr
        /\ disk' = disk \ {b[id]}
        /\ Wakeup({p \in {b[id]} : chan[p] = "b"})
        /\ UNCHANGED <<free, next, b, status, head, avail, avail_idx, used,
                       used_ring_idx, intr, device, pc>>
    BY <1>11 DEF IntrEntry
  <2> HIDE DEF id
  <2>3. b[id] \in Procs /\ head[b[id]] = id /\ status[id] = 0
    BY <2>1 DEF InFlight
  <2>4. TypeOK'
    BY <2>1, <2>2, <2>3 DEF TypeOK, Wakeup
  <2>5. OnePlace'
    BY <2>1, <2>2 DEF OnePlace
  <2>6. InFlight'
    <3>1. \A d \in Pending \cup Completed : d # id => b[d] # b[id]
      BY <2>1 DEF InFlight
    <3>2. id \notin Pending
      BY <2>1 DEF OnePlace, Pending
    <3> QED
      BY <2>1, <2>2, <2>3, <3>1, <3>2 DEF InFlight, Pending, TypeOK
  <2>7. HeadPc' /\ Chains'
    BY <2>2 DEF HeadPc, Chains, Chain
  <2>8. ChanPc' /\ Signalled'
    BY <2>2, <2>3 DEF ChanPc, Signalled, Wakeup, TypeOK
  <2>9. Waiting'
    BY <2>2, <2>3 DEF Waiting, Wakeup, TypeOK
  <2> QED
    BY <2>1, <2>4, <2>5, <2>6, <2>7, <2>8, <2>9
\* The device takes a request from the available ring.
<1>12. ASSUME DeviceTakes PROVE IInv'
  <2> DEFINE d == avail[seen % NUM]
  <2>1. /\ seen' \in Indices /\ d \in Descs /\ d \in Offered
        /\ Offered' = Offered \ {d} /\ Completed' = Completed /\ OnlyOnce'
    <3>1. /\ seen' \in Indices /\ d \in Descs
          /\ Ring(avail, seen', avail_idx)
               = Ring(avail, seen, avail_idx) \ {d}
          /\ d \in Ring(avail, seen, avail_idx)
          /\ Distinct(avail, seen', avail_idx)
      BY <1>12, Pop DEF DeviceTakes, OnlyOnce, TypeOK
    <3>2. /\ Offered' = Ring(avail', seen', avail_idx')
          /\ Completed' = Ring(used', used_idx', used_ring_idx')
      BY DEF Offered, Completed, Ring, Entry
    <3> HIDE DEF d
    <3> QED
      BY <1>12, <3>1, <3>2, Rings DEF OnlyOnce, DeviceTakes
  <2>2. /\ busy' = busy \cup {d}
        /\ UNCHANGED <<free, next, b, status, disk, head, ring, intr, irq,
                       raise, sched>>
    BY <1>12 DEF DeviceTakes
  <2> HIDE DEF d
  <2>3. TypeOK'
    BY <2>1, <2>2 DEF TypeOK
  <2>4. OnePlace'
    BY <2>1, <2>2 DEF OnePlace
  <2>5. InFlight'
    BY <2>1, <2>2 DEF InFlight, Pending
  <2>6. HeadPc' /\ Chains' /\ ChanPc' /\ Signalled' /\ Waiting'
    BY <2>2 DEF HeadPc, Chains, Chain, ChanPc, Signalled, Waiting
  <2> QED
    BY <2>1, <2>3, <2>4, <2>5, <2>6
\* The device completes any of its requests.
<1>13. ASSUME NEW d \in Descs, DeviceCompletes(d) PROVE IInv'
  <2>1. d \in busy /\ d \notin Completed
    BY <1>13 DEF DeviceCompletes, OnePlace
  <2>2. /\ used' \in [Descs -> Descs] /\ used_ring_idx' \in Indices
        /\ Completed' = Completed \cup {d} /\ Offered' = Offered /\ OnlyOnce'
    <3>1. /\ used' \in [Descs -> Descs] /\ used_ring_idx' \in Indices
          /\ Ring(used', used_idx, used_ring_idx')
               = Ring(used, used_idx, used_ring_idx) \cup {d}
          /\ Distinct(used', used_idx, used_ring_idx')
      <4>1. /\ used \in [Descs -> Descs] /\ used_idx \in Indices
            /\ used_ring_idx \in Indices
            /\ Distinct(used, used_idx, used_ring_idx)
        BY DEF OnlyOnce, TypeOK
      <4>2. /\ used' = [used EXCEPT ![used_ring_idx % NUM] = d]
            /\ used_ring_idx' = (used_ring_idx + 1) % IdxMod
        BY <1>13 DEF DeviceCompletes
      <4>3. d \notin Ring(used, used_idx, used_ring_idx)
        BY <2>1, Rings
      <4>4. Pushes(used, used_idx, used_ring_idx, d)
        BY <4>1, <4>3, Push
      <4> QED
        BY <4>2, <4>4, Zenon DEF Pushes
    <3>2. /\ Offered' = Ring(avail', seen', avail_idx')
          /\ Completed' = Ring(used', used_idx', used_ring_idx')
      BY DEF Offered, Completed, Ring, Entry
    <3> QED
      BY <1>13, <3>1, <3>2, Rings DEF OnlyOnce, DeviceCompletes
  <2>3. /\ busy' = busy \ {d}
        /\ status' = [status EXCEPT ![d] = 0]
        /\ raise'
        /\ UNCHANGED <<free, next, b, disk, head, avail, avail_idx, used_idx,
                       intr, irq, seen, sched>>
    BY <1>13 DEF DeviceCompletes
  <2>4. TypeOK'
    BY <1>13, <2>2, <2>3 DEF TypeOK, DeviceCompletes
  <2>5. OnePlace'
    BY <2>1, <2>2, <2>3 DEF OnePlace
  <2>6. InFlight'
    BY <2>1, <2>2, <2>3 DEF InFlight, Pending, TypeOK
  <2>7. HeadPc' /\ Chains' /\ ChanPc' /\ Signalled' /\ Waiting'
    BY <2>3 DEF HeadPc, Chains, Chain, ChanPc, Signalled, Waiting
  <2> QED
    BY <2>2, <2>4, <2>5, <2>6, <2>7
<1>14. CASE UNCHANGED vars
  <2>1. Offered' = Offered /\ Completed' = Completed /\ OnlyOnce'
    BY <1>14, RingsSame DEF vars
  <2> QED
    BY <1>14, <2>1 DEF vars, TypeOK, OnePlace, InFlight, Pending, HeadPc,
       Chains, Chain, ChanPc, Signalled, Waiting
<1> QED
  BY <1>1, <1>2, <1>3, <1>4, <1>5, <1>6, <1>7, <1>8, <1>9, <1>10, <1>11,
     <1>12, <1>13, <1>14 DEF Next, Step, Handler, Device

\* The invariant holds in every reachable state.
LEMMA Invariant == Spec => []IInv
  BY InitIInv, NextIInv, PTL DEF Spec
-----------------------------------------------------------------------------
(* The driver's and the device's variables keep their types. *)
THEOREM TypeCorrect == Spec => []TypeOK
<1>1. IInv => TypeOK
  BY DEF IInv
<1> QED
  BY <1>1, Invariant, PTL

(* The device never works through descriptors or on a buffer that the      *)
(* driver has taken back, whatever the order of its completions.           *)
THEOREM DmaIsSafe == Spec => []DmaSafe
<1>1. IInv => DmaSafe
  BY NoneNoDesc, VirtioAssumption
  DEF IInv, TypeOK, InFlight, Chains, Chain, Pending, DmaSafe
<1> QED
  BY <1>1, Invariant, PTL

(* Every request of a waiting process is with the device or in the used    *)
(* ring until b->disk is cleared: the rings never overwrite an entry.      *)
THEOREM RequestsKept == Spec => []NoRequestLost
<1>1. IInv => NoRequestLost
  BY VirtioAssumption DEF IInv, TypeOK, InFlight, HeadPc, NoRequestLost
<1> QED
  BY <1>1, Invariant, PTL

(* An entry of the used ring always has an interrupt coming, and no        *)
(* process sleeps for a buffer that is done.                               *)
THEOREM CompletionsSeen == Spec => []NoCompletionMissed
<1>1. IInv => NoCompletionMissed
  <2> SUFFICES ASSUME IInv PROVE NoCompletionMissed
    OBVIOUS
  <2>1. used_idx = used_ring_idx => Completed = {}
    BY Rings, RingEmpty DEF IInv, TypeOK
  <2> QED
    BY <2>1 DEF IInv, Signalled, Waiting, NoCompletionMissed
<1> QED
  BY <1>1, Invariant, PTL

(* Descriptors are neither lost nor freed twice, and a process sleeps for  *)
(* them only while there are fewer than three.                             *)
THEOREM DescriptorsSafe == Spec => []DescriptorsKept
<1>1. IInv => DescriptorsKept
  <2> SUFFICES ASSUME IInv PROVE DescriptorsKept
    OBVIOUS
  <2> DEFINE U == UNION {Chain(head[p]) :
                           p \in {q \in Procs : head[q] # None}}
  <2>1. \A d \in Descs : d \in free <=> d \notin U
    BY DEF IInv, TypeOK, Chains, Chain
  <2>2. free = Descs \ U
    BY <2>1 DEF IInv, TypeOK
  <2> QED
    BY <2>2 DEF IInv, Waiting, DescriptorsKept, OnFree
<1> QED
  BY <1>1, Invariant, PTL

(* free_desc() never panics: a descriptor that a process gives back was    *)
(* its own and in use.                                                     *)
THEOREM FreePanicFree == Spec => [](\A p \in Procs : pc[p] # "panic")
<1>1. IInv => \A p \in Procs : pc[p] # "panic"
  BY DEF IInv, HeadPc
<1> QED
  BY <1>1, Invariant, PTL
=============================================================================
