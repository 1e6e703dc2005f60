--------------------------- MODULE FileSysProofs ---------------------------
(***************************************************************************)
(* Proofs about FileSys.tla, for any number of processes, names, inodes,   *)
(* files, descriptors, calls and crashes, and about FileData.tla, for any  *)
(* block size, any number of blocks and any image of mkfs.                 *)
(*                                                                         *)
(* FileSys.  The inductive invariant has three layers.  On a disk, the one *)
(* the calls see and the one a crash leaves, link counts cover the         *)
(* entries, those of directories exactly (DiskOK); links that sys_link()   *)
(* has counted and not written are covered too (Counted).  In memory, ref  *)
(* is the number of pointers (Refs), an entry in use is not free and       *)
(* agrees with the disk once it is valid (Table), and file counts are      *)
(* descriptor counts (FileTable).  Per process, the locks a call relies on *)
(* are its own (Locked, LockHeld), what it found under a lock is still so  *)
(* (Dirs), an inode being freed has nobody else (Freeing), and each inode  *)
(* without links is known to somebody who will free it (Known).            *)
(*                                                                         *)
(* Most actions change one process, one or two entries and one disk        *)
(* operation; StepOK says once what such a step has to keep.               *)
(*                                                                         *)
(* FileData, in the second part.  The inductive invariant DataInv says     *)
(* what a call under the lock of its inode relies on (InCall), that the    *)
(* entries which own a block own each their own and the bitmap marks just  *)
(* these (Lists), and that the bytes below the length are those written    *)
(* (Written).                                                              *)
(***************************************************************************)
EXTENDS FileSys, FileData, ModLemmas, FiniteSetTheorems, SequenceTheorems,
        WellFoundedInduction, TLAPS

Types == {"free", "file", "dir"}
Numbers == 0 .. NINODES

PCs == Ops \cup {"idle", "end", "bad", "panic", "namex", "filealloc",
                 "fileclose", "exists", "unlink2", "dirlink"}

Records ==
  [pc : PCs, op : Ops \cup {"none"}, new : Seq(Elems \cup {"/"}),
   at : Numbers, rest : Seq(Elems), ip : Numbers, todo : Seq(Inums),
   fr : {"no", "trunc", "drop", "free"}]

Entries == [ref : Nat, valid : BOOLEAN, type : Types, nlink : Nat]

Disks ==
  [type : [Inums -> Types], nlink : [Inums -> Nat],
   dir : [Inums -> [Names -> Numbers]], up : [Inums -> Numbers]]

TypeOK ==
  /\ disk \in Disks /\ saved \in Disks
  /\ inode \in [Inums -> Entries]
  /\ lock \in [Inums -> Procs \cup {NoProc}]
  /\ file \in [Files -> [ref : Nat, ip : Numbers]]
  /\ ofile \in [Procs -> [Fds -> 0 .. NFILE]]
  /\ cwd \in [Procs -> Inums]
  /\ pr \in [Procs -> Records]
  /\ booting \in BOOLEAN

\* The fields of a process that its place in the call makes use of.
Shape(r) ==
  /\ r.pc # "panic"
  /\ r.at = 0 <=> r.pc \in {"idle", "end", "bad"}
  /\ r.pc \in {"bad", "unlink2", "dirlink"} => r.ip # 0
  /\ r.ip # 0 => \/ r.pc \in {"bad", "unlink2"}
                 \/ r.pc \in {"namex", "dirlink"} /\ r.op = "link"
  /\ r.pc \in Ops => r.op = r.pc
  /\ r.pc = "namex" => r.op \in Ops
  /\ r.pc = "exists" => r.op \in {"create", "mkdir"}
  /\ r.pc = "unlink2" => r.op = "unlink"
  /\ r.op = "link" /\ r.ip = 0 => IsPath(r.new)
  /\ r.pc \in {"create", "mkdir", "unlink", "unlink2", "dirlink"} =>
       Len(r.rest) = 1
  /\ r.todo # <<>> => r.pc \in {"end", "bad", "namex", "exists", "filealloc"}
  /\ Len(r.todo) <= 2
  /\ r.fr # "no" => r.todo # <<>>
  /\ r.pc = "idle" => r = Idle
Shapes == \A p \in Procs : Shape(pr[p])

\* A record of the disk whose links add up.  The directories have the exact
\* count, and a directory with links is in its parent, once.
DiskOK(d) ==
  /\ \A i \in Inums : d.type[i] = "free" => d.nlink[i] = 0
  /\ d.type[ROOTINO] = "dir" /\ d.up[ROOTINO] = ROOTINO
  /\ d.nlink[ROOTINO] > 0 /\ NamesOf(d, ROOTINO) = {}
  /\ \A i \in Inums : d.nlink[i] >= Links(d, i)
  /\ \A i \in Inums : d.type[i] = "dir" => d.nlink[i] = Links(d, i)
  /\ \A i \in Inums : d.type[i] = "dir" =>
       \A x, y \in NamesOf(d, i) : x[1] = d.up[i] /\ x = y
  /\ \A i \in Inums :
       d.type[i] = "dir" /\ d.nlink[i] > 0 =>
         d.up[i] # 0 /\ (i # ROOTINO => NamesOf(d, i) # {})

\* A link that sys_link() has counted and not yet written.
Counts(r, i) == r.ip = i /\ (r.op = "link" \/ r.pc = "bad")
Pending(i) == {p \in Procs : Counts(pr[p], i)}
Counted ==
  \A i \in Inums : disk.nlink[i] >= Links(disk, i) + Cardinality(Pending(i))

Refs == \A i \in Inums : inode[i].ref = Holders(i)

TableAt(i) ==
  /\ inode[i].valid => /\ inode[i].type = disk.type[i]
                       /\ inode[i].nlink = disk.nlink[i]
  /\ inode[i].ref = 0 => inode[i] = Unused
  /\ inode[i].ref > 0 => disk.type[i] # "free"
Table == \A i \in Inums : TableAt(i)

Descriptors(f) == {x \in Procs \X Fds : ofile[x[1]][x[2]] = f}
FileTable ==
  \A f \in Files : /\ file[f].ref = Cardinality(Descriptors(f))
                   /\ file[f].ref = 0 <=> file[f].ip = 0

LockedBy(p) ==
  /\ pr[p].pc \in {"filealloc", "unlink2"} => lock[pr[p].at] = p
  /\ pr[p].fr = "trunc" => lock[Head(pr[p].todo)] = p
Locked == \A p \in Procs : LockedBy(p)

DirsOf(p) ==
  /\ pr[p].pc \in {"create", "mkdir", "unlink", "unlink2", "dirlink"} =>
       disk.type[pr[p].at] = "dir"
  /\ pr[p].pc = "unlink2" =>
       /\ inode[pr[p].at].valid
       /\ Head(pr[p].rest) \in Names
       /\ disk.dir[pr[p].at][Head(pr[p].rest)] = pr[p].ip
  /\ pr[p].ip # 0 /\ Counts(pr[p], pr[p].ip) => disk.type[pr[p].ip] = "file"
Dirs == \A p \in Procs : DirsOf(p)

\* iput() that frees an inode is alone with it, until it is free.
FreeingBy(p) ==
  LET i == Head(pr[p].todo) IN
  /\ pr[p].fr # "no" => disk.nlink[i] = 0 /\ disk.type[i] # "free"
  /\ pr[p].fr \in {"trunc", "drop"} => inode[i].ref = 1
  /\ pr[p].fr = "free" =>
       /\ inode[i].ref = 0
       /\ \A q \in Procs : pr[q].fr = "free" /\ Head(pr[q].todo) = i => q = p
Freeing == \A p \in Procs : FreeingBy(p)

\* An inode without links is about to be freed, or iput() will notice.
Noticed(i) ==
  \/ inode[i].valid
  \/ \E p \in Procs : pr[p].fr \in {"drop", "free"} /\ Head(pr[p].todo) = i
Known == ~booting => \A i \in Orphans(disk) : Noticed(i)

\* ireclaim() runs before the first process.
Booting ==
  booting => /\ inode = Boot.inode /\ lock = Boot.lock /\ file = Boot.file
             /\ ofile = Boot.ofile /\ cwd = Boot.cwd /\ pr = Boot.pr

IInv ==
  /\ TypeOK /\ Shapes /\ DiskOK(disk) /\ DiskOK(saved) /\ Counted
  /\ Refs /\ Table /\ FileTable /\ Locked /\ Dirs /\ Freeing /\ Known
  /\ Booting
-----------------------------------------------------------------------------
\* Counting.

Is(a, i) == IF a = i THEN 1 ELSE 0

\* How many elements of X a function sends to i.
Count(X, f, i) == Cardinality({x \in X : f[x] = i})

\* Counts are natural numbers.
LEMMA CountType ==
  ASSUME NEW X, IsFiniteSet(X), NEW f, NEW i
  PROVE  IsFiniteSet({x \in X : f[x] = i}) /\ Count(X, f, i) \in Nat
  BY FS_Subset, FS_CardinalityType DEF Count

\* Two functions that differ at one place, or at five.
ButFor(X, a, f, g) == \A x \in X \ {a} : g[x] = f[x]
ButForFive(X, a, b, c, d, e, f, g) ==
  /\ {a, b, c, d, e} \subseteq X
  /\ a # b /\ a # c /\ a # d /\ a # e /\ b # c /\ b # d /\ b # e
  /\ c # d /\ c # e /\ d # e
  /\ \A x \in X \ {a, b, c, d, e} : g[x] = f[x]

\* Counting again after one place has changed.
LEMMA CountOne ==
  ASSUME NEW X, IsFiniteSet(X), NEW f, NEW g, NEW a \in X,
         ButFor(X, a, f, g),
         NEW i
  PROVE  Count(X, g, i) = Count(X, f, i) + Is(g[a], i) - Is(f[a], i)
<1> DEFINE F == {x \in X : f[x] = i}
           G == {x \in X : g[x] = i}
<1>1. IsFiniteSet(F) /\ Cardinality(F) \in Nat
  BY FS_Subset, FS_CardinalityType
<1>2. CASE f[a] = i /\ g[a] = i
  <2>1. F = G
    BY <1>2 DEF ButFor
  <2> QED
    BY <1>1, <1>2, <2>1 DEF Count, Is
<1>3. CASE f[a] # i /\ g[a] # i
  <2>1. F = G
    BY <1>3 DEF ButFor
  <2>2. Is(f[a], i) = 0 /\ Is(g[a], i) = 0
    BY <1>3 DEF Is
  <2> QED
    BY <1>1, <2>1, <2>2 DEF Count
<1>4. CASE f[a] # i /\ g[a] = i
  <2>1. G = F \cup {a} /\ a \notin F
    BY <1>4 DEF ButFor
  <2>2. Cardinality(G) = Cardinality(F) + 1
    BY <1>1, <2>1, FS_AddElement
  <2> QED
    BY <1>1, <1>4, <2>2 DEF Count, Is
<1>5. CASE f[a] = i /\ g[a] # i
  <2>1. G = F \ {a} /\ a \in F
    BY <1>5 DEF ButFor
  <2>2. Cardinality(G) = Cardinality(F) - 1
    BY <1>1, <2>1, FS_RemoveElement
  <2> QED
    BY <1>1, <1>5, <2>2 DEF Count, Is
<1> QED
  BY <1>2, <1>3, <1>4, <1>5

\* Functions that agree have the same counts.
LEMMA CountSame ==
  ASSUME NEW X, NEW f, NEW g, NEW i, \A x \in X : f[x] = g[x]
  PROVE  Count(X, f, i) = Count(X, g, i)
<1>1. {x \in X : f[x] = i} = {x \in X : g[x] = i}
  OBVIOUS
<1> QED
  BY <1>1 DEF Count

\* A function that changes at five places.
LEMMA CountFive ==
  ASSUME NEW X, IsFiniteSet(X), NEW f, NEW g,
         NEW a, NEW b, NEW c, NEW d, NEW e,
         ButForFive(X, a, b, c, d, e, f, g),
         NEW i
  PROVE  Count(X, g, i) = Count(X, f, i)
           + (Is(g[a], i) + Is(g[b], i) + Is(g[c], i) + Is(g[d], i)
              + Is(g[e], i))
           - (Is(f[a], i) + Is(f[b], i) + Is(f[c], i) + Is(f[d], i)
              + Is(f[e], i))
<1> DEFINE f1 == [x \in X |-> IF x = a THEN g[x] ELSE f[x]]
           f2 == [x \in X |-> IF x \in {a, b} THEN g[x] ELSE f[x]]
           f3 == [x \in X |-> IF x \in {a, b, c} THEN g[x] ELSE f[x]]
           f4 == [x \in X |-> IF x \in {a, b, c, d} THEN g[x] ELSE f[x]]
           f5 == [x \in X |-> g[x]]
<1>b. /\ a \in X /\ b \in X /\ c \in X /\ d \in X /\ e \in X
      /\ a # b /\ a # c /\ a # d /\ a # e /\ b # c /\ b # d /\ b # e
      /\ c # d /\ c # e /\ d # e
      /\ \A x \in X \ {a, b, c, d, e} : g[x] = f[x]
  BY DEF ButForFive
<1>1. Count(X, f1, i) = Count(X, f, i) + Is(g[a], i) - Is(f[a], i)
  <2>1. f1[a] = g[a] /\ f[a] = f[a] /\ ButFor(X, a, f, f1)
    BY <1>b DEF ButFor
  <2> HIDE DEF f1, f2, f3, f4, f5
  <2> QED
    BY <1>b, <2>1, CountOne
<1>2. Count(X, f2, i) = Count(X, f1, i) + Is(g[b], i) - Is(f[b], i)
  <2>1. f2[b] = g[b] /\ f1[b] = f[b] /\ ButFor(X, b, f1, f2)
    BY <1>b DEF ButFor
  <2> HIDE DEF f1, f2, f3, f4, f5
  <2> QED
    BY <1>b, <2>1, CountOne
<1>3. Count(X, f3, i) = Count(X, f2, i) + Is(g[c], i) - Is(f[c], i)
  <2>1. f3[c] = g[c] /\ f2[c] = f[c] /\ ButFor(X, c, f2, f3)
    BY <1>b DEF ButFor
  <2> HIDE DEF f1, f2, f3, f4, f5
  <2> QED
    BY <1>b, <2>1, CountOne
<1>4. Count(X, f4, i) = Count(X, f3, i) + Is(g[d], i) - Is(f[d], i)
  <2>1. f4[d] = g[d] /\ f3[d] = f[d] /\ ButFor(X, d, f3, f4)
    BY <1>b DEF ButFor
  <2> HIDE DEF f1, f2, f3, f4, f5
  <2> QED
    BY <1>b, <2>1, CountOne
<1>5. Count(X, f5, i) = Count(X, f4, i) + Is(g[e], i) - Is(f[e], i)
  <2>1. f5[e] = g[e] /\ f4[e] = f[e] /\ ButFor(X, e, f4, f5)
    BY <1>b DEF ButFor
  <2> HIDE DEF f1, f2, f3, f4, f5
  <2> QED
    BY <1>b, <2>1, CountOne
<1>a. Count(X, f5, i) = Count(X, g, i)
  <2>1. \A x \in X : f5[x] = g[x]
    OBVIOUS
  <2> HIDE DEF f5
  <2> QED
    BY <2>1, CountSame
<1>6. /\ Count(X, f, i) \in Nat /\ Count(X, f1, i) \in Nat
      /\ Count(X, f2, i) \in Nat /\ Count(X, f3, i) \in Nat
      /\ Count(X, f4, i) \in Nat
  <2> HIDE DEF f1, f2, f3, f4, f5
  <2> QED
    BY CountType
<1> HIDE DEF f1, f2, f3, f4, f5
<1>7. \A x : Is(x, i) \in Nat
  BY DEF Is
<1> QED
  BY ONLY <1>1, <1>2, <1>3, <1>4, <1>5, <1>6, <1>7, <1>a

\* The pointers of a process to inode i.
Weight(r, i) == Is(r.at, i) + Is(r.ip, i) + Is(Todo(r), i) + Is(Todo2(r), i)

\* There are finitely many pointers to inodes.
LEMMA PointersFinite == IsFiniteSet(Pointers)
<1> DEFINE K == {"cwd", "at", "ip", "todo", "todo2"}
<1>1. IsFiniteSet(K)
  <2>1. \A x : IsFiniteSet({x})
    BY FS_Singleton
  <2>2. \A S, T : IsFiniteSet(S) /\ IsFiniteSet(T) => IsFiniteSet(S \cup T)
    BY FS_Union
  <2>3. K = {"cwd"} \cup ({"at"} \cup ({"ip"} \cup ({"todo"} \cup {"todo2"})))
    OBVIOUS
  <2> QED
    <3> HIDE DEF K
    <3>1. IsFiniteSet({"todo"} \cup {"todo2"})
      BY <2>1, <2>2
    <3>2. IsFiniteSet({"ip"} \cup ({"todo"} \cup {"todo2"}))
      BY <2>1, <2>2, <3>1
    <3>3. IsFiniteSet({"at"} \cup ({"ip"} \cup ({"todo"} \cup {"todo2"})))
      BY <2>1, <2>2, <3>2
    <3> QED
      BY <2>1, <2>2, <2>3, <3>3
<1>2. IsFiniteSet(K \X Procs)
  BY <1>1, FS_Product, FileSysAssumption
<1>3. IsFiniteSet({"file"} \X Files)
  <2>1. IsFiniteSet(Files)
    BY FS_Interval, FileSysAssumption DEF Files
  <2>2. IsFiniteSet({"file"})
    BY FS_Singleton
  <2> QED
    BY <2>1, <2>2, FS_Product
<1> QED
  BY <1>2, <1>3, FS_Union DEF Pointers

\* What the pointers are, one by one.
LEMMA PointerIs ==
  /\ \A p \in Procs :
       /\ Pointer[<<"cwd", p>>] = cwd[p]
       /\ Pointer[<<"at", p>>] = pr[p].at
       /\ Pointer[<<"ip", p>>] = pr[p].ip
       /\ Pointer[<<"todo", p>>] = Todo(pr[p])
       /\ Pointer[<<"todo2", p>>] = Todo2(pr[p])
  /\ \A f \in Files : Pointer[<<"file", f>>] = file[f].ip
  BY DEF Pointer, Pointers

\* The same of the next state.
LEMMA PointerNext ==
  /\ \A p \in Procs :
       /\ Pointer'[<<"cwd", p>>] = cwd'[p]
       /\ Pointer'[<<"at", p>>] = pr'[p].at
       /\ Pointer'[<<"ip", p>>] = pr'[p].ip
       /\ Pointer'[<<"todo", p>>] = Todo(pr'[p])
       /\ Pointer'[<<"todo2", p>>] = Todo2(pr'[p])
  /\ \A f \in Files : Pointer'[<<"file", f>>] = file'[f].ip
  BY DEF Pointer, Pointers, Todo, Todo2

\* Each pointer belongs to a process or to a file.
LEMMA PointersAre ==
  ASSUME NEW x \in Pointers
  PROVE  \/ \E p \in Procs : \E k \in {"cwd", "at", "ip", "todo", "todo2"} :
              x = <<k, p>>
         \/ \E f \in Files : x = <<"file", f>>
  BY DEF Pointers

\* The holders of i count what one process changes of its pointers.
LEMMA HoldersStep ==
  ASSUME NEW p \in Procs,
         \A q \in Procs \ {p} : pr'[q] = pr[q] /\ cwd'[q] = cwd[q],
         \A f \in Files : file'[f].ip = file[f].ip,
         NEW i
  PROVE  Holders(i)' = Holders(i) + (Weight(pr'[p], i) + Is(cwd'[p], i))
                                  - (Weight(pr[p], i) + Is(cwd[p], i))
<1> DEFINE a == <<"at", p>>
           b == <<"ip", p>>
           c == <<"todo", p>>
           d == <<"todo2", p>>
           e == <<"cwd", p>>
<1>1. /\ {a, b, c, d, e} \subseteq Pointers
      /\ a # b /\ a # c /\ a # d /\ a # e /\ b # c /\ b # d /\ b # e
      /\ c # d /\ c # e /\ d # e
  BY DEF Pointers
<1>2. ButForFive(Pointers, a, b, c, d, e, Pointer, Pointer')
  <2> SUFFICES ASSUME NEW x \in Pointers \ {a, b, c, d, e}
               PROVE  Pointer'[x] = Pointer[x]
    BY <1>1 DEF ButForFive
  <2>1. CASE \E f \in Files : x = <<"file", f>>
    BY <2>1, PointerIs, PointerNext
  <2>2. CASE \E q \in Procs : \E k \in {"cwd", "at", "ip", "todo", "todo2"} :
               x = <<k, q>>
    <3>1. PICK q \in Procs : \E k \in {"cwd", "at", "ip", "todo", "todo2"} :
                               x = <<k, q>>
      BY <2>2
    <3>2. q # p
      BY <3>1
    <3>3. pr'[q] = pr[q] /\ cwd'[q] = cwd[q]
      BY <3>2
    <3> QED
      <4>1. /\ Pointer[<<"at", q>>] = pr[q].at
            /\ Pointer[<<"ip", q>>] = pr[q].ip
            /\ Pointer[<<"todo", q>>] = Todo(pr[q])
            /\ Pointer[<<"todo2", q>>] = Todo2(pr[q])
            /\ Pointer[<<"cwd", q>>] = cwd[q]
        BY PointerIs
      <4>2. /\ Pointer'[<<"at", q>>] = pr'[q].at
            /\ Pointer'[<<"ip", q>>] = pr'[q].ip
            /\ Pointer'[<<"todo", q>>] = Todo(pr'[q])
            /\ Pointer'[<<"todo2", q>>] = Todo2(pr'[q])
            /\ Pointer'[<<"cwd", q>>] = cwd'[q]
        BY PointerNext
      <4> QED
        BY ONLY <3>1, <3>3, <4>1, <4>2
  <2> QED
    BY <2>1, <2>2, PointersAre
<1>3. /\ Pointer[a] = pr[p].at /\ Pointer[b] = pr[p].ip
      /\ Pointer[c] = Todo(pr[p]) /\ Pointer[d] = Todo2(pr[p])
      /\ Pointer[e] = cwd[p]
  BY PointerIs
<1>4. /\ Pointer'[a] = pr'[p].at /\ Pointer'[b] = pr'[p].ip
      /\ Pointer'[c] = Todo(pr'[p]) /\ Pointer'[d] = Todo2(pr'[p])
      /\ Pointer'[e] = cwd'[p]
  BY PointerNext
<1>5. Holders(i) = Count(Pointers, Pointer, i)
      /\ Holders(i)' = Count(Pointers, Pointer', i)
  BY DEF Holders, Count, Pointers
<1>6. Count(Pointers, Pointer, i) \in Nat
  BY CountType, PointersFinite
<1> HIDE DEF a, b, c, d, e
<1>7. Count(Pointers, Pointer', i) = Count(Pointers, Pointer, i)
        + (Is(Pointer'[a], i) + Is(Pointer'[b], i) + Is(Pointer'[c], i)
           + Is(Pointer'[d], i) + Is(Pointer'[e], i))
        - (Is(Pointer[a], i) + Is(Pointer[b], i) + Is(Pointer[c], i)
           + Is(Pointer[d], i) + Is(Pointer[e], i))
  BY ONLY <1>2, CountFive, PointersFinite
<1>8. \A x : Is(x, i) \in Nat
  BY DEF Is
<1> QED
  BY ONLY <1>3, <1>4, <1>5, <1>6, <1>7, <1>8 DEF Weight

\* The same for a process that opens or closes the file f.
LEMMA HoldersFile ==
  ASSUME NEW p \in Procs, NEW f \in Files,
         \A q \in Procs \ {p} : pr'[q] = pr[q],
         \A q \in Procs : cwd'[q] = cwd[q],
         \A g \in Files \ {f} : file'[g].ip = file[g].ip,
         NEW i
  PROVE  Holders(i)' = Holders(i) + (Weight(pr'[p], i) + Is(file'[f].ip, i))
                                  - (Weight(pr[p], i) + Is(file[f].ip, i))
<1> DEFINE a == <<"at", p>>
           b == <<"ip", p>>
           c == <<"todo", p>>
           d == <<"todo2", p>>
           e == <<"file", f>>
<1>1. /\ {a, b, c, d, e} \subseteq Pointers
      /\ a # b /\ a # c /\ a # d /\ a # e /\ b # c /\ b # d /\ b # e
      /\ c # d /\ c # e /\ d # e
  BY DEF Pointers
<1>2. ButForFive(Pointers, a, b, c, d, e, Pointer, Pointer')
  <2> SUFFICES ASSUME NEW x \in Pointers \ {a, b, c, d, e}
               PROVE  Pointer'[x] = Pointer[x]
    BY <1>1 DEF ButForFive
  <2>1. CASE \E g \in Files : x = <<"file", g>>
    BY <2>1, PointerIs, PointerNext
  <2>2. CASE \E q \in Procs : \E k \in {"cwd", "at", "ip", "todo", "todo2"} :
               x = <<k, q>>
    <3>1. PICK q \in Procs : \E k \in {"cwd", "at", "ip", "todo", "todo2"} :
                               x = <<k, q>>
      BY <2>2
    <3>2. CASE x = <<"cwd", q>>
      BY <3>2, PointerIs, PointerNext
    <3>3. CASE x # <<"cwd", q>>
      <4>1. pr'[q] = pr[q]
        BY <3>1, <3>3
      <4> QED
        <5>1. /\ Pointer[<<"at", q>>] = pr[q].at
              /\ Pointer[<<"ip", q>>] = pr[q].ip
              /\ Pointer[<<"todo", q>>] = Todo(pr[q])
              /\ Pointer[<<"todo2", q>>] = Todo2(pr[q])
          BY PointerIs
        <5>2. /\ Pointer'[<<"at", q>>] = pr'[q].at
              /\ Pointer'[<<"ip", q>>] = pr'[q].ip
              /\ Pointer'[<<"todo", q>>] = Todo(pr'[q])
              /\ Pointer'[<<"todo2", q>>] = Todo2(pr'[q])
          BY PointerNext
        <5> QED
          BY ONLY <3>1, <3>3, <4>1, <5>1, <5>2
    <3> QED
      BY <3>2, <3>3
  <2> QED
    BY <2>1, <2>2, PointersAre
<1>3. /\ Pointer[a] = pr[p].at /\ Pointer[b] = pr[p].ip
      /\ Pointer[c] = Todo(pr[p]) /\ Pointer[d] = Todo2(pr[p])
      /\ Pointer[e] = file[f].ip
  BY PointerIs
<1>4. /\ Pointer'[a] = pr'[p].at /\ Pointer'[b] = pr'[p].ip
      /\ Pointer'[c] = Todo(pr'[p]) /\ Pointer'[d] = Todo2(pr'[p])
      /\ Pointer'[e] = file'[f].ip
  BY PointerNext
<1>5. Holders(i) = Count(Pointers, Pointer, i)
      /\ Holders(i)' = Count(Pointers, Pointer', i)
  BY DEF Holders, Count, Pointers
<1>6. Count(Pointers, Pointer, i) \in Nat
  BY CountType, PointersFinite
<1> HIDE DEF a, b, c, d, e
<1>7. Count(Pointers, Pointer', i) = Count(Pointers, Pointer, i)
        + (Is(Pointer'[a], i) + Is(Pointer'[b], i) + Is(Pointer'[c], i)
           + Is(Pointer'[d], i) + Is(Pointer'[e], i))
        - (Is(Pointer[a], i) + Is(Pointer[b], i) + Is(Pointer[c], i)
           + Is(Pointer[d], i) + Is(Pointer[e], i))
  BY ONLY <1>2, CountFive, PointersFinite
<1>8. \A x : Is(x, i) \in Nat
  BY DEF Is
<1> QED
  BY ONLY <1>3, <1>4, <1>5, <1>6, <1>7, <1>8 DEF Weight

\* The holders of an inode are counted.
LEMMA HoldersType == \A i : Holders(i) \in Nat
  BY PointersFinite, FS_Subset, FS_CardinalityType DEF Holders

\* One pointer to i is one holder, two are two.
LEMMA OneHolder ==
  ASSUME NEW i, NEW x \in Pointers, Pointer[x] = i
  PROVE  Holders(i) >= 1
<1> DEFINE S == {y \in Pointers : Pointer[y] = i}
<1>1. IsFiniteSet(S) /\ {x} \in SUBSET S
  BY PointersFinite, FS_Subset
<1>2. Cardinality({x}) = 1
  BY FS_Singleton
<1> QED
  BY <1>1, <1>2, FS_Subset, HoldersType DEF Holders

\* Two different pointers to an inode are two references.
LEMMA TwoHolders ==
  ASSUME NEW i, NEW x \in Pointers, NEW y \in Pointers, x # y,
         Pointer[x] = i, Pointer[y] = i
  PROVE  Holders(i) >= 2
<1> DEFINE S == {z \in Pointers : Pointer[z] = i}
<1>1. IsFiniteSet(S) /\ x \in S /\ y \in S \ {x}
  BY PointersFinite, FS_Subset
<1>2. IsFiniteSet(S \ {x}) /\ Cardinality(S \ {x}) = Cardinality(S) - 1
  BY <1>1, FS_RemoveElement
<1>3. Cardinality(S \ {x}) # 0 /\ Cardinality(S \ {x}) \in Nat
  BY <1>1, <1>2, FS_EmptySet, FS_CardinalityType
<1>4. Cardinality(S) \in Nat
  BY <1>1, FS_CardinalityType
<1> QED
  BY <1>2, <1>3, <1>4 DEF Holders
-----------------------------------------------------------------------------
\* The links of a disk.

\* The links of an inode are counted.
LEMMA LinksType ==
  ASSUME NEW d, NEW i
  PROVE  /\ IsFiniteSet(NamesOf(d, i)) /\ IsFiniteSet(Subdirs(d, i))
         /\ Cardinality(NamesOf(d, i)) \in Nat
         /\ Cardinality(Subdirs(d, i)) \in Nat /\ Links(d, i) \in Nat
<1>1. IsFiniteSet(Inums)
  BY FS_Interval, FileSysAssumption DEF Inums
<1>2. IsFiniteSet(Inums \X Names)
  BY <1>1, FS_Product, FileSysAssumption
<1>3. IsFiniteSet(NamesOf(d, i))
  BY <1>2, FS_Subset DEF NamesOf
<1>4. IsFiniteSet(Subdirs(d, i))
  BY <1>1, FS_Subset DEF Subdirs
<1> QED
  BY <1>3, <1>4, FS_CardinalityType DEF Links

\* A name or a subdirectory is a link.
LEMMA LinksPos ==
  ASSUME NEW d, NEW i, NamesOf(d, i) # {} \/ Subdirs(d, i) # {}
  PROVE  Links(d, i) >= 1
<1>1. Cardinality(NamesOf(d, i)) # 0 \/ Cardinality(Subdirs(d, i)) # 0
  BY LinksType, FS_EmptySet
<1> QED
  BY <1>1, LinksType DEF Links

\* Fewer names and subdirectories are fewer links.
LEMMA LinksLess ==
  ASSUME NEW d, NEW e, NEW i, NamesOf(e, i) \subseteq NamesOf(d, i),
         Subdirs(e, i) \subseteq Subdirs(d, i)
  PROVE  Links(e, i) <= Links(d, i)
<1>1. Cardinality(NamesOf(e, i)) <= Cardinality(NamesOf(d, i))
  BY LinksType, FS_Subset
<1>2. Cardinality(Subdirs(e, i)) <= Cardinality(Subdirs(d, i))
  BY LinksType, FS_Subset
<1> QED
  BY <1>1, <1>2, LinksType DEF Links

\* Whatever has a name, or is the parent of a directory with links, has links
\* itself, and is not free.
LEMMA NamedHasLinks ==
  ASSUME NEW d \in Disks, DiskOK(d), NEW i \in Inums
  PROVE  /\ \A x \in NamesOf(d, i) : d.nlink[i] > 0 /\ d.type[i] # "free"
         /\ \A x \in Subdirs(d, i) : d.nlink[i] > 0 /\ d.type[i] # "free"
<1>1. d.nlink[i] \in Nat
  BY DEF Disks
<1> QED
  BY <1>1, LinksPos, LinksType DEF DiskOK

\* The inode i loses its content or its type.
Cleared(d, e, i) ==
  /\ d.nlink[i] = 0 /\ e.nlink = d.nlink
  /\ \A j \in Inums \ {i} :
       e.type[j] = d.type[j] /\ e.dir[j] = d.dir[j] /\ e.up[j] = d.up[j]
  /\ e.type[i] \in {d.type[i], "free"}
  /\ \/ e.dir[i] = d.dir[i] /\ e.up[i] = d.up[i]
     \/ e.dir[i] = Empty /\ e.up[i] = 0

\* itrunc(), ifree() and ireclaim() of an inode without links keep the disk
\* sound: nothing refers to it.
LEMMA ClearedOK ==
  ASSUME NEW d \in Disks, NEW e \in Disks, NEW i \in Inums, DiskOK(d),
         Cleared(d, e, i)
  PROVE  DiskOK(e) /\ \A j \in Inums : Links(e, j) <= Links(d, j)
<1> USE DEF Cleared
<1>0. ROOTINO \in Inums /\ ROOTINO # i
  BY FileSysAssumption DEF ROOTINO, Inums, DiskOK
<1>1. \A j \in Inums : NamesOf(e, j) \subseteq NamesOf(d, j)
  <2> SUFFICES ASSUME NEW j \in Inums, NEW x \in NamesOf(e, j)
               PROVE  x \in NamesOf(d, j)
    OBVIOUS
  <2>1. /\ x \in Inums \X Names /\ e.type[x[1]] = "dir"
        /\ e.dir[x[1]][x[2]] = j
    BY DEF NamesOf
  <2>2. e.dir[x[1]] # Empty /\ x[1] \in Inums /\ x[2] \in Names
    BY <2>1 DEF Empty, Inums
  <2>3. e.dir[x[1]] = d.dir[x[1]] /\ d.type[x[1]] = "dir"
    BY <2>1, <2>2
  <2> QED
    BY <2>1, <2>3 DEF NamesOf
<1>2. \A j \in Inums : Subdirs(e, j) = Subdirs(d, j)
  BY DEF Subdirs
<1>3. \A j \in Inums : e.type[j] = "dir" => NamesOf(e, j) = NamesOf(d, j)
  <2> SUFFICES ASSUME NEW j \in Inums, e.type[j] = "dir",
                      NEW x \in NamesOf(d, j)
               PROVE  x \in NamesOf(e, j)
    BY <1>1
  <2>0. d.type[j] = "dir" /\ d.nlink[j] > 0
    BY NamedHasLinks
  <2>1. d.type[j] = "dir" /\ d.nlink[j] > 0 /\ x[1] = d.up[j]
    BY <2>0 DEF DiskOK
  <2>2. x \in Inums \X Names /\ d.type[x[1]] = "dir" /\ d.dir[x[1]][x[2]] = j
    BY DEF NamesOf
  <2>3. x[1] # i
    <3> SUFFICES ASSUME x[1] = i PROVE FALSE
      OBVIOUS
    <3>1. j \in Subdirs(d, i)
      BY <2>1 DEF Subdirs
    <3> QED
      BY <3>1, NamedHasLinks
  <2> QED
    BY <2>2, <2>3 DEF NamesOf
<1>4. \A j \in Inums : Links(e, j) <= Links(d, j)
  BY <1>1, <1>2, LinksLess
<1>5. \A j \in Inums : e.type[j] = "dir" => Links(e, j) = Links(d, j)
  BY <1>2, <1>3 DEF Links
<1>6. \A j \in Inums : Links(e, j) \in Nat /\ Links(d, j) \in Nat
                       /\ d.nlink[j] \in Nat
  BY LinksType DEF Disks
<1>a. \A j \in Inums : e.type[j] = "free" => e.nlink[j] = 0
  BY DEF DiskOK
<1>b. e.type[ROOTINO] = "dir" /\ e.up[ROOTINO] = ROOTINO
      /\ e.nlink[ROOTINO] > 0 /\ NamesOf(e, ROOTINO) = {}
  BY <1>0, <1>3 DEF DiskOK
<1>c. \A j \in Inums : e.nlink[j] >= Links(e, j)
  BY <1>4, <1>6 DEF DiskOK
<1>d. \A j \in Inums : e.type[j] = "dir" => e.nlink[j] = Links(e, j)
  BY <1>5 DEF DiskOK
<1>e. \A j \in Inums : e.type[j] = "dir" =>
        \A x, y \in NamesOf(e, j) : x[1] = e.up[j] /\ x = y
  <2> SUFFICES ASSUME NEW j \in Inums, e.type[j] = "dir",
                      NEW x \in NamesOf(e, j), NEW y \in NamesOf(e, j)
               PROVE  x[1] = e.up[j] /\ x = y
    OBVIOUS
  <2>1. d.type[j] = "dir" /\ x \in NamesOf(d, j) /\ y \in NamesOf(d, j)
    BY <1>1
  <2>2. j # i
    BY <2>1, NamedHasLinks
  <2> QED
    BY <2>1, <2>2 DEF DiskOK
<1>f. \A j \in Inums : e.type[j] = "dir" /\ e.nlink[j] > 0 =>
        e.up[j] # 0 /\ (j # ROOTINO => NamesOf(e, j) # {})
  BY <1>3 DEF DiskOK
<1> HIDE DEF Cleared
<1>7. DiskOK(e)
  BY <1>a, <1>b, <1>c, <1>d, <1>e, <1>f DEF DiskOK
<1> QED
  BY <1>4, <1>7

\* The free inode k gets a type, and no name yet.
Made(d, e, k) ==
  /\ d.type[k] = "free"
  /\ \A j \in Inums \ {k} :
       /\ e.type[j] = d.type[j] /\ e.dir[j] = d.dir[j] /\ e.up[j] = d.up[j]
       /\ e.nlink[j] = d.nlink[j]
  /\ e.type[k] \in {"file", "dir"} /\ e.nlink[k] = 0 /\ e.dir[k] = Empty

\* ialloc() keeps the disk sound.
LEMMA MadeOK ==
  ASSUME NEW d \in Disks, NEW e \in Disks, NEW k \in Inums, DiskOK(d),
         Made(d, e, k)
  PROVE  DiskOK(e) /\ \A j \in Inums : Links(e, j) = Links(d, j)
<1> USE DEF Made
<1>0. ROOTINO \in Inums /\ ROOTINO # k /\ d.nlink[k] = 0
  BY FileSysAssumption DEF ROOTINO, Inums, DiskOK
<1>1. \A j \in Inums : NamesOf(e, j) = NamesOf(d, j)
  <2> SUFFICES ASSUME NEW j \in Inums, NEW x \in Inums \X Names
               PROVE  x \in NamesOf(e, j) <=> x \in NamesOf(d, j)
    BY DEF NamesOf
  <2>1. CASE x[1] = k
    <3>1. e.dir[k][x[2]] = 0
      BY DEF Empty
    <3> QED
      BY <2>1, <3>1 DEF NamesOf, Inums
  <2>2. CASE x[1] # k
    BY <2>2 DEF NamesOf
  <2> QED
    BY <2>1, <2>2
<1>2. \A j \in Inums : Subdirs(e, j) = Subdirs(d, j)
  BY <1>0 DEF Subdirs
<1>3. \A j \in Inums : Links(e, j) = Links(d, j)
  BY <1>1, <1>2 DEF Links
<1>4. Links(d, k) = 0 /\ NamesOf(d, k) = {}
  <2>1. d.nlink[k] >= Links(d, k)
    BY DEF DiskOK
  <2> QED
    BY <1>0, <2>1, LinksType, LinksPos
<1> QED
  BY <1>0, <1>1, <1>3, <1>4 DEF DiskOK

\* The free inode k gets a type and the name n in the directory p.
Created(d, e, k, p, n) ==
  /\ d.type[k] = "free" /\ d.type[p] = "dir" /\ d.nlink[p] > 0
  /\ d.dir[p][n] = 0
  /\ \A j \in Inums \ {k} :
       /\ e.type[j] = d.type[j] /\ e.up[j] = d.up[j]
       /\ e.nlink[j] = d.nlink[j]
                         + IF j = p /\ e.type[k] = "dir" THEN 1 ELSE 0
       /\ \A m \in Names :
            e.dir[j][m] = IF j = p /\ m = n THEN k ELSE d.dir[j][m]
  /\ e.type[k] \in {"file", "dir"} /\ e.nlink[k] = 1 /\ e.dir[k] = Empty
  /\ e.type[k] = "dir" => e.up[k] = p

\* create() with the new name keeps the disk sound, and takes no link that
\* somebody else has counted.
LEMMA CreatedOK ==
  ASSUME NEW d \in Disks, NEW e \in Disks, NEW k \in Inums, NEW p \in Inums,
         NEW n \in Names, DiskOK(d), Created(d, e, k, p, n)
  PROVE  /\ DiskOK(e)
         /\ \A j \in Inums : e.nlink[j] - Links(e, j) >= d.nlink[j] - Links(d, j)
<1> USE DEF Created
<1>0. ROOTINO \in Inums /\ ROOTINO # k /\ d.nlink[k] = 0 /\ p # k
  BY FileSysAssumption DEF ROOTINO, Inums, DiskOK
<1>1. Links(d, k) = 0 /\ NamesOf(d, k) = {} /\ Subdirs(d, k) = {}
  <2>1. d.nlink[k] >= Links(d, k)
    BY DEF DiskOK
  <2> QED
    BY <1>0, <2>1, LinksType, LinksPos
<1>2. \A j \in Inums : NamesOf(e, j) =
        IF j = k THEN {<<p, n>>} ELSE NamesOf(d, j)
  <2>1. ASSUME NEW j \in Inums, NEW x \in Inums \X Names
        PROVE  x \in NamesOf(e, j) <=>
                 IF j = k THEN x = <<p, n>> ELSE x \in NamesOf(d, j)
    <3>1. CASE x[1] = k
      <4>1. e.dir[k][x[2]] = 0
        BY DEF Empty
      <4> QED
        BY <1>0, <3>1, <4>1 DEF NamesOf, Inums
    <3>2. CASE x[1] # k /\ x = <<p, n>>
      BY <1>0, <3>2 DEF NamesOf, Inums
    <3>3. CASE x[1] # k /\ x # <<p, n>>
      <4>1. ~(x[1] = p /\ x[2] = n) /\ x[1] \in Inums /\ x[2] \in Names
        BY <3>3
      <4>2. e.dir[x[1]][x[2]] = d.dir[x[1]][x[2]]
            /\ e.type[x[1]] = d.type[x[1]]
        BY <3>3, <4>1
      <4> QED
        BY <1>1, <3>3, <4>2 DEF NamesOf
    <3> QED
      BY <3>1, <3>2, <3>3
  <2>2. <<p, n>> \in Inums \X Names
    OBVIOUS
  <2> QED
    BY <2>1, <2>2 DEF NamesOf
<1>3. \A j \in Inums : Subdirs(e, j) =
        IF j = p /\ e.type[k] = "dir" THEN Subdirs(d, j) \cup {k}
        ELSE Subdirs(d, j)
  <2> SUFFICES ASSUME NEW j \in Inums, NEW i \in Inums
               PROVE  i \in Subdirs(e, j) <=>
                        \/ i \in Subdirs(d, j)
                        \/ i = k /\ j = p /\ e.type[k] = "dir"
    BY DEF Subdirs
  <2>1. CASE i = k
    BY <1>0, <2>1 DEF Subdirs
  <2>2. CASE i # k
    <3>1. e.nlink[i] > 0 <=> d.nlink[i] > 0
      BY <2>2 DEF Disks
    <3> QED
      BY <2>2, <3>1 DEF Subdirs
  <2> QED
    BY <2>1, <2>2
<1>4. k \notin Subdirs(d, p)
  BY <1>0 DEF Subdirs
<1>5. \A j \in Inums : Links(e, j) = Links(d, j)
        + (IF j = k THEN 1 ELSE 0)
        + (IF j = p /\ e.type[k] = "dir" THEN 1 ELSE 0)
  <2> SUFFICES ASSUME NEW j \in Inums
               PROVE  Links(e, j) = Links(d, j) + (IF j = k THEN 1 ELSE 0)
                        + (IF j = p /\ e.type[k] = "dir" THEN 1 ELSE 0)
    OBVIOUS
  <2>1. Cardinality(NamesOf(e, j)) =
          Cardinality(NamesOf(d, j)) + (IF j = k THEN 1 ELSE 0)
    <3>1. CASE j = k
      <4>1. NamesOf(e, j) = {<<p, n>>} /\ NamesOf(d, j) = {}
        BY <1>1, <1>2, <3>1
      <4>2. Cardinality(NamesOf(e, j)) = 1 /\ Cardinality(NamesOf(d, j)) = 0
        <5>1. Cardinality({<<p, n>>}) = 1
          BY FS_Singleton
        <5>2. Cardinality({}) = 0
          BY FS_EmptySet
        <5> QED
          BY ONLY <4>1, <5>1, <5>2
      <4> QED
        BY ONLY <3>1, <4>2
    <3>2. CASE j # k
      BY <1>2, <3>2, LinksType
    <3> QED
      BY <3>1, <3>2
  <2>2. Cardinality(Subdirs(e, j)) = Cardinality(Subdirs(d, j))
          + (IF j = p /\ e.type[k] = "dir" THEN 1 ELSE 0)
    BY <1>3, <1>4, LinksType, FS_AddElement
  <2> QED
    BY ONLY <2>1, <2>2, LinksType DEF Links
<1>6. \A j \in Inums : Links(d, j) \in Nat /\ d.nlink[j] \in Nat
  BY LinksType DEF Disks
<1>7. \A j \in Inums : e.nlink[j] - Links(e, j) >= d.nlink[j] - Links(d, j)
  BY <1>0, <1>1, <1>5, <1>6
<1>a. \A j \in Inums : e.type[j] = "free" => e.nlink[j] = 0
  BY DEF DiskOK
<1>b. e.type[ROOTINO] = "dir" /\ e.up[ROOTINO] = ROOTINO
      /\ e.nlink[ROOTINO] > 0 /\ NamesOf(e, ROOTINO) = {}
  BY <1>0, <1>2, <1>6 DEF DiskOK
<1>c. \A j \in Inums : e.nlink[j] >= Links(e, j)
  BY <1>0, <1>1, <1>5, <1>6 DEF DiskOK
<1>d. \A j \in Inums : e.type[j] = "dir" => e.nlink[j] = Links(e, j)
  BY <1>0, <1>1, <1>5, <1>6 DEF DiskOK
<1>e. \A j \in Inums : e.type[j] = "dir" =>
        \A x, y \in NamesOf(e, j) : x[1] = e.up[j] /\ x = y
  BY <1>2 DEF DiskOK
<1>f. \A j \in Inums : e.type[j] = "dir" /\ e.nlink[j] > 0 =>
        e.up[j] # 0 /\ (j # ROOTINO => NamesOf(e, j) # {})
  <2> SUFFICES ASSUME NEW j \in Inums, e.type[j] = "dir", e.nlink[j] > 0
               PROVE  e.up[j] # 0 /\ (j # ROOTINO => NamesOf(e, j) # {})
    OBVIOUS
  <2>1. CASE j = k
    <3>1. e.up[k] = p /\ p # 0
      BY <2>1 DEF Inums
    <3>2. NamesOf(e, j) = {<<p, n>>}
      BY <1>2, <2>1
    <3> QED
      BY <2>1, <3>1, <3>2
  <2>2. CASE j # k
    <3>1. d.nlink[j] > 0
      BY <2>2, <1>6
    <3> QED
      BY <1>2, <2>2, <3>1 DEF DiskOK
  <2> QED
    BY <2>1, <2>2
<1> HIDE DEF Created
<1> QED
  BY <1>7, <1>a, <1>b, <1>c, <1>d, <1>e, <1>f DEF DiskOK

\* The entry n of the directory p, which names k, is erased.
Unlinked(d, e, k, p, n) ==
  /\ d.type[p] = "dir" /\ d.dir[p][n] = k
  /\ d.type[k] = "dir" => d.dir[k] = Empty
  /\ e.type = d.type /\ e.up = d.up
  /\ \A j \in Inums :
       /\ e.nlink[j] = d.nlink[j] - (IF j = k THEN 1 ELSE 0)
                         - (IF j = p /\ d.type[k] = "dir" THEN 1 ELSE 0)
       /\ \A m \in Names :
            e.dir[j][m] = IF j = p /\ m = n THEN 0 ELSE d.dir[j][m]

\* A directory that is erased is empty, so that it has one link, the name.
LEMMA UnlinkedCounts ==
  ASSUME NEW d \in Disks, NEW k \in Inums, NEW p \in Inums, NEW n \in Names,
         DiskOK(d), d.type[p] = "dir", d.dir[p][n] = k,
         d.type[k] = "dir" => d.dir[k] = Empty
  PROVE  /\ <<p, n>> \in NamesOf(d, k) /\ k # ROOTINO /\ p # k
         /\ d.nlink[k] >= 1 /\ d.type[k] # "free"
         /\ d.type[k] = "dir" =>
              /\ d.nlink[k] = 1 /\ d.nlink[p] >= 2
              /\ k \in Subdirs(d, p) /\ NamesOf(d, k) = {<<p, n>>}
              /\ Subdirs(d, k) = {}
<1>0. ROOTINO \in Inums
  BY FileSysAssumption DEF ROOTINO, Inums
<1>1. <<p, n>> \in NamesOf(d, k)
  BY DEF NamesOf
<1>2. k # ROOTINO
  BY <1>1 DEF DiskOK
<1>3. d.nlink[k] >= 1 /\ d.type[k] # "free" /\ \A j \in Inums : d.nlink[j] \in Nat
  <2>1. d.nlink[k] > 0 /\ d.type[k] # "free"
    BY <1>1, NamedHasLinks
  <2>2. \A j \in Inums : d.nlink[j] \in Nat
    BY DEF Disks
  <2> QED
    BY <2>1, <2>2
<1>4. p # k
  <2> SUFFICES ASSUME p = k PROVE FALSE
    OBVIOUS
  <2>1. d.dir[k][n] = 0
    BY DEF Empty
  <2> QED
    BY <2>1 DEF Inums
<1>5. ASSUME d.type[k] = "dir"
      PROVE  /\ d.nlink[k] = 1 /\ d.nlink[p] >= 2
             /\ k \in Subdirs(d, p) /\ NamesOf(d, k) = {<<p, n>>}
             /\ Subdirs(d, k) = {}
  <2>1. NamesOf(d, k) = {<<p, n>>} /\ d.up[k] = p
    BY <1>1, <1>5 DEF DiskOK
  <2>2. ASSUME NEW j \in Subdirs(d, k) PROVE FALSE
    <3>1. j \in Inums /\ d.type[j] = "dir" /\ d.up[j] = k /\ d.nlink[j] > 0
      BY DEF Subdirs
    <3>2. j # ROOTINO
      BY <1>2, <3>1 DEF DiskOK
    <3>3. PICK x \in NamesOf(d, j) : x[1] = k
      BY <3>1, <3>2 DEF DiskOK
    <3>4. x[2] \in Names /\ d.dir[k][x[2]] = j
      BY <3>3 DEF NamesOf
    <3> QED
      BY <1>5, <3>1, <3>4 DEF Empty, Inums
  <2>3. d.nlink[k] = 1
    <3>1. Cardinality(NamesOf(d, k)) = 1
      BY <2>1, FS_Singleton
    <3>2. Cardinality(Subdirs(d, k)) = 0
      BY <2>2, FS_EmptySet
    <3> QED
      BY <1>5, <3>1, <3>2 DEF DiskOK, Links
  <2>4. k \in Subdirs(d, p)
    BY <1>5, <2>1, <2>3 DEF Subdirs
  <2>5. Cardinality(Subdirs(d, p)) >= 1
    BY <2>4, LinksType, FS_EmptySet
  <2>6. Links(d, p) >= 2
    <3>1. CASE p = ROOTINO
      <4>1. ROOTINO \in Subdirs(d, p)
        BY <1>0, <3>1 DEF Subdirs, DiskOK
      <4>2. /\ IsFiniteSet(Subdirs(d, p) \ {k})
            /\ Cardinality(Subdirs(d, p) \ {k}) = Cardinality(Subdirs(d, p)) - 1
        BY <2>4, LinksType, FS_RemoveElement
      <4>3. Subdirs(d, p) \ {k} # {}
        BY <1>2, <4>1
      <4>4. Cardinality(Subdirs(d, p) \ {k}) \in Nat \ {0}
        BY <4>2, <4>3, FS_EmptySet, FS_CardinalityType
      <4> QED
        BY <4>2, <4>4, LinksType DEF Links
    <3>2. CASE p # ROOTINO
      <4>1. d.nlink[p] > 0
        BY <2>4, NamedHasLinks
      <4>2. NamesOf(d, p) # {}
        BY <3>2, <4>1 DEF DiskOK
      <4>3. Cardinality(NamesOf(d, p)) # 0
        BY <4>2, LinksType, FS_EmptySet
      <4> QED
        BY <2>5, <4>3, LinksType DEF Links
    <3> QED
      BY <3>1, <3>2
  <2>7. d.nlink[p] >= 2
    BY <2>6 DEF DiskOK
  <2> QED
    BY <2>1, <2>2, <2>3, <2>4, <2>7
<1> QED
  BY <1>1, <1>2, <1>3, <1>4, <1>5

\* sys_unlink() keeps the disk sound, and takes one link per entry it erases.
LEMMA UnlinkedOK ==
  ASSUME NEW d \in Disks, NEW e \in Disks, NEW k \in Inums, NEW p \in Inums,
         NEW n \in Names, DiskOK(d), Unlinked(d, e, k, p, n)
  PROVE  /\ DiskOK(e)
         /\ \A j \in Inums : e.nlink[j] - Links(e, j) >= d.nlink[j] - Links(d, j)
<1>0. /\ d.type[p] = "dir" /\ d.dir[p][n] = k
      /\ d.type[k] = "dir" => d.dir[k] = Empty
      /\ e.type = d.type /\ e.up = d.up
  BY DEF Unlinked
<1>1. /\ <<p, n>> \in NamesOf(d, k) /\ k # ROOTINO /\ p # k
      /\ d.nlink[k] >= 1 /\ d.type[k] # "free"
      /\ d.type[k] = "dir" =>
           /\ d.nlink[k] = 1 /\ d.nlink[p] >= 2
           /\ k \in Subdirs(d, p) /\ NamesOf(d, k) = {<<p, n>>}
           /\ Subdirs(d, k) = {}
  BY <1>0, UnlinkedCounts
<1>2. \A j \in Inums : /\ d.nlink[j] \in Nat /\ e.nlink[j] \in Nat
                       /\ Links(d, j) \in Nat /\ Links(e, j) \in Nat
  BY LinksType DEF Disks
<1>3. \A j \in Inums : e.nlink[j] = d.nlink[j] - (IF j = k THEN 1 ELSE 0)
                         - (IF j = p /\ d.type[k] = "dir" THEN 1 ELSE 0)
  BY DEF Unlinked
<1>4. ROOTINO \in Inums
  BY FileSysAssumption DEF ROOTINO, Inums
<1>5. \A j \in Inums : NamesOf(e, j) = NamesOf(d, j) \ {<<p, n>>}
  <2> SUFFICES ASSUME NEW j \in Inums, NEW x \in Inums \X Names
               PROVE  x \in NamesOf(e, j) <=>
                        x \in NamesOf(d, j) /\ x # <<p, n>>
    BY DEF NamesOf
  <2>1. CASE x = <<p, n>>
    <3>1. e.dir[p][n] = 0
      BY DEF Unlinked
    <3> QED
      BY <2>1, <3>1 DEF NamesOf, Inums
  <2>2. CASE x # <<p, n>>
    <3>1. ~(x[1] = p /\ x[2] = n) /\ x[1] \in Inums /\ x[2] \in Names
      BY <2>2
    <3>2. e.dir[x[1]][x[2]] = d.dir[x[1]][x[2]]
      BY <3>1 DEF Unlinked
    <3> QED
      BY <1>0, <2>2, <3>2 DEF NamesOf
  <2> QED
    BY <2>1, <2>2
<1>6. \A j \in Inums : Subdirs(e, j) =
        IF d.type[k] = "dir" THEN Subdirs(d, j) \ {k} ELSE Subdirs(d, j)
  <2> SUFFICES ASSUME NEW j \in Inums, NEW i \in Inums
               PROVE  i \in Subdirs(e, j) <=>
                        i \in Subdirs(d, j) /\ ~(i = k /\ d.type[k] = "dir")
    BY DEF Subdirs
  <2>1. CASE i = k
    BY <1>0, <1>1, <1>3, <2>1 DEF Subdirs
  <2>2. CASE i # k
    <3>1. e.nlink[i] > 0 <=> d.nlink[i] > 0
      BY <1>1, <1>2, <1>3, <2>2
    <3> QED
      BY <1>0, <2>2, <3>1 DEF Subdirs
  <2> QED
    BY <2>1, <2>2
<1>7. \A j \in Inums \ {k} : NamesOf(e, j) = NamesOf(d, j)
  BY <1>0, <1>5 DEF NamesOf
<1>8. ASSUME NEW j \in Inums
      PROVE  Links(e, j) = Links(d, j) - (IF j = k THEN 1 ELSE 0)
               - (IF j = p /\ d.type[k] = "dir" THEN 1 ELSE 0)
  <2>1. Cardinality(NamesOf(e, j)) =
          Cardinality(NamesOf(d, j)) - (IF j = k THEN 1 ELSE 0)
    <3>1. CASE j = k
      BY <1>1, <1>5, <3>1, LinksType, FS_RemoveElement
    <3>2. CASE j # k
      BY <1>7, <3>2, LinksType
    <3> QED
      BY <3>1, <3>2
  <2>2. Cardinality(Subdirs(e, j)) = Cardinality(Subdirs(d, j))
          - (IF j = p /\ d.type[k] = "dir" THEN 1 ELSE 0)
    <3>1. CASE j = p /\ d.type[k] = "dir"
      BY <1>1, <1>6, <3>1, LinksType, FS_RemoveElement
    <3>2. CASE ~(j = p /\ d.type[k] = "dir")
      <4>1. Subdirs(e, j) = Subdirs(d, j)
        <5>1. CASE d.type[k] # "dir"
          BY <1>6, <5>1
        <5>2. CASE d.type[k] = "dir" /\ j # p
          <6>1. k \notin Subdirs(d, j)
            BY <1>1, <5>2 DEF Subdirs
          <6> QED
            BY <1>6, <5>2, <6>1
        <5> QED
          BY <3>2, <5>1, <5>2
      <4> QED
        BY <3>2, <4>1, LinksType
    <3> QED
      BY <3>1, <3>2
  <2> QED
    BY ONLY <2>1, <2>2, LinksType DEF Links
<1>9. \A j \in Inums : e.nlink[j] - Links(e, j) = d.nlink[j] - Links(d, j)
  BY <1>2, <1>3, <1>8
<1>a. \A j \in Inums : e.type[j] = "free" => e.nlink[j] = 0
  <2> SUFFICES ASSUME NEW j \in Inums, d.type[j] = "free"
               PROVE  e.nlink[j] = 0
    BY <1>0
  <2>1. j # k /\ j # p /\ d.nlink[j] = 0
    BY <1>0, <1>1 DEF DiskOK
  <2> QED
    BY <1>3, <2>1
<1>b. e.type[ROOTINO] = "dir" /\ e.up[ROOTINO] = ROOTINO
      /\ e.nlink[ROOTINO] > 0 /\ NamesOf(e, ROOTINO) = {}
  <2>1. e.nlink[ROOTINO] > 0
    <3>1. d.nlink[ROOTINO] > 0
      BY DEF DiskOK
    <3> QED
      BY <1>1, <1>2, <1>3, <1>4, <3>1
  <2> QED
    BY <1>0, <1>1, <1>4, <1>7, <2>1 DEF DiskOK
<1>c. \A j \in Inums : e.nlink[j] >= Links(e, j)
  <2>1. \A j \in Inums : d.nlink[j] >= Links(d, j)
    BY DEF DiskOK
  <2> QED
    BY <1>2, <1>9, <2>1
<1>d. \A j \in Inums : e.type[j] = "dir" => e.nlink[j] = Links(e, j)
  <2>1. \A j \in Inums : e.type[j] = "dir" => d.nlink[j] = Links(d, j)
    BY <1>0 DEF DiskOK
  <2> QED
    BY <1>2, <1>9, <2>1
<1>e. \A j \in Inums : e.type[j] = "dir" =>
        \A x, y \in NamesOf(e, j) : x[1] = e.up[j] /\ x = y
  BY <1>0, <1>5 DEF DiskOK
<1>f. \A j \in Inums : e.type[j] = "dir" /\ e.nlink[j] > 0 =>
        e.up[j] # 0 /\ (j # ROOTINO => NamesOf(e, j) # {})
  <2> SUFFICES ASSUME NEW j \in Inums, d.type[j] = "dir", e.nlink[j] > 0
               PROVE  d.up[j] # 0 /\ (j # ROOTINO => NamesOf(e, j) # {})
    BY <1>0
  <2>1. j # k /\ d.nlink[j] > 0
    BY <1>1, <1>2, <1>3
  <2> QED
    BY <1>7, <2>1 DEF DiskOK
<1> QED
  BY <1>2, <1>9, <1>a, <1>b, <1>c, <1>d, <1>e, <1>f DEF DiskOK

\* The file k gets the link count m.
Relinked(d, e, k, m) ==
  /\ d.type[k] = "file" /\ e.type = d.type /\ e.up = d.up /\ e.dir = d.dir
  /\ e.nlink[k] = m /\ \A j \in Inums \ {k} : e.nlink[j] = d.nlink[j]

\* sys_link() may count more links of a file than there are entries.
LEMMA RelinkedOK ==
  ASSUME NEW d \in Disks, NEW e \in Disks, NEW k \in Inums, DiskOK(d),
         NEW m \in Nat, m >= Links(d, k), Relinked(d, e, k, m)
  PROVE  DiskOK(e) /\ \A j \in Inums : Links(e, j) = Links(d, j)
<1> USE DEF Relinked
<1>1. \A j \in Inums : NamesOf(e, j) = NamesOf(d, j)
  BY DEF NamesOf
<1>2. \A j \in Inums : Subdirs(e, j) = Subdirs(d, j)
  BY DEF Subdirs
<1>3. \A j \in Inums : Links(e, j) = Links(d, j)
  BY <1>1, <1>2 DEF Links
<1>4. ROOTINO \in Inums
  BY FileSysAssumption DEF ROOTINO, Inums
<1> QED
  BY <1>1, <1>3, <1>4 DEF DiskOK

\* The file k gets the name n in the directory p.
Entered(d, e, k, p, n) ==
  /\ d.type[k] = "file" /\ d.type[p] = "dir" /\ d.dir[p][n] = 0
  /\ e.type = d.type /\ e.up = d.up /\ e.nlink = d.nlink
  /\ d.nlink[k] > Links(d, k)
  /\ \A j \in Inums : \A m \in Names :
       e.dir[j][m] = IF j = p /\ m = n THEN k ELSE d.dir[j][m]

\* dirlink() of a link counted before keeps the disk sound.
LEMMA EnteredOK ==
  ASSUME NEW d \in Disks, NEW e \in Disks, NEW k \in Inums, NEW p \in Inums,
         NEW n \in Names, DiskOK(d), Entered(d, e, k, p, n)
  PROVE  /\ DiskOK(e) /\ Links(e, k) = Links(d, k) + 1
         /\ \A j \in Inums \ {k} : Links(e, j) = Links(d, j)
<1> USE DEF Entered
<1>0. ROOTINO \in Inums /\ ROOTINO # k
  BY FileSysAssumption DEF ROOTINO, Inums, DiskOK
<1>1. \A j \in Inums : NamesOf(e, j) =
        IF j = k THEN NamesOf(d, j) \cup {<<p, n>>} ELSE NamesOf(d, j)
  <2> SUFFICES ASSUME NEW j \in Inums, NEW x \in Inums \X Names
               PROVE  x \in NamesOf(e, j) <=>
                        x \in NamesOf(d, j) \/ (j = k /\ x = <<p, n>>)
    BY DEF NamesOf
  <2>1. CASE x = <<p, n>>
    BY <2>1 DEF NamesOf, Inums
  <2>2. CASE x # <<p, n>>
    <3>1. ~(x[1] = p /\ x[2] = n) /\ x[1] \in Inums /\ x[2] \in Names
      BY <2>2
    <3>2. e.dir[x[1]][x[2]] = d.dir[x[1]][x[2]]
      BY <3>1
    <3> QED
      BY <2>2, <3>2 DEF NamesOf
  <2> QED
    BY <2>1, <2>2
<1>2. \A j \in Inums : Subdirs(e, j) = Subdirs(d, j)
  BY DEF Subdirs
<1>3. <<p, n>> \notin NamesOf(d, k)
  BY DEF NamesOf, Inums
<1>4. \A j \in Inums \ {k} : Links(e, j) = Links(d, j)
  BY <1>1, <1>2 DEF Links
<1>5. Links(e, k) = Links(d, k) + 1
  <2>1. NamesOf(e, k) = NamesOf(d, k) \cup {<<p, n>>}
    BY <1>1
  <2> HIDE DEF Entered
  <2>2. Cardinality(NamesOf(e, k)) = Cardinality(NamesOf(d, k)) + 1
    BY <1>3, <2>1, LinksType, FS_AddElement
  <2> QED
    BY <1>2, <2>2, LinksType DEF Links
<1>6. \A j \in Inums : Links(d, j) \in Nat /\ d.nlink[j] \in Nat
  BY LinksType DEF Disks
<1>7. \A j \in Inums : e.nlink[j] >= Links(e, j)
  <2>1. \A j \in Inums \ {k} : e.nlink[j] >= Links(e, j)
    BY <1>4 DEF DiskOK
  <2>2. e.nlink[k] >= Links(e, k)
    BY <1>5, <1>6
  <2> QED
    BY <2>1, <2>2
<1>8. \A j \in Inums : d.type[j] = "dir" => NamesOf(e, j) = NamesOf(d, j)
                                            /\ Links(e, j) = Links(d, j)
  BY <1>1, <1>4
<1> QED
  BY <1>0, <1>4, <1>5, <1>7, <1>8 DEF DiskOK
-----------------------------------------------------------------------------
\* The inode table.

\* The entry of inode i once ilock() has read it.
Entry(n, d, i) ==
  [ref |-> n, valid |-> TRUE, type |-> d.type[i], nlink |-> d.nlink[i]]

\* ilock() makes the entry what the disk says.
LEMMA IlockIs ==
  ASSUME TypeOK, Table, NEW i \in Inums
  PROVE  /\ Ilock(inode, disk, i) =
              [inode EXCEPT ![i] = Entry(inode[i].ref, disk, i)]
         /\ Entry(inode[i].ref, disk, i) \in Entries
<1>1. inode \in [Inums -> Entries] /\ disk \in Disks
  BY DEF TypeOK
<1>2. inode[i] \in Entries /\ disk.type[i] \in Types /\ disk.nlink[i] \in Nat
  BY <1>1 DEF Disks
<1>3. Entry(inode[i].ref, disk, i) \in Entries
  BY <1>2 DEF Entry, Entries
<1>4. CASE inode[i].valid
  <2>1. inode[i] = Entry(inode[i].ref, disk, i)
    BY <1>2, <1>4 DEF Entry, Entries, Table, TableAt
  <2> QED
    BY <1>1, <1>3, <1>4, <2>1 DEF Ilock
<1>5. CASE ~inode[i].valid
  <2>1. [inode EXCEPT ![i].valid = TRUE, ![i].type = disk.type[i],
                 ![i].nlink = disk.nlink[i]]
          = [inode EXCEPT ![i] = Entry(inode[i].ref, disk, i)]
    <3> DEFINE t == [inode EXCEPT ![i].valid = TRUE, ![i].type = disk.type[i],
                                  ![i].nlink = disk.nlink[i]]
    <3>1. t \in [Inums -> Entries]
      BY <1>1, <1>2 DEF Entries
    <3>2. t[i] = Entry(inode[i].ref, disk, i)
      BY <1>1, <1>2 DEF Entry, Entries
    <3>3. \A j \in Inums \ {i} : t[j] = inode[j]
      BY <1>1
    <3> HIDE DEF t
    <3>4. t = [inode EXCEPT ![i] = Entry(inode[i].ref, disk, i)]
      BY <1>1, <3>1, <3>2, <3>3
    <3> QED
      BY <3>4 DEF t
  <2> QED
    BY <1>3, <1>5, <2>1 DEF Ilock
<1> QED
  BY <1>4, <1>5

\* iget() and ref-- of an entry.
More(e) == IF e.ref > 0 THEN [e EXCEPT !.ref = @ + 1]
           ELSE [Unused EXCEPT !.ref = 1]
Less(e) == IF e.ref = 1 THEN Unused ELSE [e EXCEPT !.ref = @ - 1]

\* iget() adds a reference.
LEMMA IgetIs ==
  ASSUME NEW t \in [Inums -> Entries], NEW i \in Inums
  PROVE  /\ Iget(t, i) = [t EXCEPT ![i] = More(t[i])]
         /\ Iget(t, i) \in [Inums -> Entries]
         /\ More(t[i]).ref = t[i].ref + 1
<1>1. t[i] \in Entries
  OBVIOUS
<1>2. More(t[i]) \in Entries /\ More(t[i]).ref = t[i].ref + 1
  <2>1. CASE t[i].ref > 0
    BY <1>1, <2>1 DEF More, Entries
  <2>2. CASE ~(t[i].ref > 0)
    <3>1. t[i].ref = 0
      BY <1>1, <2>2 DEF Entries
    <3>2. [Unused EXCEPT !.ref = 1] \in Entries
      BY DEF Unused, Entries, Types
    <3>3. [Unused EXCEPT !.ref = 1].ref = 1
      BY DEF Unused
    <3> QED
      BY <2>2, <3>1, <3>2, <3>3 DEF More
  <2> QED
    BY <2>1, <2>2
<1>3. Iget(t, i) = [t EXCEPT ![i] = More(t[i])]
  BY DEF Iget, More
<1> QED
  BY <1>2, <1>3

\* A dropped reference takes one away.
LEMMA DropIs ==
  ASSUME NEW t \in [Inums -> Entries], NEW i \in Inums, t[i].ref >= 1
  PROVE  /\ Drop(t, i) = [t EXCEPT ![i] = Less(t[i])]
         /\ Drop(t, i) \in [Inums -> Entries]
         /\ Less(t[i]).ref = t[i].ref - 1
<1>1. t[i] \in Entries
  OBVIOUS
<1>2. Less(t[i]) \in Entries /\ Less(t[i]).ref = t[i].ref - 1
  BY <1>1 DEF Less, Unused, Entries, Types
<1>3. Drop(t, i) = [t EXCEPT ![i] = Less(t[i])]
  BY DEF Drop, Less
<1> QED
  BY <1>2, <1>3

\* A new link count in the table changes this entry alone.
LEMMA TableLinkIs ==
  ASSUME NEW t \in [Inums -> Entries], NEW i \in Inums, NEW n \in Nat
  PROVE  /\ TableLink(t, i, n) = [t EXCEPT ![i] = [t[i] EXCEPT !.nlink = n]]
         /\ TableLink(t, i, n) \in [Inums -> Entries]
<1>1. t[i] \in Entries
  OBVIOUS
<1>2. [t[i] EXCEPT !.nlink = n] \in Entries
  BY <1>1 DEF Entries
<1> QED
  BY <1>2 DEF TableLink
-----------------------------------------------------------------------------
\* What holds an inode.

Freed(p) ==
  {i \in Inums : \E q \in Procs \ {p} : pr[q].fr # "no"
                                       /\ Head(pr[q].todo) = i}

\* What somebody points to is in the table and not free, and nobody else is
\* freeing it.
LEMMA Held ==
  ASSUME IInv, NEW i \in Inums, NEW x \in Pointers, Pointer[x] = i
  PROVE  /\ inode[i].ref >= 1 /\ disk.type[i] # "free" /\ HasType(i)
         /\ \A q \in Procs :
              pr[q].fr # "no" /\ Head(pr[q].todo) = i => x = <<"todo", q>>
<1>1. inode[i].ref = Holders(i) /\ inode[i].ref >= 1
  BY OneHolder DEF IInv, Refs
<1>2. inode[i].ref > 0
  BY <1>1, HoldersType
<1>3. disk.type[i] # "free"
  BY <1>2 DEF IInv, Table, TableAt
<1>4. HasType(i)
  <2>1. Ilock(inode, disk, i)[i] = Entry(inode[i].ref, disk, i)
    BY IlockIs DEF IInv, TypeOK
  <2> QED
    BY <1>3, <2>1 DEF HasType, Entry
<1>5. ASSUME NEW q \in Procs, pr[q].fr # "no", Head(pr[q].todo) = i
      PROVE  x = <<"todo", q>>
  <2>1. pr[q] \in Records /\ Shape(pr[q]) /\ FreeingBy(q)
    BY DEF IInv, TypeOK, Shapes, Freeing
  <2>2. pr[q].todo # <<>>
    BY <1>5, <2>1 DEF Shape
  <2>3. CASE pr[q].fr = "free"
    BY <1>2, <1>5, <2>1, <2>3 DEF FreeingBy
  <2>4. CASE pr[q].fr # "free"
    <3>1. pr[q].fr \in {"trunc", "drop"}
      BY <1>5, <2>1, <2>4 DEF Records
    <3>2. inode[i].ref = 1
      BY <1>5, <2>1, <3>1 DEF FreeingBy
    <3>3. Todo(pr[q]) = i
      BY <1>5, <2>2, <2>4 DEF Todo
    <3>4. <<"todo", q>> \in Pointers /\ Pointer[<<"todo", q>>] = i
      BY <3>3, PointerIs DEF Pointers
    <3>5. CASE x # <<"todo", q>>
      <4>1. Holders(i) >= 2
        BY <3>4, <3>5, TwoHolders
      <4> QED
        BY <1>1, <3>2, <4>1
    <3> QED
      BY <3>5
  <2> QED
    BY <2>3, <2>4
<1> QED
  BY <1>1, <1>3, <1>4, <1>5

\* What p or a file points to is not freed by anybody else.
Mine(p, i) ==
  \/ cwd[p] = i \/ pr[p].at = i \/ pr[p].ip = i
  \/ Todo(pr[p]) = i \/ Todo2(pr[p]) = i
  \/ \E f \in Files : file[f].ip = i

\* The same of the inodes a process works on.
LEMMA MineHeld ==
  ASSUME IInv, NEW p \in Procs, NEW i \in Inums, Mine(p, i)
  PROVE  /\ inode[i].ref >= 1 /\ disk.type[i] # "free" /\ HasType(i)
         /\ i \notin Freed(p)
<1>1. PICK x \in Pointers : Pointer[x] = i /\ \A q \in Procs \ {p} : x # <<"todo", q>>
  <2>1. CASE cwd[p] = i
    <3>1. <<"cwd", p>> \in Pointers /\ Pointer[<<"cwd", p>>] = i
      BY <2>1, PointerIs DEF Pointers
    <3> QED
      BY <3>1
  <2>2. CASE pr[p].at = i
    <3>1. <<"at", p>> \in Pointers /\ Pointer[<<"at", p>>] = i
      BY <2>2, PointerIs DEF Pointers
    <3> QED
      BY <3>1
  <2>3. CASE pr[p].ip = i
    <3>1. <<"ip", p>> \in Pointers /\ Pointer[<<"ip", p>>] = i
      BY <2>3, PointerIs DEF Pointers
    <3> QED
      BY <3>1
  <2>4. CASE Todo(pr[p]) = i
    <3>1. <<"todo", p>> \in Pointers /\ Pointer[<<"todo", p>>] = i
      BY <2>4, PointerIs DEF Pointers
    <3> QED
      BY <3>1
  <2>5. CASE Todo2(pr[p]) = i
    <3>1. <<"todo2", p>> \in Pointers /\ Pointer[<<"todo2", p>>] = i
      BY <2>5, PointerIs DEF Pointers
    <3> QED
      BY <3>1
  <2>6. CASE \E f \in Files : file[f].ip = i
    <3>0. PICK f \in Files : file[f].ip = i
      BY <2>6
    <3>1. <<"file", f>> \in Pointers /\ Pointer[<<"file", f>>] = i
      BY <3>0, PointerIs DEF Pointers
    <3> QED
      BY <3>1
  <2> QED
    BY <2>1, <2>2, <2>3, <2>4, <2>5, <2>6 DEF Mine
<1>2. /\ inode[i].ref >= 1 /\ disk.type[i] # "free" /\ HasType(i)
      /\ \A q \in Procs :
           pr[q].fr # "no" /\ Head(pr[q].todo) = i => x = <<"todo", q>>
  BY <1>1, Held
<1> QED
  BY <1>1, <1>2 DEF Freed

\* Neither is an inode with links, nor a free one.
LEMMA LinkedSafe ==
  ASSUME IInv, NEW p \in Procs, NEW i \in Inums,
         disk.nlink[i] # 0 \/ disk.type[i] = "free"
  PROVE  i \notin Freed(p)
  BY DEF Freed, IInv, Freeing, FreeingBy
-----------------------------------------------------------------------------
\* Only iput() of the last reference makes an entry invalid.
Keeps(p, i) ==
  inode[i].valid =>
    inode'[i].valid \/ (inode[i].ref = 1 /\ Todo(pr[p]) = i)

\* A step of p disturbs the inodes of T only, and nothing that somebody else
\* has locked, holds or frees.
Touches(p, T) ==
  /\ \A i \in Inums \ T : /\ inode'[i] = inode[i]
                          /\ disk'.type[i] = disk.type[i]
                          /\ disk'.nlink[i] = disk.nlink[i]
  /\ \A i \in T : i \notin Freed(p)
  /\ \A i \in Inums : inode[i].ref > 0 => disk'.type[i] = disk.type[i]
  /\ \A i \in Inums : inode[i].ref > 0 /\ lock[i] \notin {p, NoProc} =>
                        disk'.dir[i] = disk.dir[i]
  /\ \A i \in Inums : lock[i] \notin {p, NoProc} => lock'[i] = lock[i]
  /\ \A i \in Inums : Keeps(p, i)

\* What the step has to establish for these inodes and for p.
Leaves(p, T) ==
  /\ LockedBy(p)' /\ DirsOf(p)' /\ FreeingBy(p)'
  /\ \A i \in T : TableAt(i)'
  /\ \A i \in T : i \in Orphans(disk)' => Noticed(i)'
  /\ pr[p].fr \in {"drop", "free"} => Head(pr[p].todo) \in T

\* One process takes a step.
Moves(p, r) ==
  /\ pr' = [pr EXCEPT ![p] = r] /\ r \in Records /\ Shape(r)
  /\ ~booting /\ booting' = booting

\* A step of one process leaves the others where they are.
LEMMA MovesIs ==
  ASSUME IInv, NEW p \in Procs, NEW r, Moves(p, r)
  PROVE  /\ pr'[p] = r /\ \A q \in Procs \ {p} : pr'[q] = pr[q]
         /\ pr' \in [Procs -> Records]
  BY DEF Moves, IInv, TypeOK

\* A step that touches only the inodes of T, and leaves those sound, keeps
\* the invariant: the others' inodes, locks and frees are as before.
LEMMA StepOK ==
  ASSUME IInv, NEW p \in Procs, NEW r, NEW T \in SUBSET Inums,
         Moves(p, r), TypeOK', DiskOK(disk)', DiskOK(saved)', Counted',
         Refs', FileTable', Touches(p, T), Leaves(p, T)
  PROVE  IInv'
<1>0. pr'[p] = r /\ \A q \in Procs \ {p} : pr'[q] = pr[q]
  BY MovesIs
<1>1. Shapes'
  BY <1>0 DEF Moves, IInv, Shapes
<1>2. Table'
  <2> SUFFICES ASSUME NEW i \in Inums PROVE TableAt(i)'
    BY DEF Table
  <2>1. CASE i \in T
    BY <2>1 DEF Leaves
  <2>2. CASE i \notin T
    <3>1. /\ inode'[i] = inode[i] /\ disk'.type[i] = disk.type[i]
          /\ disk'.nlink[i] = disk.nlink[i]
      BY <2>2 DEF Touches
    <3>2. TableAt(i)
      BY DEF IInv, Table
    <3> QED
      BY <3>1, <3>2 DEF TableAt
  <2> QED
    BY <2>1, <2>2
<1>a. ASSUME NEW q \in Procs \ {p}
      PROVE  /\ pr'[q] = pr[q] /\ pr[q] \in Records /\ Shape(pr[q])
             /\ LockedBy(q) /\ DirsOf(q) /\ FreeingBy(q)
             /\ pr[q].at # 0 => pr[q].at \in Inums /\ inode[pr[q].at].ref > 0
             /\ pr[q].ip # 0 => pr[q].ip \in Inums /\ inode[pr[q].ip].ref > 0
  <2>1. /\ pr'[q] = pr[q] /\ pr[q] \in Records /\ Shape(pr[q])
        /\ LockedBy(q) /\ DirsOf(q) /\ FreeingBy(q)
    BY <1>0 DEF IInv, TypeOK, Shapes, Locked, Dirs, Freeing
  <2>2. ASSUME NEW i \in Inums, Mine(q, i) PROVE inode[i].ref > 0
    <3>1. inode[i].ref >= 1 /\ inode[i].ref \in Nat
      BY <2>2, MineHeld DEF IInv, TypeOK, Entries
    <3> QED
      BY <3>1
  <2>3. pr[q].at \in Numbers /\ pr[q].ip \in Numbers
    BY <2>1 DEF Records
  <2>4. pr[q].at # 0 => pr[q].at \in Inums /\ inode[pr[q].at].ref > 0
    BY <2>2, <2>3, FileSysAssumption DEF Mine, Numbers, Inums
  <2>5. pr[q].ip # 0 => pr[q].ip \in Inums /\ inode[pr[q].ip].ref > 0
    BY <2>2, <2>3, FileSysAssumption DEF Mine, Numbers, Inums
  <2> QED
    BY <2>1, <2>4, <2>5
<1>3. Locked'
  <2> SUFFICES ASSUME NEW q \in Procs \ {p} PROVE LockedBy(q)'
    BY DEF Locked, Leaves
  <2>1. q \notin {p, NoProc}
    BY FileSysAssumption
  <2>2. pr[q].pc \in {"filealloc", "unlink2"} => pr[q].at \in Inums
    BY <1>a DEF Shape
  <2>3. pr[q].fr = "trunc" => Head(pr[q].todo) \in Inums
    <3> SUFFICES ASSUME pr[q].fr = "trunc" PROVE Head(pr[q].todo) \in Inums
      OBVIOUS
    <3>1. pr[q].todo # <<>> /\ pr[q].todo \in Seq(Inums)
      BY <1>a DEF Shape, Records
    <3> QED
      BY <3>1
  <2>4. \A i \in Inums : lock[i] = q => lock'[i] = q
    BY <2>1 DEF Touches
  <2> QED
    BY <1>a, <2>2, <2>3, <2>4 DEF LockedBy
<1>4. Dirs'
  <2> SUFFICES ASSUME NEW q \in Procs \ {p} PROVE DirsOf(q)'
    BY DEF Dirs, Leaves
  <2>1. q \notin {p, NoProc}
    BY FileSysAssumption
  <2>2. pr[q].at # 0 => disk'.type[pr[q].at] = disk.type[pr[q].at]
    BY <1>a DEF Touches
  <2>3. pr[q].ip # 0 => disk'.type[pr[q].ip] = disk.type[pr[q].ip]
    BY <1>a DEF Touches
  <2>4. pr[q].pc = "unlink2" => disk'.dir[pr[q].at] = disk.dir[pr[q].at]
    <3> SUFFICES ASSUME pr[q].pc = "unlink2"
                 PROVE  disk'.dir[pr[q].at] = disk.dir[pr[q].at]
      OBVIOUS
    <3>1. pr[q].at # 0 /\ lock[pr[q].at] = q
      BY <1>a DEF Shape, LockedBy
    <3> QED
      BY <1>a, <2>1, <3>1 DEF Touches
  <2>5. pr[q].pc \in {"create", "mkdir", "unlink", "unlink2", "dirlink"} =>
          pr[q].at # 0
    BY <1>a DEF Shape
  <2>6. pr[q].pc = "unlink2" => inode'[pr[q].at].valid
    <3> SUFFICES ASSUME pr[q].pc = "unlink2" PROVE inode'[pr[q].at].valid
      OBVIOUS
    <3>1. PICK i \in Inums : i = pr[q].at /\ inode[i].valid
      BY <1>a, <2>5 DEF DirsOf
    <3>2. CASE inode[i].ref = 1 /\ Todo(pr[p]) = i
      <4>1. /\ <<"at", q>> \in Pointers /\ Pointer[<<"at", q>>] = i
            /\ <<"todo", p>> \in Pointers /\ Pointer[<<"todo", p>>] = i
        BY <3>1, <3>2, PointerIs DEF Pointers
      <4>2. Holders(i) >= 2
        BY <4>1, TwoHolders
      <4> QED
        BY <3>2, <4>2 DEF IInv, Refs
    <3> QED
      BY <3>1, <3>2 DEF Touches, Keeps
  <2> QED
    BY <1>a, <2>2, <2>3, <2>4, <2>5, <2>6 DEF DirsOf, Counts
<1>5. Freeing'
  <2> SUFFICES ASSUME NEW q \in Procs \ {p} PROVE FreeingBy(q)'
    BY DEF Freeing, Leaves
  <2> DEFINE i == Head(pr[q].todo)
  <2>1. ASSUME pr[q].fr # "no"
        PROVE  /\ inode'[i] = inode[i] /\ disk'.type[i] = disk.type[i]
               /\ disk'.nlink[i] = disk.nlink[i]
    <3>1. pr[q].todo # <<>> /\ pr[q].todo \in Seq(Inums)
      BY <1>a, <2>1 DEF Shape, Records
    <3>2. i \in Inums
      BY <3>1
    <3>3. i \in Freed(p)
      BY <2>1, <3>2 DEF Freed
    <3> QED
      BY <3>2, <3>3 DEF Touches
  <2>2. ASSUME pr[q].fr = "free", NEW o \in Procs, pr'[o].fr = "free",
               Head(pr'[o].todo) = i
        PROVE  o = q
    <3>1. CASE o # p
      <4>1. pr'[o] = pr[o]
        BY <1>a, <3>1
      <4> QED
        BY <1>a, <2>2, <4>1 DEF FreeingBy
    <3>2. CASE o = p
      <4>1. FreeingBy(p)'
        BY DEF Leaves
      <4>2. pr'[q].fr = "free" /\ Head(pr'[q].todo) = i
        BY <1>a, <2>2
      <4> QED
        BY <2>2, <3>2, <4>1, <4>2 DEF FreeingBy
    <3> QED
      BY <3>1, <3>2
  <2>3. pr'[q] = pr[q] /\ FreeingBy(q)
    BY <1>a
  <2>4. /\ pr[q].fr # "no" => disk'.nlink[i] = 0 /\ disk'.type[i] # "free"
        /\ pr[q].fr \in {"trunc", "drop"} => inode'[i].ref = 1
        /\ pr[q].fr = "free" => inode'[i].ref = 0
    BY <2>1, <2>3 DEF FreeingBy
  <2> QED
    BY <2>2, <2>3, <2>4 DEF FreeingBy
<1>6. Known'
  <2> SUFFICES ASSUME NEW i \in Orphans(disk)' PROVE Noticed(i)'
    BY DEF Known
  <2>0. i \in Inums
    BY DEF Orphans
  <2>1. CASE i \in T
    BY <2>1 DEF Leaves
  <2>2. CASE i \notin T
    <3>1. /\ inode'[i] = inode[i] /\ disk'.type[i] = disk.type[i]
          /\ disk'.nlink[i] = disk.nlink[i]
      BY <2>0, <2>2 DEF Touches
    <3>2. i \in Orphans(disk)
      BY <3>1 DEF Orphans
    <3>3. Noticed(i)
      BY <3>2 DEF IInv, Known, Moves
    <3>4. CASE inode[i].valid
      BY <3>1, <3>4 DEF Noticed
    <3>5. CASE \E q \in Procs : pr[q].fr \in {"drop", "free"}
                                /\ Head(pr[q].todo) = i
      <4>1. PICK q \in Procs : pr[q].fr \in {"drop", "free"}
                               /\ Head(pr[q].todo) = i
        BY <3>5
      <4>2. q # p
        BY <2>2, <4>1 DEF Leaves
      <4>3. pr'[q] = pr[q]
        BY <1>0, <4>2
      <4> QED
        BY <4>1, <4>3 DEF Noticed
    <3> QED
      BY <3>3, <3>4, <3>5 DEF Noticed
  <2> QED
    BY <2>1, <2>2
<1>7. Booting'
  BY DEF Booting, Moves
<1> QED
  BY <1>1, <1>2, <1>3, <1>4, <1>5, <1>6, <1>7 DEF IInv
-----------------------------------------------------------------------------
\* The parts of the invariant that count.

C(r, i) == IF Counts(r, i) THEN 1 ELSE 0

\* The links that are counted and not written are counted.
LEMMA PendingType ==
  \A i : IsFiniteSet(Pending(i)) /\ Cardinality(Pending(i)) \in Nat
  BY FS_Subset, FS_CardinalityType, FileSysAssumption DEF Pending

\* What a step adds to them.
LEMMA PendingStep ==
  ASSUME IInv, NEW p \in Procs, NEW r, Moves(p, r), NEW i
  PROVE  Cardinality(Pending(i)') = Cardinality(Pending(i)) + C(r, i)
                                      - C(pr[p], i)
<1>1. pr'[p] = r /\ \A q \in Procs \ {p} : pr'[q] = pr[q]
  BY MovesIs
<1>2. Pending(i)' = {q \in Procs : Counts(pr'[q], i)}
  BY DEF Pending, Counts
<1> DEFINE S == Pending(i)
           R == {q \in Procs : Counts(pr'[q], i)}
<1>3. IsFiniteSet(S) /\ Cardinality(S) \in Nat
  BY PendingType
<1>4. \A q \in Procs \ {p} : q \in R <=> q \in S
  BY <1>1 DEF Pending
<1>5. (p \in R <=> Counts(r, i)) /\ (p \in S <=> Counts(pr[p], i))
  BY <1>1 DEF Pending
<1>6. R \subseteq Procs /\ S \subseteq Procs
  BY DEF Pending
<1> HIDE DEF S, R
<1>7. Cardinality(R) = Cardinality(S) + C(r, i) - C(pr[p], i)
  <2>1. CASE Counts(r, i) /\ Counts(pr[p], i)
    <3>1. R = S
      BY <1>4, <1>5, <1>6, <2>1
    <3> QED
      BY <1>3, <2>1, <3>1 DEF C
  <2>2. CASE ~Counts(r, i) /\ ~Counts(pr[p], i)
    <3>1. R = S
      BY <1>4, <1>5, <1>6, <2>2
    <3> QED
      BY <1>3, <2>2, <3>1 DEF C
  <2>3. CASE Counts(r, i) /\ ~Counts(pr[p], i)
    <3>1. R = S \cup {p} /\ p \notin S
      BY <1>4, <1>5, <1>6, <2>3
    <3>2. Cardinality(R) = Cardinality(S) + 1
      BY <1>3, <3>1, FS_AddElement
    <3> QED
      BY <1>3, <2>3, <3>2 DEF C
  <2>4. CASE ~Counts(r, i) /\ Counts(pr[p], i)
    <3>1. R = S \ {p} /\ p \in S
      BY <1>4, <1>5, <1>6, <2>4
    <3>2. Cardinality(R) = Cardinality(S) - 1
      BY <1>3, <3>1, FS_RemoveElement
    <3> QED
      BY <1>3, <2>4, <3>2 DEF C
  <2> QED
    BY <2>1, <2>2, <2>3, <2>4
<1> QED
  BY <1>2, <1>7 DEF S, R

\* The links that are counted and not written, when p goes on as r.
Slack(p, r) ==
  \A i \in Inums : disk'.nlink[i] - Links(disk', i) >=
                     disk.nlink[i] - Links(disk, i) + C(r, i) - C(pr[p], i)

\* The counted links stay covered when the slack does not shrink.
LEMMA CountedStep ==
  ASSUME IInv, NEW p \in Procs, NEW r, Moves(p, r), disk' \in Disks,
         Slack(p, r)
  PROVE  Counted'
<1> SUFFICES ASSUME NEW i \in Inums
             PROVE  disk'.nlink[i] >= Links(disk', i)
                                        + Cardinality(Pending(i)')
  BY DEF Counted
<1>1. disk'.nlink[i] \in Nat /\ disk.nlink[i] \in Nat
  BY DEF IInv, TypeOK, Disks
<1>2. Links(disk', i) \in Nat /\ Links(disk, i) \in Nat
  BY LinksType
<1>3. Cardinality(Pending(i)) \in Nat
  BY PendingType
<1>4. disk.nlink[i] >= Links(disk, i) + Cardinality(Pending(i))
  BY DEF IInv, Counted
<1>5. C(r, i) \in Nat /\ C(pr[p], i) \in Nat
  BY DEF C
<1>6. Cardinality(Pending(i)') = Cardinality(Pending(i)) + C(r, i)
                                   - C(pr[p], i)
  BY PendingStep
<1>7. disk'.nlink[i] - Links(disk', i) >=
        disk.nlink[i] - Links(disk, i) + C(r, i) - C(pr[p], i)
  BY DEF Slack
<1> QED
  BY ONLY <1>1, <1>2, <1>3, <1>4, <1>5, <1>6, <1>7

\* The references that a step of p takes and drops.
Balance(p, r) ==
  /\ UNCHANGED <<file, ofile>> /\ \A q \in Procs \ {p} : cwd'[q] = cwd[q]
  /\ \A i \in Inums :
       inode'[i].ref + (Weight(pr[p], i) + Is(cwd[p], i)) =
         inode[i].ref + (Weight(r, i) + Is(cwd'[p], i))

\* A process has a number of pointers to an inode.
LEMMA WeightType ==
  \A r, i : Weight(r, i) \in Nat /\ Is(r, i) \in Nat
  BY DEF Weight, Is

\* ref stays the number of holders when a step changes both alike.
LEMMA RefsStep ==
  ASSUME IInv, NEW p \in Procs, NEW r, Moves(p, r), Balance(p, r),
         inode' \in [Inums -> Entries]
  PROVE  Refs' /\ FileTable'
<1>1. pr'[p] = r /\ \A q \in Procs \ {p} : pr'[q] = pr[q]
  BY MovesIs
<1>2. ASSUME NEW i \in Inums PROVE inode'[i].ref = Holders(i)'
  <2>1. Holders(i)' = Holders(i) + (Weight(pr'[p], i) + Is(cwd'[p], i))
                                 - (Weight(pr[p], i) + Is(cwd[p], i))
    BY <1>1, HoldersStep DEF Balance
  <2>2. inode'[i].ref + (Weight(pr[p], i) + Is(cwd[p], i)) =
         inode[i].ref + (Weight(r, i) + Is(cwd'[p], i))
    BY DEF Balance
  <2>3. inode[i].ref = Holders(i)
    BY DEF IInv, Refs
  <2>4. inode[i].ref \in Nat /\ inode'[i].ref \in Nat /\ Holders(i) \in Nat
    BY HoldersType DEF IInv, TypeOK, Entries
  <2>5. /\ Weight(r, i) \in Nat /\ Weight(pr[p], i) \in Nat
        /\ Is(cwd[p], i) \in Nat /\ Is(cwd'[p], i) \in Nat
    BY WeightType
  <2> QED
    BY ONLY <1>1, <2>1, <2>2, <2>3, <2>4, <2>5
<1>3. Refs'
  BY <1>2 DEF Refs
<1>4. FileTable'
  BY DEF IInv, FileTable, Descriptors, Balance
<1> QED
  BY <1>3, <1>4

\* Process p goes on as r, which is in order for itself.
Follows(p, r) ==
  /\ Moves(p, r)
  /\ LockedBy(p)' /\ DirsOf(p)' /\ FreeingBy(p)'
  /\ \A i \in Inums : Counts(r, i) => Counts(pr[p], i)

\* A step that leaves the disk alone.
Calm(p, T) ==
  /\ UNCHANGED <<disk, files>> /\ saved' \in {saved, disk}
  /\ inode' \in [Inums -> Entries] /\ lock' \in [Inums -> Procs \cup {NoProc}]
  /\ \A i \in Inums \ T : inode'[i] = inode[i]
  /\ \A i \in T : i \notin Freed(p)
  /\ \A i \in Inums : lock[i] \notin {p, NoProc} => lock'[i] = lock[i]
  /\ \A i \in Inums : Keeps(p, i)
  /\ \A i \in T : TableAt(i)'
  /\ \A i \in T : i \in Orphans(disk)' => Noticed(i)'
  /\ pr[p].fr \in {"drop", "free"} => Head(pr[p].todo) \in T

Even(p, r) ==
  \A i \in Inums : inode'[i].ref + Weight(pr[p], i) =
                     inode[i].ref + Weight(r, i)

\* A step that leaves the disk alone and balances its references keeps the
\* invariant.
LEMMA CalmOK ==
  ASSUME IInv, NEW p \in Procs, NEW r, NEW T \in SUBSET Inums,
         Follows(p, r), Calm(p, T), Even(p, r)
  PROVE  IInv'
<1>0. /\ disk' = disk /\ file' = file /\ ofile' = ofile /\ cwd' = cwd
      /\ saved' \in {saved, disk} /\ inode' \in [Inums -> Entries]
      /\ lock' \in [Inums -> Procs \cup {NoProc}] /\ Moves(p, r)
  BY DEF Calm, Follows, files
<1>1. pr' \in [Procs -> Records]
  BY <1>0, MovesIs
<1>2. TypeOK'
  BY <1>0, <1>1 DEF IInv, TypeOK, Moves
<1>3. DiskOK(disk)' /\ DiskOK(saved)'
  BY <1>0 DEF IInv
<1>4. Slack(p, r)
  <2> SUFFICES ASSUME NEW i \in Inums
               PROVE  disk.nlink[i] - Links(disk, i) >=
                        disk.nlink[i] - Links(disk, i) + C(r, i) - C(pr[p], i)
    BY <1>0 DEF Slack
  <2>1. C(r, i) <= C(pr[p], i) /\ C(r, i) \in Nat /\ C(pr[p], i) \in Nat
    BY DEF Follows, C
  <2>2. disk.nlink[i] \in Nat /\ Links(disk, i) \in Nat
    BY LinksType DEF IInv, TypeOK, Disks
  <2> QED
    BY ONLY <2>1, <2>2
<1>5. Counted'
  BY <1>0, <1>2, <1>4, CountedStep DEF TypeOK
<1>6. Balance(p, r)
  <2> SUFFICES ASSUME NEW i \in Inums
               PROVE  inode'[i].ref + (Weight(pr[p], i) + Is(cwd[p], i)) =
                        inode[i].ref + (Weight(r, i) + Is(cwd[p], i))
    BY <1>0 DEF Balance
  <2>1. inode'[i].ref + Weight(pr[p], i) = inode[i].ref + Weight(r, i)
    BY DEF Even
  <2>2. inode'[i].ref \in Nat /\ inode[i].ref \in Nat
    BY <1>0 DEF Entries, IInv, TypeOK
  <2> QED
    BY ONLY <2>1, <2>2, WeightType
<1>7. Refs' /\ FileTable'
  BY <1>0, <1>6, RefsStep
<1>8. Touches(p, T)
  BY <1>0 DEF Touches, Calm
<1>9. Leaves(p, T)
  BY DEF Leaves, Calm, Follows
<1> QED
  BY <1>0, <1>2, <1>3, <1>5, <1>7, <1>8, <1>9, StepOK
-----------------------------------------------------------------------------
\* A process in the middle of a call, and how it goes on.

InUse(p, i) ==
  /\ i \in Inums /\ inode[i].ref >= 1 /\ disk.type[i] # "free"
  /\ HasType(i) /\ i \notin Freed(p)

\* What the invariant says of one process.
LEMMA ProcIs ==
  ASSUME IInv, NEW p \in Procs
  PROVE  /\ pr[p] \in Records /\ Shape(pr[p])
         /\ LockedBy(p) /\ DirsOf(p) /\ FreeingBy(p)
         /\ InUse(p, cwd[p])
         /\ pr[p].at # 0 => InUse(p, pr[p].at)
         /\ pr[p].ip # 0 => InUse(p, pr[p].ip)
         /\ pr[p].todo # <<>> =>
              /\ Head(pr[p].todo) \in Inums
              /\ pr[p].fr # "free" => InUse(p, Head(pr[p].todo))
         /\ booting \in BOOLEAN
         /\ pr[p].pc # "idle" \/ pr[p].todo # <<>> => booting = FALSE
<1>1. /\ pr[p] \in Records /\ Shape(pr[p])
      /\ LockedBy(p) /\ DirsOf(p) /\ FreeingBy(p)
  BY DEF IInv, TypeOK, Shapes, Locked, Dirs, Freeing
<1>2. ASSUME NEW i \in Inums, Mine(p, i) PROVE InUse(p, i)
  BY <1>2, MineHeld DEF InUse
<1>3. InUse(p, cwd[p])
  BY <1>2 DEF Mine, IInv, TypeOK
<1>4. pr[p].at \in Numbers /\ pr[p].ip \in Numbers
  BY <1>1 DEF Records
<1>5. pr[p].at # 0 => InUse(p, pr[p].at)
  BY <1>2, <1>4, FileSysAssumption DEF Mine, Numbers, Inums
<1>6. pr[p].ip # 0 => InUse(p, pr[p].ip)
  BY <1>2, <1>4, FileSysAssumption DEF Mine, Numbers, Inums
<1>7. ASSUME pr[p].todo # <<>>
      PROVE  /\ Head(pr[p].todo) \in Inums
             /\ pr[p].fr # "free" => InUse(p, Head(pr[p].todo))
  <2>1. pr[p].todo \in Seq(Inums)
    BY <1>1 DEF Records
  <2>2. Head(pr[p].todo) \in Inums
    BY <1>7, <2>1
  <2> QED
    BY <1>2, <1>7, <2>2 DEF Mine, Todo
<1>8. booting \in BOOLEAN
  BY DEF IInv, TypeOK
<1>9. booting => pr[p] = Idle
  BY DEF IInv, Booting, Boot
<1> QED
  BY <1>1, <1>3, <1>5, <1>6, <1>7, <1>8, <1>9 DEF Idle

\* An inode without links is valid unless somebody frees it.
LEMMA OrphanValid ==
  ASSUME IInv, ~booting, NEW p \in Procs, NEW i \in Orphans(disk),
         i \notin Freed(p), pr[p].fr \notin {"drop", "free"}
  PROVE  inode[i].valid
  BY DEF IInv, Known, Noticed, Freed, Orphans

\* An idle process points to no inode but its directory.
LEMMA IdleIs ==
  Idle \in Records /\ Shape(Idle) /\ \A i \in Inums : Weight(Idle, i) = 0
<1>1. 0 \in Numbers /\ "idle" \in PCs
  BY FileSysAssumption DEF Numbers, PCs
<1>2. Idle \in Records
  BY <1>1 DEF Idle, Records
<1>3. Shape(Idle)
  BY DEF Idle, Shape, Ops
<1>4. \A i \in Inums : Weight(Idle, i) = 0
  BY DEF Weight, Idle, Todo, Todo2, Is, Inums
<1> QED
  BY <1>2, <1>3, <1>4

\* The records of the two ways to give up.
EndRec(todo) == [Idle EXCEPT !.pc = "end", !.todo = todo]
BadRec(ip, todo) == [Idle EXCEPT !.pc = "bad", !.ip = ip, !.todo = todo]

\* The pointers of the list of inodes to put.
LEMMA TodoIs ==
  ASSUME NEW r, r.fr # "free", NEW i \in Inums
  PROVE  /\ r.todo = <<>> => Is(Todo(r), i) + Is(Todo2(r), i) = 0
         /\ \A a : r.todo = <<a>> =>
              Is(Todo(r), i) + Is(Todo2(r), i) = Is(a, i)
         /\ \A a, b : r.todo = <<a, b>> =>
              Is(Todo(r), i) + Is(Todo2(r), i) = Is(a, i) + Is(b, i)
<1>0. Is(0, i) = 0
  BY DEF Is, Inums
<1>1. ASSUME r.todo = <<>>
      PROVE  Todo(r) = 0 /\ Todo2(r) = 0
  BY <1>1 DEF Todo, Todo2
<1>2. ASSUME NEW a, r.todo = <<a>> PROVE Todo(r) = a /\ Todo2(r) = 0
  BY <1>2 DEF Todo, Todo2
<1>3. ASSUME NEW a, NEW b, r.todo = <<a, b>>
      PROVE  Todo(r) = a /\ Todo2(r) = b
  BY <1>3 DEF Todo, Todo2
<1>4. \A a : Is(a, i) \in Nat
  BY DEF Is
<1>5. r.todo = <<>> => Is(Todo(r), i) + Is(Todo2(r), i) = 0
  BY <1>0, <1>1
<1>6. \A a : r.todo = <<a>> =>
              Is(Todo(r), i) + Is(Todo2(r), i) = Is(a, i)
  BY <1>0, <1>2, <1>4
<1>7. \A a, b : r.todo = <<a, b>> =>
              Is(Todo(r), i) + Is(Todo2(r), i) = Is(a, i) + Is(b, i)
  BY <1>3
<1> QED
  BY <1>5, <1>6, <1>7

\* A call that finishes keeps its shape, and points only to what it puts.
LEMMA EndFollows ==
  ASSUME IInv, NEW p \in Procs, NEW todo \in Seq(Inums), Len(todo) <= 2,
         Finish(p, todo), ~booting, booting' = booting
  PROVE  /\ Follows(p, EndRec(todo))
         /\ \A i : ~Counts(EndRec(todo), i)
         /\ \A i \in Inums :
              /\ todo = <<>> => Weight(EndRec(todo), i) = 0
              /\ \A a : todo = <<a>> => Weight(EndRec(todo), i) = Is(a, i)
              /\ \A a, b : todo = <<a, b>> =>
                   Weight(EndRec(todo), i) = Is(a, i) + Is(b, i)
<1> DEFINE r == EndRec(todo)
<1>1. /\ r.pc = "end" /\ r.op = "none" /\ r.at = 0 /\ r.ip = 0
      /\ r.todo = todo /\ r.fr = "no" /\ r.new = <<>> /\ r.rest = <<>>
  BY DEF EndRec, Idle
<1>2. r \in Records
  <2>1. "end" \in PCs
    BY DEF PCs
  <2> QED
    BY <2>1, IdleIs DEF EndRec, Records
<1>3. Shape(r)
  BY <1>1 DEF Shape, Ops
<1>4. Moves(p, r)
  BY <1>2, <1>3 DEF Finish, Go, EndRec, Moves
<1>5. pr'[p] = r
  BY <1>4, MovesIs
<1> HIDE DEF r
<1>6. \A i \in Inums : ~Counts(r, i)
  BY <1>1 DEF Counts, Inums
<1>7. LockedBy(p)' /\ FreeingBy(p)'
  BY <1>1, <1>5 DEF LockedBy, FreeingBy
<1>8. DirsOf(p)'
  BY <1>1, <1>5 DEF DirsOf
<1>9. ASSUME NEW i \in Inums
      PROVE  /\ todo = <<>> => Weight(r, i) = 0
             /\ \A a : todo = <<a>> => Weight(r, i) = Is(a, i)
             /\ \A a, b : todo = <<a, b>> =>
                  Weight(r, i) = Is(a, i) + Is(b, i)
  <2>1. Is(r.at, i) = 0 /\ Is(r.ip, i) = 0
    BY <1>1 DEF Is, Inums
  <2>2. \A x : Is(x, i) \in Nat
    BY DEF Is
  <2>3. Weight(r, i) = Is(Todo(r), i) + Is(Todo2(r), i)
    BY <2>1, <2>2 DEF Weight
  <2> QED
    BY <1>1, <2>3, TodoIs
<1>a. \A i : ~Counts(r, i)
  BY <1>1 DEF Counts
<1> QED
  BY <1>4, <1>6, <1>7, <1>8, <1>9, <1>a DEF Follows, r

\* The same with two inodes to put.
LEMMA EndTwo ==
  ASSUME IInv, NEW p \in Procs, NEW a \in Inums, NEW b \in Inums,
         Finish(p, <<a, b>>), ~booting, booting' = booting
  PROVE  /\ Follows(p, EndRec(<<a, b>>))
         /\ \A i : ~Counts(EndRec(<<a, b>>), i)
         /\ \A i \in Inums : Weight(EndRec(<<a, b>>), i) = Is(a, i) + Is(b, i)
<1>1. PICK todo : todo = <<a, b>>
  OBVIOUS
<1>2. todo \in Seq(Inums) /\ Len(todo) <= 2 /\ Finish(p, todo)
  BY <1>1
<1>3. /\ Follows(p, EndRec(todo)) /\ \A i : ~Counts(EndRec(todo), i)
      /\ \A i \in Inums : \A x, y : todo = <<x, y>> =>
                   Weight(EndRec(todo), i) = Is(x, i) + Is(y, i)
  BY <1>2, EndFollows
<1>4. \A i \in Inums : Weight(EndRec(todo), i) = Is(a, i) + Is(b, i)
  BY <1>1, <1>3
<1> QED
  BY <1>1, <1>3, <1>4

\* The error path of sys_link() still points to the old file.
LEMMA BadFollows ==
  ASSUME IInv, NEW p \in Procs, NEW a \in Inums, Linking(p),
         Go(p, BadRec(pr[p].ip, <<a>>)), ~booting, booting' = booting,
         UNCHANGED disk
  PROVE  /\ Follows(p, BadRec(pr[p].ip, <<a>>))
         /\ \A i \in Inums :
              Weight(BadRec(pr[p].ip, <<a>>), i) = Is(pr[p].ip, i) + Is(a, i)
<1> DEFINE r == BadRec(pr[p].ip, <<a>>)
<1>0. pr[p] \in Records /\ pr[p].op = "link" /\ pr[p].ip # 0
  BY ProcIs DEF Linking
<1>1. /\ r.pc = "bad" /\ r.op = "none" /\ r.at = 0 /\ r.ip = pr[p].ip
      /\ r.todo = <<a>> /\ r.fr = "no" /\ r.new = <<>> /\ r.rest = <<>>
  BY DEF BadRec, Idle
<1>2. r \in Records
  <2>1. <<a>> \in Seq(Inums)
    OBVIOUS
  <2> QED
    <3>1. "bad" \in PCs /\ pr[p].ip \in Numbers
      BY <1>0 DEF PCs, Records
    <3> QED
      BY <2>1, <3>1, IdleIs DEF BadRec, Records
<1>3. Shape(r)
  <2> HIDE DEF r
  <2>0. <<a>> # <<>> /\ Len(<<a>>) = 1
    OBVIOUS
  <2>1. r.todo # <<>> /\ Len(r.todo) <= 2 /\ r.ip # 0
    BY <1>0, <1>1, <2>0
  <2> QED
    BY <1>1, <2>1 DEF Shape, Ops
<1>4. Moves(p, r)
  BY <1>2, <1>3 DEF Go, Moves
<1>5. pr'[p] = r
  BY <1>4, MovesIs
<1> HIDE DEF r
<1>6. \A i \in Inums : Counts(r, i) => Counts(pr[p], i)
  BY <1>0, <1>1 DEF Counts
<1>7. LockedBy(p)' /\ FreeingBy(p)'
  BY <1>1, <1>5 DEF LockedBy, FreeingBy
<1>8. DirsOf(p)'
  <2>1. disk.type[pr[p].ip] = "file"
    BY <1>0, ProcIs DEF DirsOf, Counts
  <2> QED
    BY <1>1, <1>5, <2>1 DEF DirsOf
<1>9. ASSUME NEW i \in Inums
      PROVE  Weight(r, i) = Is(pr[p].ip, i) + Is(a, i)
  <2>1. Is(r.at, i) = 0
    BY <1>1 DEF Is, Inums
  <2>2. \A x : Is(x, i) \in Nat
    BY DEF Is
  <2>3. Is(Todo(r), i) + Is(Todo2(r), i) = Is(a, i)
    BY <1>1, TodoIs
  <2> QED
    BY <1>1, <2>1, <2>2, <2>3 DEF Weight
<1> QED
  BY <1>4, <1>6, <1>7, <1>8, <1>9 DEF Follows, r

\* Both, for the steps that leave the disk alone.
LEMMA FailFollows ==
  ASSUME IInv, NEW p \in Procs, NEW a \in Inums, Fail(p, <<a>>),
         pr[p].pc \in {"namex", "dirlink"},
         ~booting, booting' = booting, UNCHANGED disk
  PROVE  \E r : /\ Follows(p, r)
                /\ \A i \in Inums : Weight(r, i) = Is(pr[p].ip, i) + Is(a, i)
<1>1. CASE Linking(p)
  <2>1. Go(p, BadRec(pr[p].ip, <<a>>))
    BY <1>1 DEF Fail, BadRec
  <2> QED
    BY <1>1, <2>1, BadFollows
<1>2. CASE ~Linking(p)
  <2>1. pr[p].ip = 0
    BY <1>2, ProcIs DEF Linking, Shape
  <2>2. Finish(p, <<a>>) /\ <<a>> \in Seq(Inums) /\ Len(<<a>>) <= 2
    BY <1>2 DEF Fail
  <2>3. /\ Follows(p, EndRec(<<a>>))
        /\ \A i \in Inums : Weight(EndRec(<<a>>), i) = Is(a, i)
    BY <2>2, EndFollows
  <2>4. \A i \in Inums : Is(pr[p].ip, i) = 0 /\ Is(a, i) \in Nat
    BY <2>1 DEF Is, Inums
  <2>5. \A i \in Inums : Weight(EndRec(<<a>>), i) = Is(pr[p].ip, i) + Is(a, i)
    BY <2>3, <2>4
  <2> QED
    BY <2>3, <2>5
<1> QED
  BY <1>1, <1>2

\* The pointers of a process by field.
LEMMA WeightIs ==
  ASSUME NEW r, r.fr # "free", NEW i \in Inums
  PROVE  /\ r.todo = <<>> => Weight(r, i) = Is(r.at, i) + Is(r.ip, i)
         /\ \A a : r.todo = <<a>> =>
              Weight(r, i) = Is(r.at, i) + Is(r.ip, i) + Is(a, i)
<1>1. \A x : Is(x, i) \in Nat
  BY DEF Is
<1>2. Is(r.at, i) \in Nat /\ Is(r.ip, i) \in Nat /\ Is(Todo(r), i) \in Nat
      /\ Is(Todo2(r), i) \in Nat
  BY <1>1
<1> QED
  BY <1>1, <1>2, TodoIs DEF Weight
-----------------------------------------------------------------------------
\* The steps of a call that take a lock, a reference or both.

LockMove(p) ==
  /\ lock' \in [Inums -> Procs \cup {NoProc}]
  /\ \A i \in Inums : lock[i] \notin {p, NoProc} => lock'[i] = lock[i]

\* Sleep locks taken or released by a process leave those of others alone.
LEMMA LockMoves ==
  ASSUME IInv, NEW p \in Procs,
         \/ UNCHANGED lock
         \/ \E i \in Inums : lock[i] = NoProc /\ lock' = [lock EXCEPT ![i] = p]
         \/ \E i \in Inums : lock[i] = p /\ lock' = [lock EXCEPT ![i] = NoProc]
  PROVE  LockMove(p)
<1>0. lock \in [Inums -> Procs \cup {NoProc}]
  BY DEF IInv, TypeOK
<1>1. CASE UNCHANGED lock
  BY <1>0, <1>1 DEF LockMove
<1>2. CASE \E i \in Inums : lock[i] = NoProc /\ lock' = [lock EXCEPT ![i] = p]
  BY <1>0, <1>2 DEF LockMove
<1>3. CASE \E i \in Inums : lock[i] = p /\ lock' = [lock EXCEPT ![i] = NoProc]
  BY <1>0, <1>3 DEF LockMove
<1> QED
  BY <1>1, <1>2, <1>3

\* A step that only reads an inode into the table.
LEMMA LockCalm ==
  ASSUME IInv, NEW p \in Procs, NEW a, InUse(p, a), pr[p].fr = "no",
         inode' = Ilock(inode, disk, a), LockMove(p),
         UNCHANGED <<disk, saved, files>>
  PROVE  /\ Calm(p, {a})
         /\ \A i \in Inums : inode'[i].ref = inode[i].ref
<1>0. a \in Inums /\ inode \in [Inums -> Entries] /\ inode[a].ref >= 1
      /\ disk.type[a] # "free" /\ inode[a].ref \in Nat
  BY DEF InUse, IInv, TypeOK, Entries
<1>1. /\ inode' = [inode EXCEPT ![a] = Entry(inode[a].ref, disk, a)]
      /\ Entry(inode[a].ref, disk, a) \in Entries
  BY <1>0, IlockIs DEF IInv
<1>2. inode' \in [Inums -> Entries] /\ inode'[a] = Entry(inode[a].ref, disk, a)
      /\ \A i \in Inums \ {a} : inode'[i] = inode[i]
  BY <1>0, <1>1
<1>3. TableAt(a)' /\ Noticed(a)'
  BY <1>0, <1>2 DEF TableAt, Noticed, Entry
<1>4. Calm(p, {a})
  <2>1. \A i \in Inums : Keeps(p, i)
    BY <1>0, <1>2 DEF Keeps, Entry
  <2> QED
    BY <1>2, <1>3, <2>1 DEF Calm, InUse, LockMove
<1>5. \A i \in Inums : inode'[i].ref = inode[i].ref
  BY <1>0, <1>2 DEF Entry
<1> QED
  BY <1>4, <1>5

\* An entry that iget() counts up, or sets up for a linked inode.
LEMMA GetEntry ==
  ASSUME NEW e \in Entries, NEW f, f = More(e)
  PROVE  /\ f.ref > 0 /\ (f.valid => e.valid /\ f.type = e.type /\ f.nlink = e.nlink)
         /\ e.valid /\ e.ref > 0 => f.valid
<1>1. CASE e.ref > 0
  BY <1>1 DEF More, Entries
<1>2. CASE ~(e.ref > 0)
  BY <1>2 DEF More, Unused
<1> QED
  BY <1>1, <1>2

\* A step that also takes a reference to an inode with links.
LEMMA GetCalm ==
  ASSUME IInv, NEW p \in Procs, NEW a, InUse(p, a), pr[p].fr = "no",
         NEW b \in Inums, disk.type[b] # "free",
         disk.nlink[b] # 0 \/ b = a,
         inode' = Iget(Ilock(inode, disk, a), b), LockMove(p),
         UNCHANGED <<disk, saved, files>>
  PROVE  /\ Calm(p, {a, b}) /\ inode'[a].valid
         /\ \A i \in Inums : inode'[i].ref = inode[i].ref + Is(b, i)
<1> DEFINE t == Ilock(inode, disk, a)
<1>0. a \in Inums /\ inode \in [Inums -> Entries] /\ inode[a].ref >= 1
      /\ disk.type[a] # "free" /\ \A i \in Inums : inode[i].ref \in Nat
  BY DEF InUse, IInv, TypeOK, Entries
<1>1. /\ t = [inode EXCEPT ![a] = Entry(inode[a].ref, disk, a)]
      /\ Entry(inode[a].ref, disk, a) \in Entries
  BY <1>0, IlockIs DEF IInv
<1>2. t \in [Inums -> Entries] /\ t[a] = Entry(inode[a].ref, disk, a)
      /\ \A i \in Inums \ {a} : t[i] = inode[i]
  BY <1>0, <1>1
<1>3. \A i \in Inums : t[i].ref = inode[i].ref
  BY <1>0, <1>2 DEF Entry
<1>4. inode' = Iget(t, b)
  OBVIOUS
<1> HIDE DEF t
<1>5. /\ inode' = [t EXCEPT ![b] = More(t[b])]
      /\ inode' \in [Inums -> Entries] /\ More(t[b]).ref = t[b].ref + 1
  BY <1>2, <1>4, IgetIs
<1>6. inode'[b] = More(t[b]) /\ \A i \in Inums \ {b} : inode'[i] = t[i]
  BY <1>2, <1>5
<1>7. \A i \in Inums : inode'[i].ref = inode[i].ref + Is(b, i)
  BY <1>0, <1>3, <1>5, <1>6 DEF Is
<1>8. t[a].valid /\ t[a].ref > 0 /\ t[a].type = disk.type[a]
      /\ t[a].nlink = disk.nlink[a]
  BY <1>0, <1>2 DEF Entry
<1>9. t[b].valid => t[b].type = disk.type[b] /\ t[b].nlink = disk.nlink[b]
  <2>1. CASE b = a
    BY <1>8, <2>1
  <2>2. CASE b # a
    BY <1>2, <2>2 DEF IInv, Table, TableAt
  <2> QED
    BY <2>1, <2>2
<1>a. t[b] \in Entries
  BY <1>2
<1>b. /\ inode'[b].ref > 0
      /\ inode'[b].valid => t[b].valid /\ inode'[b].type = t[b].type
                            /\ inode'[b].nlink = t[b].nlink
      /\ t[b].valid /\ t[b].ref > 0 => inode'[b].valid
  BY <1>6, <1>a, GetEntry
<1>c. TableAt(b)'
  <2>1. inode'[b].ref # 0
    BY <1>b, <1>5 DEF Entries
  <2> QED
    BY <1>9, <1>b, <2>1 DEF TableAt
<1>d. TableAt(a)' /\ Noticed(a)' /\ inode'[a].valid
  <2>1. CASE b = a
    BY <1>8, <1>b, <1>c, <2>1 DEF Noticed
  <2>2. CASE b # a
    <3>1. inode'[a] = t[a] /\ t[a].ref # 0
      BY <1>0, <1>6, <2>2, <1>2, <1>8 DEF Entries
    <3> QED
      BY <1>0, <1>8, <3>1 DEF Noticed, TableAt
  <2> QED
    BY <2>1, <2>2
<1>e. b \in Orphans(disk)' => Noticed(b)'
  BY <1>d DEF Orphans
<1>f. b \notin Freed(p) /\ a \notin Freed(p)
  BY LinkedSafe DEF InUse
<1>g. \A i \in Inums \ {a, b} : inode'[i] = inode[i]
  BY <1>2, <1>6
<1>h. \A i \in Inums : Keeps(p, i)
  <2>1. CASE b # a
    <3>1. inode[b].valid => inode[b].ref > 0
      BY <1>0 DEF IInv, Table, TableAt, Unused
    <3>2. Keeps(p, b)
      BY <1>2, <1>b, <2>1, <3>1 DEF Keeps
    <3> QED
      BY <1>d, <1>g, <3>2 DEF Keeps
  <2>2. CASE b = a
    BY <1>d, <1>g, <2>2 DEF Keeps
  <2> QED
    BY <2>1, <2>2
<1>i. Calm(p, {a, b})
  BY <1>5, <1>c, <1>d, <1>e, <1>f, <1>g, <1>h DEF Calm, LockMove
<1> QED
  BY <1>7, <1>d, <1>i

\* The last element of a path.
LEMMA OneElem ==
  ASSUME NEW s \in Seq(Elems), Len(s) = 1
  PROVE  s # <<>> /\ Head(s) \in Elems
<1>1. s # <<>>
  BY EmptySeq
<1> QED
  BY <1>1

\* What a directory with links names has links, or is the directory.
LEMMA LookupIs ==
  ASSUME IInv, NEW a \in Inums, disk.type[a] = "dir", NEW n \in Elems,
         n \in Names \/ disk.nlink[a] # 0,
         Dirlookup(disk, a, n) # 0
  PROVE  /\ Dirlookup(disk, a, n) \in Inums
         /\ disk.type[Dirlookup(disk, a, n)] # "free"
         /\ disk.nlink[Dirlookup(disk, a, n)] # 0 \/ Dirlookup(disk, a, n) = a
<1> DEFINE b == Dirlookup(disk, a, n)
<1>0. disk \in Disks /\ DiskOK(disk)
  BY DEF IInv, TypeOK
<1>1. CASE n = "."
  BY <1>1 DEF Dirlookup
<1>2. CASE n = ".."
  <2>0. b = disk.up[a] /\ disk.nlink[a] # 0 /\ disk.nlink[a] \in Nat
    BY <1>0, <1>2, FileSysAssumption DEF Dirlookup, Disks
  <2>1. b \in Inums
    BY <1>0, <2>0, FileSysAssumption DEF Disks, Numbers, Inums
  <2>2. a \in Subdirs(disk, b)
    BY <2>0, <2>1 DEF Subdirs
  <2>3. disk.nlink[b] > 0 /\ disk.type[b] # "free" /\ disk.nlink[b] \in Nat
    BY <1>0, <2>1, <2>2, NamedHasLinks DEF Disks
  <2> QED
    BY <2>1, <2>3
<1>3. CASE n \in Names
  <2>0. b = disk.dir[a][n]
    BY <1>3, FileSysAssumption DEF Dirlookup
  <2>1. b \in Inums
    BY <1>0, <1>3, <2>0, FileSysAssumption DEF Disks, Numbers, Inums
  <2>2. <<a, n>> \in NamesOf(disk, b)
    BY <1>3, <2>0 DEF NamesOf
  <2>3. disk.nlink[b] > 0 /\ disk.type[b] # "free" /\ disk.nlink[b] \in Nat
    BY <1>0, <2>1, <2>2, NamedHasLinks DEF Disks
  <2> QED
    BY <2>1, <2>3
<1> QED
  BY <1>1, <1>2, <1>3 DEF Elems

\* A process that is not in iput(), and the entry it looks at.
LEMMA AtIs ==
  ASSUME IInv, NEW p \in Procs, NEW pc, At(p, pc), pc # "idle"
  PROVE  /\ pr[p].pc = pc /\ pr[p].todo = <<>> /\ pr[p].fr = "no"
         /\ booting = FALSE
         /\ \A i \in Inums : Weight(pr[p], i) = Is(pr[p].at, i) + Is(pr[p].ip, i)
<1>1. pr[p].pc = pc /\ pr[p].todo = <<>> /\ pr[p].fr = "no"
  BY ProcIs DEF At, Shape, Records
<1>2. booting = FALSE
  BY <1>1, ProcIs
<1>3. \A i \in Inums : Weight(pr[p], i) = Is(pr[p].at, i) + Is(pr[p].ip, i)
  BY <1>1, WeightIs
<1> QED
  BY <1>1, <1>2, <1>3

\* The entry after ilock().
LEMMA EntryIs ==
  ASSUME IInv, NEW i \in Inums
  PROVE  /\ Ilock(inode, disk, i)[i].type = disk.type[i]
         /\ Ilock(inode, disk, i)[i].nlink = disk.nlink[i]
         /\ Ilock(inode, disk, i)[i].ref = inode[i].ref
<1>1. Ilock(inode, disk, i)[i] = Entry(inode[i].ref, disk, i)
  BY IlockIs DEF IInv, TypeOK
<1> QED
  BY <1>1 DEF Entry

\* namex() at the end of a path.
LEMMA NamexEndOK ==
  ASSUME IInv, NEW p \in Procs, NamexEnd(p)
  PROVE  IInv'
<1>0. /\ At(p, "namex") /\ pr[p].rest = <<>>
      /\ disk' = disk /\ inode' = inode /\ lock' = lock /\ UNCHANGED files
      /\ saved' = saved /\ booting' = booting
  BY DEF NamexEnd, world
<1>1. /\ pr[p].pc = "namex" /\ pr[p].todo = <<>> /\ pr[p].fr = "no"
      /\ booting = FALSE
      /\ \A i \in Inums : Weight(pr[p], i) = Is(pr[p].at, i) + Is(pr[p].ip, i)
  BY <1>0, AtIs
<1>2. /\ pr[p] \in Records /\ Shape(pr[p]) /\ DirsOf(p)
      /\ pr[p].at # 0 /\ InUse(p, pr[p].at) /\ pr[p].at \in Inums
  BY <1>1, ProcIs DEF Shape, InUse
<1>3. Calm(p, {})
  BY <1>0, <1>1 DEF Calm, Keeps, IInv, TypeOK
<1>4. CASE Parent(p)
  <2>1. Fail(p, <<pr[p].at>>)
    BY <1>4 DEF NamexEnd
  <2>2. PICK r : /\ Follows(p, r)
                 /\ \A i \in Inums :
                      Weight(r, i) = Is(pr[p].ip, i) + Is(pr[p].at, i)
    BY <1>0, <1>1, <1>2, <2>1, FailFollows
  <2>3. Even(p, r)
    BY <1>0, <1>1, <2>2, WeightType DEF Even
  <2> QED
    BY <1>3, <2>2, <2>3, CalmOK
<1>5. CASE ~Parent(p)
  <2> DEFINE r == [pr[p] EXCEPT !.pc = Found(p)]
  <2>1. Go(p, r)
    BY <1>5 DEF NamexEnd
  <2>2. pr[p].op \in {"open", "chdir", "link"} /\ pr[p].ip = 0
        /\ Found(p) = pr[p].op
    <3>1. pr[p].op \in Ops
      BY <1>1, <1>2 DEF Shape
    <3>2. ~Linking(p) /\ pr[p].op \notin {"create", "mkdir", "unlink"}
      BY <1>5 DEF Parent
    <3>3. pr[p].ip = 0
      BY <1>1, <1>2, <3>2 DEF Shape, Linking
    <3> QED
      BY <3>1, <3>2, <3>3 DEF Ops, Found
  <2>3. /\ r.pc = pr[p].op /\ r.op = pr[p].op /\ r.at = pr[p].at /\ r.ip = 0
        /\ r.todo = <<>> /\ r.fr = "no" /\ r.new = pr[p].new
    BY <1>1, <1>2, <2>2 DEF Records
  <2>4. r \in Records
    BY <1>2, <2>2 DEF Records, PCs, Ops
  <2> HIDE DEF r
  <2>5. Shape(r)
    BY <1>1, <1>2, <2>2, <2>3 DEF Shape, Ops
  <2>6. Moves(p, r)
    BY <1>0, <1>1, <2>1, <2>4, <2>5 DEF Moves, Go
  <2>7. pr'[p] = r
    BY <2>6, MovesIs
  <2>8. LockedBy(p)' /\ FreeingBy(p)' /\ DirsOf(p)'
    BY <2>2, <2>3, <2>7 DEF LockedBy, FreeingBy, DirsOf
  <2>9. Follows(p, r)
    BY <2>3, <2>6, <2>8 DEF Follows, Counts, Inums
  <2>a. Even(p, r)
    <3>1. \A i \in Inums : Weight(r, i) = Is(r.at, i) + Is(r.ip, i)
      BY <2>3, WeightIs
    <3> QED
      BY <1>0, <1>1, <2>2, <2>3, <3>1 DEF Even
  <2> QED
    BY <1>3, <2>9, <2>a, CalmOK
<1> QED
  BY <1>4, <1>5

\* One element of a path: the next inode is referenced before the directory
\* is put, so that its name still keeps it.
LEMMA NamexElementOK ==
  ASSUME IInv, NEW p \in Procs, NamexElement(p)
  PROVE  IInv'
<1> DEFINE i == pr[p].at
           t == Ilock(inode, disk, i)
           rest == pr[p].rest
           next == Dirlookup(disk, i, Head(rest))
<1>0. /\ At(p, "namex") /\ rest # <<>>
      /\ disk' = disk /\ lock' = lock /\ UNCHANGED files
      /\ saved' = saved /\ booting' = booting
  BY DEF NamexElement, world
<1>1. /\ pr[p].pc = "namex" /\ pr[p].todo = <<>> /\ pr[p].fr = "no"
      /\ booting = FALSE
      /\ \A j \in Inums : Weight(pr[p], j) = Is(pr[p].at, j) + Is(pr[p].ip, j)
  BY <1>0, AtIs
<1>2. /\ pr[p] \in Records /\ Shape(pr[p]) /\ DirsOf(p)
      /\ i # 0 /\ InUse(p, i) /\ i \in Inums /\ HasType(i)
  BY <1>1, ProcIs DEF Shape, InUse
<1>3. rest \in Seq(Elems) /\ Head(rest) \in Elems /\ Tail(rest) \in Seq(Elems)
      /\ Len(rest) \in Nat /\ Len(rest) # 0
  <2>1. rest \in Seq(Elems)
    BY <1>2 DEF Records
  <2> QED
    BY <1>0, <2>1
<1>4. t[i].type = disk.type[i] /\ t[i].nlink = disk.nlink[i]
  BY <1>2, EntryIs
<1>5. LockMove(p)
  BY <1>0, LockMoves
<1>6. ASSUME inode' = t, Fail(p, <<i>>)
      PROVE  IInv'
  <2>1. Calm(p, {i}) /\ \A j \in Inums : inode'[j].ref = inode[j].ref
    BY <1>0, <1>1, <1>2, <1>5, <1>6, LockCalm
  <2>2. PICK r : /\ Follows(p, r)
                 /\ \A j \in Inums : Weight(r, j) = Is(pr[p].ip, j) + Is(i, j)
    BY <1>0, <1>1, <1>2, <1>6, FailFollows
  <2>3. Even(p, r)
    BY <1>1, <2>1, <2>2, WeightType DEF Even
  <2> QED
    BY <1>2, <2>1, <2>2, <2>3, CalmOK
<1>7. ASSUME inode' = t, disk.type[i] = "dir", Parent(p), Len(rest) = 1,
             Go(p, [pr[p] EXCEPT !.pc = Found(p)])
      PROVE  IInv'
  <2>1. Calm(p, {i}) /\ \A j \in Inums : inode'[j].ref = inode[j].ref
    BY <1>0, <1>1, <1>2, <1>5, <1>7, LockCalm
  <2> DEFINE r == [pr[p] EXCEPT !.pc = Found(p)]
  <2>2. \/ pr[p].op \in {"create", "mkdir", "unlink"} /\ pr[p].ip = 0
           /\ Found(p) = pr[p].op
        \/ pr[p].op = "link" /\ pr[p].ip # 0 /\ Found(p) = "dirlink"
    BY <1>1, <1>2, <1>7 DEF Parent, Linking, Found, Shape
  <2>3. /\ r.pc = Found(p) /\ r.op = pr[p].op /\ r.at = i /\ r.ip = pr[p].ip
        /\ r.todo = <<>> /\ r.fr = "no" /\ r.new = pr[p].new
        /\ r.rest = rest
    BY <1>1, <1>2 DEF Records
  <2>4. r \in Records
    BY <1>2, <2>2 DEF Records, PCs, Ops
  <2>g. Go(p, r)
    BY <1>7
  <2> HIDE DEF r
  <2>5. Shape(r)
    <3>1. Len(r.todo) <= 2 /\ Len(r.rest) = 1 /\ r.at # 0
      BY <1>2, <1>7, <2>3
    <3>2. CASE pr[p].op = "link"
      BY <1>1, <1>2, <2>2, <2>3, <3>1, <3>2 DEF Shape, Ops
    <3>3. CASE pr[p].op # "link"
      BY <1>1, <1>2, <2>2, <2>3, <3>1, <3>3 DEF Shape, Ops
    <3> QED
      BY <3>2, <3>3
  <2>6. Moves(p, r)
    BY <1>0, <1>1, <2>g, <2>4, <2>5 DEF Moves, Go
  <2>7. pr'[p] = r
    BY <2>6, MovesIs
  <2>8. LockedBy(p)' /\ FreeingBy(p)'
    BY <2>2, <2>3, <2>7 DEF LockedBy, FreeingBy
  <2>9. DirsOf(p)'
    <3>1. r.ip # 0 /\ Counts(r, r.ip) => disk.type[r.ip] = "file"
      BY <1>2, <2>2, <2>3 DEF DirsOf, Counts
    <3>2. r.pc # "unlink2"
      BY <2>2, <2>3
    <3> QED
      BY <1>0, <1>7, <2>3, <2>7, <3>1, <3>2 DEF DirsOf
  <2>a. Follows(p, r)
    BY <2>2, <2>3, <2>6, <2>8, <2>9 DEF Follows, Counts, Inums
  <2>b. Even(p, r)
    <3>1. \A j \in Inums : Weight(r, j) = Is(r.at, j) + Is(r.ip, j)
      BY <2>3, WeightIs
    <3> QED
      BY <1>1, <2>1, <2>3, <3>1 DEF Even
  <2> QED
    BY <1>2, <2>1, <2>a, <2>b, CalmOK
<1>8. ASSUME inode' = Iget(t, next), disk.type[i] = "dir",
             disk.nlink[i] # 0, next # 0, ~(Parent(p) /\ Len(rest) = 1),
             Go(p, [pr[p] EXCEPT !.at = next, !.rest = Tail(rest),
                                 !.todo = <<i>>])
      PROVE  IInv'
  <2>1. next \in Inums /\ disk.type[next] # "free"
        /\ (disk.nlink[next] # 0 \/ next = i)
    BY <1>2, <1>3, <1>8, LookupIs
  <2>2. Calm(p, {i, next})
        /\ \A j \in Inums : inode'[j].ref = inode[j].ref + Is(next, j)
    <3> HIDE DEF next, i
    <3>1. inode' = Iget(Ilock(inode, disk, i), next)
      BY <1>8
    <3> QED
      BY <1>0, <1>1, <1>2, <1>5, <2>1, <3>1, GetCalm
  <2> DEFINE r == [pr[p] EXCEPT !.at = next, !.rest = Tail(rest),
                                !.todo = <<i>>]
  <2>3. /\ r.pc = "namex" /\ r.op = pr[p].op /\ r.at = next
        /\ r.ip = pr[p].ip /\ r.todo = <<i>> /\ r.fr = "no"
        /\ r.new = pr[p].new
    BY <1>1, <1>2 DEF Records
  <2>4. r \in Records
    <3>1. next \in Numbers /\ <<i>> \in Seq(Inums)
      BY <1>2, <2>1 DEF Numbers, Inums
    <3> QED
      BY <1>2, <1>3, <3>1 DEF Records
  <2>g. Go(p, r)
    BY <1>8
  <2>n. next # 0
    BY <1>8
  <2> HIDE DEF r
  <2>5. Shape(r)
    <3> HIDE DEF next, i
    <3>1. <<i>> # <<>> /\ Len(<<i>>) = 1
      OBVIOUS
    <3>2. Len(r.todo) <= 2 /\ r.todo # <<>> /\ r.at # 0
      BY <2>n, <2>3, <3>1
    <3> QED
      BY <1>1, <1>2, <2>3, <3>2 DEF Shape, Ops
  <2> HIDE DEF next
  <2>6. Moves(p, r)
    BY <1>0, <1>1, <2>g, <2>4, <2>5 DEF Moves, Go
  <2>7. pr'[p] = r
    BY <2>6, MovesIs
  <2>8. LockedBy(p)' /\ FreeingBy(p)'
    BY <2>3, <2>7 DEF LockedBy, FreeingBy
  <2>9. DirsOf(p)'
    <3>1. r.ip # 0 /\ Counts(r, r.ip) => disk.type[r.ip] = "file"
      BY <1>1, <1>2, <2>3 DEF DirsOf, Counts
    <3> QED
      BY <1>0, <2>3, <2>7, <3>1 DEF DirsOf
  <2>a. Follows(p, r)
    BY <1>1, <2>3, <2>6, <2>8, <2>9 DEF Follows, Counts
  <2>b. Even(p, r)
    <3>1. \A j \in Inums : Weight(r, j) = Is(r.at, j) + Is(r.ip, j) + Is(i, j)
      BY <2>3, WeightIs
    <3>2. ASSUME NEW j \in Inums
          PROVE  inode'[j].ref + Weight(pr[p], j) = inode[j].ref + Weight(r, j)
      <4>1. /\ inode'[j].ref = inode[j].ref + Is(next, j)
            /\ Weight(pr[p], j) = Is(i, j) + Is(pr[p].ip, j)
            /\ Weight(r, j) = Is(next, j) + Is(pr[p].ip, j) + Is(i, j)
        BY <1>1, <2>2, <2>3, <3>1
      <4>2. inode[j].ref \in Nat
        BY DEF IInv, TypeOK, Entries
      <4> HIDE DEF i
      <4> QED
        BY ONLY <4>1, <4>2, WeightType
    <3> QED
      BY <3>2 DEF Even
  <2> QED
    BY <1>2, <2>1, <2>2, <2>a, <2>b, CalmOK
<1>9. \/ inode' = t /\ Fail(p, <<i>>)
      \/ /\ inode' = t /\ disk.type[i] = "dir" /\ Parent(p) /\ Len(rest) = 1
         /\ Go(p, [pr[p] EXCEPT !.pc = Found(p)])
      \/ /\ inode' = Iget(t, next) /\ disk.type[i] = "dir"
         /\ disk.nlink[i] # 0 /\ next # 0 /\ ~(Parent(p) /\ Len(rest) = 1)
         /\ Go(p, [pr[p] EXCEPT !.at = next, !.rest = Tail(rest),
                                 !.todo = <<i>>])
  BY <1>2, <1>4 DEF NamexElement
<1> QED
  BY <1>6, <1>7, <1>8, <1>9

\* sys_open() with the inode locked.
LEMMA AllocFollows ==
  ASSUME IInv, NEW p \in Procs, NEW r \in Records,
         r.pc = "filealloc", r.at # 0, r.ip = 0, r.op = "none", r.fr = "no",
         Len(r.todo) <= 2, Go(p, r), lock'[r.at] = p,
         booting = FALSE, booting' = booting
  PROVE  Follows(p, r) /\ \A i \in Inums : ~Counts(r, i)
<1>1. Shape(r)
  BY DEF Shape, Ops
<1>2. Moves(p, r)
  BY <1>1 DEF Moves, Go
<1>3. pr'[p] = r
  BY <1>2, MovesIs
<1>4. LockedBy(p)' /\ FreeingBy(p)' /\ DirsOf(p)'
  BY <1>3 DEF LockedBy, FreeingBy, DirsOf
<1>5. \A i \in Inums : ~Counts(r, i)
  BY DEF Counts, Inums
<1> QED
  BY <1>2, <1>4, <1>5 DEF Follows

\* The record of such a process.
AllocRec(a) == [Idle EXCEPT !.pc = "filealloc", !.at = a]

\* The call that is about to allocate a file points to its inode.
LEMMA AllocIs ==
  ASSUME NEW a \in Inums
  PROVE  /\ AllocRec(a) \in Records /\ AllocRec(a).pc = "filealloc"
         /\ AllocRec(a).at = a /\ a # 0 /\ AllocRec(a).ip = 0
         /\ AllocRec(a).op = "none" /\ AllocRec(a).fr = "no"
         /\ Len(AllocRec(a).todo) <= 2
         /\ \A i \in Inums : Weight(AllocRec(a), i) = Is(a, i)
<1> DEFINE r == AllocRec(a)
<1>1. /\ r.pc = "filealloc" /\ r.at = a /\ r.ip = 0
      /\ r.op = "none" /\ r.fr = "no" /\ r.todo = <<>>
  BY DEF AllocRec, Idle
<1>2. r \in Records
  <2>1. "filealloc" \in PCs /\ a \in Numbers
    BY DEF PCs, Numbers, Inums
  <2> QED
    BY <2>1, IdleIs DEF AllocRec, Records
<1>3. a # 0
  BY DEF Inums
<1> HIDE DEF r
<1>4. \A i \in Inums : Weight(r, i) = Is(a, i)
  <2>1. \A i \in Inums : Weight(r, i) = Is(r.at, i) + Is(r.ip, i)
    BY <1>1, WeightIs
  <2>2. \A i \in Inums : Is(r.ip, i) = 0
    BY <1>1 DEF Is, Inums
  <2> QED
    BY <1>1, <2>1, <2>2, WeightType
<1>5. Len(r.todo) <= 2
  BY <1>1
<1> QED
  BY <1>1, <1>2, <1>3, <1>4, <1>5 DEF r

\* Inode a is read, locked and about to be opened.
LEMMA LockAllocOK ==
  ASSUME IInv, NEW p \in Procs, NEW a, pr[p].at = a, pr[p].ip = 0,
         pr[p].pc # "idle", At(p, pr[p].pc), pr[p].at # 0,
         CanLock(a), inode' = Ilock(inode, disk, a),
         lock' = [lock EXCEPT ![a] = p], Go(p, AllocRec(a)),
         booting' = booting, UNCHANGED <<disk, saved, files>>
  PROVE  IInv'
<1>1. /\ pr[p].todo = <<>> /\ pr[p].fr = "no" /\ booting = FALSE
      /\ \A j \in Inums : Weight(pr[p], j) = Is(pr[p].at, j) + Is(pr[p].ip, j)
  BY AtIs
<1>2. InUse(p, a) /\ a \in Inums
  BY ProcIs DEF InUse
<1>3. LockMove(p) /\ lock'[a] = p
  BY <1>2, LockMoves DEF CanLock, IInv, TypeOK
<1>4. Calm(p, {a}) /\ \A j \in Inums : inode'[j].ref = inode[j].ref
  BY <1>1, <1>2, <1>3, LockCalm
<1>5. Follows(p, AllocRec(a))
  BY <1>1, <1>2, <1>3, AllocIs, AllocFollows
<1>6. Even(p, AllocRec(a))
  <2>1. \A j \in Inums : Is(pr[p].ip, j) = 0
    BY DEF Is, Inums
  <2> QED
    BY <1>1, <1>2, <1>4, <2>1, AllocIs, WeightType DEF Even
<1> QED
  BY <1>2, <1>4, <1>5, <1>6, CalmOK

\* Inode a is read, and the call is over.
LEMMA LockEndOK ==
  ASSUME IInv, NEW p \in Procs, NEW a, pr[p].at = a, pr[p].ip = 0,
         pr[p].pc # "idle", At(p, pr[p].pc), pr[p].at # 0,
         inode' = Ilock(inode, disk, a), LockMove(p), Finish(p, <<a>>),
         booting' = booting, UNCHANGED <<disk, saved, files>>
  PROVE  IInv'
<1>1. /\ pr[p].todo = <<>> /\ pr[p].fr = "no" /\ booting = FALSE
      /\ \A j \in Inums : Weight(pr[p], j) = Is(pr[p].at, j) + Is(pr[p].ip, j)
  BY AtIs
<1>2. InUse(p, a) /\ a \in Inums
  BY ProcIs DEF InUse
<1>3. <<a>> \in Seq(Inums) /\ Len(<<a>>) <= 2
  BY <1>2
<1>4. Calm(p, {a}) /\ \A j \in Inums : inode'[j].ref = inode[j].ref
  BY <1>1, <1>2, LockCalm
<1>5. Follows(p, EndRec(<<a>>))
      /\ \A i \in Inums : Weight(EndRec(<<a>>), i) = Is(a, i)
  BY <1>1, <1>3, EndFollows
<1>6. Even(p, EndRec(<<a>>))
  <2>1. \A j \in Inums : Is(pr[p].ip, j) = 0
    BY DEF Is, Inums
  <2> QED
    BY <1>1, <1>2, <1>4, <1>5, <2>1, WeightType DEF Even
<1> QED
  BY <1>2, <1>4, <1>5, <1>6, CalmOK

\* sys_open() of an existing file.
LEMMA OpenLockOK ==
  ASSUME IInv, NEW p \in Procs, OpenLock(p)
  PROVE  IInv'
<1>1. At(p, "open") /\ pr[p].pc = "open"
  BY DEF OpenLock, At
<1>2. pr[p].at # 0 /\ pr[p].ip = 0 /\ HasType(pr[p].at)
  BY <1>1, ProcIs DEF Shape, InUse
<1>3. /\ CanLock(pr[p].at) /\ inode' = Ilock(inode, disk, pr[p].at)
      /\ lock' = [lock EXCEPT ![pr[p].at] = p] /\ Go(p, AllocRec(pr[p].at))
      /\ booting' = booting /\ UNCHANGED <<disk, saved, files>>
  BY <1>2 DEF OpenLock, AllocRec, world
<1> QED
  BY <1>1, <1>2, <1>3, LockAllocOK

\* create() of a file that exists.
LEMMA CreateFoundOK ==
  ASSUME IInv, NEW p \in Procs, CreateFound(p)
  PROVE  IInv'
<1>1. At(p, "exists") /\ pr[p].pc = "exists"
  BY DEF CreateFound, At
<1>2. pr[p].at # 0 /\ pr[p].ip = 0 /\ HasType(pr[p].at)
  BY <1>1, ProcIs DEF Shape, InUse
<1>3. /\ CanLock(pr[p].at) /\ inode' = Ilock(inode, disk, pr[p].at)
      /\ booting' = booting /\ UNCHANGED <<disk, saved, files>>
      /\ \/ lock' = [lock EXCEPT ![pr[p].at] = p] /\ Go(p, AllocRec(pr[p].at))
         \/ Finish(p, <<pr[p].at>>) /\ UNCHANGED lock
  BY <1>2 DEF CreateFound, AllocRec, world
<1>4. CASE lock' = [lock EXCEPT ![pr[p].at] = p] /\ Go(p, AllocRec(pr[p].at))
  BY <1>1, <1>2, <1>3, <1>4, LockAllocOK
<1>5. CASE Finish(p, <<pr[p].at>>) /\ UNCHANGED lock
  BY <1>1, <1>2, <1>3, <1>5, LockEndOK, LockMoves
<1> QED
  BY <1>3, <1>4, <1>5

\* create() that finds the name.
LEMMA CreateExistingOK ==
  ASSUME IInv, NEW p \in Procs, CreateExisting(p)
  PROVE  IInv'
<1> DEFINE dp == pr[p].at
           ip == Dirlookup(disk, dp, Head(pr[p].rest))
           t == Ilock(inode, disk, dp)
<1>1. /\ pr[p].op \in {"create", "mkdir"} /\ At(p, pr[p].op)
      /\ pr[p].pc = pr[p].op /\ CanLock(dp)
      /\ disk' = disk /\ lock' = lock /\ UNCHANGED files
      /\ saved' = saved /\ booting' = booting
  BY DEF CreateExisting, At, world
<1>2. /\ pr[p] \in Records /\ Shape(pr[p]) /\ dp # 0 /\ pr[p].ip = 0
      /\ dp \in Inums /\ InUse(p, dp) /\ disk.type[dp] = "dir"
      /\ Len(pr[p].rest) = 1
  BY <1>1, ProcIs DEF Shape, InUse, DirsOf
<1>3. Head(pr[p].rest) \in Elems
  <2>0. pr[p].rest \in Seq(Elems)
    BY <1>2 DEF Records
  <2> QED
    BY <1>2, <2>0, OneElem
<1>4. LockMove(p)
  BY <1>1, LockMoves
<1>5. CASE inode' = t /\ Finish(p, <<dp>>)
  BY <1>1, <1>2, <1>4, <1>5, LockEndOK
<1>6. ASSUME t[dp].nlink # 0, ip # 0, inode' = Iget(t, ip),
             Go(p, [pr[p] EXCEPT !.pc = "exists", !.at = ip, !.rest = <<>>,
                                 !.todo = <<dp>>])
      PROVE  IInv'
  <2>0. /\ pr[p].todo = <<>> /\ pr[p].fr = "no" /\ booting = FALSE
        /\ \A j \in Inums : Weight(pr[p], j) = Is(dp, j) + Is(pr[p].ip, j)
    BY <1>1, AtIs
  <2>1. ip \in Inums /\ disk.type[ip] # "free"
        /\ (disk.nlink[ip] # 0 \/ ip = dp)
    BY <1>2, <1>3, <1>6, EntryIs, LookupIs
  <2>2. Calm(p, {dp, ip})
        /\ \A j \in Inums : inode'[j].ref = inode[j].ref + Is(ip, j)
    <3> HIDE DEF ip
    <3> QED
      BY <1>1, <1>2, <1>4, <1>6, <2>0, <2>1, GetCalm
  <2> DEFINE r == [pr[p] EXCEPT !.pc = "exists", !.at = ip, !.rest = <<>>,
                                !.todo = <<dp>>]
  <2>3. /\ r.pc = "exists" /\ r.op = pr[p].op /\ r.at = ip /\ r.ip = 0
        /\ r.todo = <<dp>> /\ r.fr = "no" /\ r.new = pr[p].new
    BY <1>2, <2>0 DEF Records
  <2>4. r \in Records
    <3>1. ip \in Numbers /\ <<dp>> \in Seq(Inums) /\ <<>> \in Seq(Elems)
          /\ "exists" \in PCs
      BY <1>2, <2>1 DEF Numbers, Inums, PCs
    <3> QED
      BY <1>2, <3>1 DEF Records
  <2>g. Go(p, r) /\ ip # 0
    BY <1>6
  <2> HIDE DEF r, ip
  <2>5. Shape(r)
    <3>1. <<dp>> # <<>> /\ Len(<<dp>>) = 1
      OBVIOUS
    <3>2. Len(r.todo) <= 2 /\ r.todo # <<>> /\ r.at # 0
      BY <2>g, <2>3, <3>1
    <3> QED
      BY <1>1, <2>3, <3>2 DEF Shape, Ops
  <2>6. Moves(p, r)
    BY <1>1, <2>0, <2>g, <2>4, <2>5 DEF Moves, Go
  <2>7. pr'[p] = r
    BY <2>6, MovesIs
  <2>8. LockedBy(p)' /\ FreeingBy(p)' /\ DirsOf(p)'
    BY <2>3, <2>7 DEF LockedBy, FreeingBy, DirsOf
  <2>a. Follows(p, r)
    BY <2>3, <2>6, <2>8 DEF Follows, Counts, Inums
  <2>b. Even(p, r)
    <3>1. \A j \in Inums : Weight(r, j) = Is(r.at, j) + Is(r.ip, j) + Is(dp, j)
      BY <2>3, WeightIs
    <3>2. ASSUME NEW j \in Inums
          PROVE  inode'[j].ref + Weight(pr[p], j) = inode[j].ref + Weight(r, j)
      <4>1. /\ inode'[j].ref = inode[j].ref + Is(ip, j)
            /\ Weight(pr[p], j) = Is(dp, j) + Is(0, j)
            /\ Weight(r, j) = Is(ip, j) + Is(0, j) + Is(dp, j)
        BY <1>2, <2>0, <2>2, <2>3, <3>1
      <4>2. inode[j].ref \in Nat
        BY DEF IInv, TypeOK, Entries
      <4> HIDE DEF dp
      <4> QED
        BY ONLY <4>1, <4>2, WeightType
    <3> QED
      BY <3>2 DEF Even
  <2> QED
    BY <1>2, <2>1, <2>2, <2>a, <2>b, CalmOK
<1> QED
  BY <1>5, <1>6 DEF CreateExisting

\* sys_unlink() that finds the entry keeps the directory locked.
LEMMA UnlinkParentOK ==
  ASSUME IInv, NEW p \in Procs, UnlinkParent(p)
  PROVE  IInv'
<1> DEFINE dp == pr[p].at
           name == Head(pr[p].rest)
           ip == Dirlookup(disk, dp, name)
           t == Ilock(inode, disk, dp)
<1>1. /\ At(p, "unlink") /\ pr[p].pc = "unlink" /\ CanLock(dp)
      /\ disk' = disk /\ UNCHANGED files
      /\ saved' = saved /\ booting' = booting
  BY DEF UnlinkParent, At, world
<1>2. /\ pr[p] \in Records /\ Shape(pr[p]) /\ dp # 0 /\ pr[p].ip = 0
      /\ dp \in Inums /\ InUse(p, dp) /\ disk.type[dp] = "dir"
      /\ Len(pr[p].rest) = 1 /\ pr[p].op = "unlink"
  BY <1>1, ProcIs DEF Shape, InUse, DirsOf, Ops
<1>3. name \in Elems
  <2>0. pr[p].rest \in Seq(Elems)
    BY <1>2 DEF Records
  <2> QED
    BY <1>2, <2>0, OneElem
<1>4. CASE inode' = t /\ Finish(p, <<dp>>) /\ UNCHANGED lock
  BY <1>1, <1>2, <1>4, LockEndOK, LockMoves
<1>5. ASSUME name \notin {".", ".."}, ip # 0, inode' = Iget(t, ip),
             lock' = [lock EXCEPT ![dp] = p],
             Go(p, [pr[p] EXCEPT !.pc = "unlink2", !.ip = ip])
      PROVE  IInv'
  <2>0. /\ pr[p].todo = <<>> /\ pr[p].fr = "no" /\ booting = FALSE
        /\ \A j \in Inums : Weight(pr[p], j) = Is(dp, j) + Is(pr[p].ip, j)
    BY <1>1, AtIs
  <2>n. name \in Names /\ ip = disk.dir[dp][name]
    BY <1>3, <1>5 DEF Elems, Dirlookup
  <2>1. ip \in Inums /\ disk.type[ip] # "free"
        /\ (disk.nlink[ip] # 0 \/ ip = dp)
    BY <1>2, <1>3, <1>5, <2>n, LookupIs
  <2>m. LockMove(p) /\ lock'[dp] = p
    BY <1>1, <1>2, <1>5, LockMoves DEF CanLock, IInv, TypeOK
  <2>2. Calm(p, {dp, ip}) /\ inode'[dp].valid
        /\ \A j \in Inums : inode'[j].ref = inode[j].ref + Is(ip, j)
    <3> HIDE DEF ip
    <3> QED
      BY <1>1, <1>2, <1>5, <2>0, <2>1, <2>m, GetCalm
  <2> DEFINE r == [pr[p] EXCEPT !.pc = "unlink2", !.ip = ip]
  <2>3. /\ r.pc = "unlink2" /\ r.op = "unlink" /\ r.at = dp /\ r.ip = ip
        /\ r.todo = <<>> /\ r.fr = "no" /\ r.rest = pr[p].rest
    BY <1>2, <2>0 DEF Records
  <2>4. r \in Records
    <3>1. ip \in Numbers /\ "unlink2" \in PCs
      BY <1>2, <2>1 DEF Numbers, Inums, PCs
    <3> QED
      BY <1>2, <3>1 DEF Records
  <2>g. Go(p, r) /\ ip # 0
    BY <1>5
  <2> HIDE DEF r, ip
  <2>5. Shape(r)
    <3>1. Len(r.todo) <= 2 /\ r.at # 0 /\ Len(r.rest) = 1
      BY <1>2, <2>3
    <3> QED
      BY <2>g, <2>3, <3>1 DEF Shape, Ops
  <2>6. Moves(p, r)
    BY <1>1, <2>0, <2>g, <2>4, <2>5 DEF Moves, Go
  <2>7. pr'[p] = r
    BY <2>6, MovesIs
  <2>8. LockedBy(p)' /\ FreeingBy(p)'
    BY <2>3, <2>7, <2>m DEF LockedBy, FreeingBy
  <2>9. DirsOf(p)'
    <3>1. ~Counts(r, r.ip)
      BY <2>3 DEF Counts
    <3> QED
      BY <1>1, <1>2, <2>n, <2>2, <2>3, <2>7, <3>1 DEF DirsOf
  <2>a. Follows(p, r)
    BY <2>3, <2>6, <2>8, <2>9 DEF Follows, Counts
  <2>b. Even(p, r)
    <3>1. \A j \in Inums : Weight(r, j) = Is(r.at, j) + Is(r.ip, j)
      BY <2>3, WeightIs
    <3>2. ASSUME NEW j \in Inums
          PROVE  inode'[j].ref + Weight(pr[p], j) = inode[j].ref + Weight(r, j)
      <4>1. /\ inode'[j].ref = inode[j].ref + Is(ip, j)
            /\ Weight(pr[p], j) = Is(dp, j) + Is(0, j)
            /\ Weight(r, j) = Is(dp, j) + Is(ip, j) /\ Is(0, j) = 0
        BY <1>2, <2>0, <2>2, <2>3, <3>1 DEF Is, Inums
      <4>2. inode[j].ref \in Nat
        BY DEF IInv, TypeOK, Entries
      <4> HIDE DEF dp
      <4> QED
        BY ONLY <4>1, <4>2, WeightType
    <3> QED
      BY <3>2 DEF Even
  <2> QED
    BY <1>2, <2>1, <2>2, <2>a, <2>b, CalmOK
<1> QED
  BY <1>4, <1>5 DEF UnlinkParent

\* end_op(): what is committed is the sound disk of the moment.
LEMMA EndOpOK ==
  ASSUME IInv, NEW p \in Procs, EndOp(p)
  PROVE  IInv'
<1>1. /\ At(p, "end") /\ pr[p].pc = "end" /\ disk' = disk /\ inode' = inode
      /\ lock' = lock /\ UNCHANGED files /\ booting' = booting
      /\ saved' \in {saved, disk} /\ pr' = [pr EXCEPT ![p] = Idle]
  BY DEF EndOp, At
<1>2. /\ pr[p].todo = <<>> /\ pr[p].fr = "no" /\ booting = FALSE
      /\ \A j \in Inums : Weight(pr[p], j) = Is(pr[p].at, j) + Is(pr[p].ip, j)
  BY <1>1, AtIs
<1>3. pr[p].at = 0 /\ pr[p].ip = 0
  BY <1>1, ProcIs DEF Shape
<1>4. Calm(p, {})
  BY <1>1, <1>2 DEF Calm, Keeps, IInv, TypeOK
<1>5. Moves(p, Idle)
  BY <1>1, <1>2, IdleIs DEF Moves
<1>6. pr'[p] = Idle
  BY <1>5, MovesIs
<1>7. LockedBy(p)' /\ FreeingBy(p)' /\ DirsOf(p)'
  BY <1>6 DEF LockedBy, FreeingBy, DirsOf, Idle
<1>8. Follows(p, Idle)
  BY <1>5, <1>7 DEF Follows, Counts, Idle
<1>9. Even(p, Idle)
  <2>1. \A j \in Inums : Is(0, j) = 0
    BY DEF Is, Inums
  <2> QED
    BY <1>1, <1>2, <1>3, <2>1, IdleIs DEF Even
<1> QED
  BY <1>4, <1>8, <1>9, CalmOK

\* The last close of a file.
LEMMA ClosePutOK ==
  ASSUME IInv, NEW p \in Procs, ClosePut(p)
  PROVE  IInv'
<1> DEFINE a == pr[p].at
<1>1. /\ At(p, "fileclose") /\ pr[p].pc = "fileclose" /\ disk' = disk
      /\ inode' = inode /\ Finish(p, <<a>>)
      /\ lock' = lock /\ UNCHANGED files /\ booting' = booting
      /\ saved' = saved
  BY DEF ClosePut, At
<1>2. /\ pr[p].todo = <<>> /\ pr[p].fr = "no" /\ booting = FALSE
      /\ \A j \in Inums : Weight(pr[p], j) = Is(a, j) + Is(pr[p].ip, j)
  BY <1>1, AtIs
<1>3. a \in Inums /\ pr[p].ip = 0
  BY <1>1, ProcIs DEF Shape, InUse
<1>4. Calm(p, {})
  BY <1>1, <1>2 DEF Calm, Keeps, IInv, TypeOK
<1>s. <<a>> \in Seq(Inums) /\ Len(<<a>>) <= 2
  BY <1>3
<1>5. Follows(p, EndRec(<<a>>))
      /\ \A i \in Inums : Weight(EndRec(<<a>>), i) = Is(a, i)
  BY <1>1, <1>2, <1>s, EndFollows
<1>6. Even(p, EndRec(<<a>>))
  <2>1. \A j \in Inums : Is(pr[p].ip, j) = 0
    BY <1>3 DEF Is, Inums
  <2> QED
    BY <1>1, <1>2, <1>3, <1>5, <2>1, WeightType DEF Even
<1> QED
  BY <1>4, <1>5, <1>6, CalmOK

\* The inode where a path starts.
LEMMA StartIs ==
  ASSUME IInv, booting = FALSE, NEW p \in Procs, NEW path, IsPath(path)
  PROVE  /\ Start(p, path) \in Inums /\ Elements(path) \in Seq(Elems)
         /\ disk.type[Start(p, path)] # "free"
         /\ Start(p, path) \notin Freed(p)
         /\ disk.nlink[Start(p, path)] # 0 \/ Mine(p, Start(p, path))
<1>1. /\ ROOTINO \in Inums /\ disk.type[ROOTINO] # "free"
      /\ disk.nlink[ROOTINO] # 0
  BY FileSysAssumption DEF ROOTINO, Inums, IInv, DiskOK, TypeOK, Disks
<1>2. ROOTINO \notin Freed(p)
  BY <1>1, LinkedSafe
<1>3. InUse(p, cwd[p]) /\ Mine(p, cwd[p])
  BY ProcIs DEF Mine
<1> QED
  BY <1>1, <1>2, <1>3 DEF Start, InUse, IsPath

\* The start of a call with a path.
LEMMA BeginOK ==
  ASSUME IInv, NEW p \in Procs, NEW c \in Calls, Begin(p, c)
  PROVE  IInv'
<1>0. PICK b : b = Start(p, c.path)
  OBVIOUS
<1> DEFINE r == [pr[p] EXCEPT !.pc = "namex", !.op = c.op, !.new = c.new,
                              !.at = b, !.rest = Elements(c.path)]
<1>1. /\ pr[p].pc = "idle" /\ disk' = disk /\ ~booting
      /\ inode' = Iget(inode, b) /\ Go(p, r)
      /\ lock' = lock /\ UNCHANGED files /\ booting' = booting
      /\ saved' = saved
  BY <1>0 DEF Begin, At
<1>2. pr[p] = Idle /\ pr[p] \in Records /\ booting = FALSE
  BY <1>1, ProcIs DEF Shape
<1>3. /\ c.op \in Ops /\ IsPath(c.path)
      /\ c.op = "link" => IsPath(c.new)
      /\ c.new \in Seq(Elems \cup {"/"})
  <2>1. /\ c.op \in Ops /\ IsPath(c.path)
        /\ IF c.op = "link" THEN IsPath(c.new) ELSE c.new = <<>>
    BY CallsAssumption
  <2>2. <<>> \in Seq(Elems \cup {"/"})
    OBVIOUS
  <2> QED
    BY <2>1, <2>2 DEF IsPath
<1>4. /\ b \in Inums /\ Elements(c.path) \in Seq(Elems)
      /\ disk.type[b] # "free" /\ b \notin Freed(p)
      /\ disk.nlink[b] # 0 \/ Mine(p, b)
  BY <1>0, <1>2, <1>3, StartIs
<1>5. /\ r.pc = "namex" /\ r.op = c.op /\ r.at = b /\ r.ip = 0
      /\ r.todo = <<>> /\ r.fr = "no" /\ r.new = c.new
  BY <1>2 DEF Idle
<1>6. r \in Records
  <2>1. b \in Numbers /\ "namex" \in PCs /\ c.op \in Ops \cup {"none"}
    BY <1>3, <1>4 DEF Numbers, Inums, PCs
  <2> QED
    BY <1>2, <1>3, <1>4, <2>1 DEF Records
<1> HIDE DEF r
<1>7. Shape(r)
  <2>1. r.at # 0 /\ Len(r.todo) <= 2
    BY <1>4, <1>5 DEF Inums
  <2> QED
    BY <1>3, <1>5, <2>1 DEF Shape, Ops
<1>8. Moves(p, r)
  BY <1>1, <1>6, <1>7 DEF Moves, Go
<1>9. pr'[p] = r
  BY <1>8, MovesIs
<1>a. Follows(p, r)
  <2>1. LockedBy(p)' /\ FreeingBy(p)' /\ DirsOf(p)'
    BY <1>5, <1>9 DEF LockedBy, FreeingBy, DirsOf
  <2> QED
    BY <1>5, <1>8, <2>1 DEF Follows, Counts, Inums
<1>b. inode \in [Inums -> Entries] /\ inode[b] \in Entries
      /\ \A i \in Inums : inode[i].ref \in Nat
  BY <1>4 DEF IInv, TypeOK, Entries
<1>c. /\ inode' = [inode EXCEPT ![b] = More(inode[b])]
      /\ inode' \in [Inums -> Entries]
      /\ More(inode[b]).ref = inode[b].ref + 1
  BY <1>1, <1>4, <1>b, IgetIs
<1>d. inode'[b] = More(inode[b]) /\ \A i \in Inums \ {b} : inode'[i] = inode[i]
  BY <1>b, <1>c, <1>4
<1>e. /\ inode'[b].ref > 0
      /\ inode'[b].valid => inode[b].valid /\ inode'[b].type = inode[b].type
                            /\ inode'[b].nlink = inode[b].nlink
      /\ inode[b].valid /\ inode[b].ref > 0 => inode'[b].valid
  BY <1>b, <1>d, GetEntry
<1>f. TableAt(b)'
  <2>1. inode'[b].ref # 0
    BY <1>c, <1>e, <1>4 DEF Entries
  <2>2. TableAt(b)
    BY <1>4 DEF IInv, Table
  <2> QED
    BY <1>1, <1>4, <1>e, <2>1, <2>2 DEF TableAt
<1>g. b \in Orphans(disk)' => Noticed(b)'
  <2> SUFFICES ASSUME b \in Orphans(disk) PROVE inode'[b].valid
    BY <1>1 DEF Noticed
  <2>1. Mine(p, b)
    BY <1>4 DEF Orphans
  <2>2. inode[b].ref >= 1 /\ inode[b].ref \in Nat
    BY <1>4, <1>b, <2>1, MineHeld
  <2>3. inode[b].valid
    BY <1>1, <1>2, <1>4, OrphanValid DEF Idle
  <2> QED
    BY <1>e, <2>2, <2>3
<1>k. \A i \in Inums : Keeps(p, i)
  <2>1. inode[b].valid => inode[b].ref > 0
    BY <1>4, <1>b DEF IInv, Table, TableAt, Unused
  <2> QED
    BY <1>d, <1>e, <2>1 DEF Keeps
<1>h. Calm(p, {b})
  BY <1>1, <1>2, <1>4, <1>c, <1>d, <1>f, <1>g, <1>k
     DEF Calm, Idle, IInv, TypeOK
<1>i. Even(p, r)
  <2> SUFFICES ASSUME NEW j \in Inums
               PROVE  inode'[j].ref + Weight(pr[p], j) =
                        inode[j].ref + Weight(r, j)
    BY DEF Even
  <2>1. Weight(pr[p], j) = 0
    BY <1>2, IdleIs
  <2>2. Weight(r, j) = Is(b, j)
    <3>1. Weight(r, j) = Is(r.at, j) + Is(r.ip, j) /\ Is(r.ip, j) = 0
      BY <1>5, WeightIs DEF Is, Inums
    <3> QED
      BY <1>5, <3>1, WeightType
  <2>3. inode'[j].ref = inode[j].ref + Is(b, j)
    BY <1>b, <1>c, <1>d DEF Is
  <2> QED
    BY <1>b, <2>1, <2>2, <2>3, WeightType
<1> QED
  BY <1>4, <1>a, <1>h, <1>i, CalmOK
-----------------------------------------------------------------------------
\* iput().

\* The list of inodes to put, without its first.
LEMMA TodoTail ==
  ASSUME NEW todo \in Seq(Inums), todo # <<>>, Len(todo) <= 2
  PROVE  /\ Tail(todo) \in Seq(Inums) /\ Len(Tail(todo)) <= 2
         /\ \/ Len(todo) = 1 /\ Tail(todo) = <<>>
            \/ /\ Len(todo) = 2 /\ Tail(todo) # <<>> /\ Len(Tail(todo)) = 1
               /\ Head(Tail(todo)) = todo[2]
<1>0. \A s \in Seq(Inums) : s = <<>> <=> Len(s) = 0
  BY EmptySeq
<1>1. Tail(todo) \in Seq(Inums) /\ Len(Tail(todo)) = Len(todo) - 1
      /\ Len(todo) \in Nat /\ Len(todo) # 0
  BY EmptySeq
<1> DEFINE t == Tail(todo)
<1>4. t \in Seq(Inums) /\ Len(t) = Len(todo) - 1
  BY <1>1
<1>5. t = <<>> <=> Len(t) = 0
  BY <1>0, <1>4
<1> HIDE DEF t
<1>6. Len(todo) = 1 \/ Len(todo) = 2
  BY <1>1
<1>7. Len(todo) = 1 => t = <<>>
  BY <1>4, <1>5
<1>8. Len(todo) = 2 => t # <<>> /\ Len(t) = 1
  BY <1>4, <1>5
<1> QED
  <2>1. ASSUME Len(todo) = 2 PROVE Head(t) = todo[2]
    <3>1. Tail(todo) # <<>>
      BY <1>8, <2>1 DEF t
    <3>2. Head(Tail(todo)) = todo[2]
      BY <1>1, <2>1, <3>1
    <3> QED
      BY <3>2 DEF t
  <2>2. Len(t) <= 2
    BY <1>1, <1>4, <1>6
  <2>3. /\ t \in Seq(Inums) /\ Len(t) <= 2
        /\ \/ Len(todo) = 1 /\ t = <<>>
           \/ /\ Len(todo) = 2 /\ t # <<>> /\ Len(t) = 1
              /\ Head(t) = todo[2]
    BY <1>4, <1>6, <1>7, <1>8, <2>1, <2>2
  <2> QED
    BY <2>3 DEF t

\* The pointers of a process that is done with the first of todo.
LEMMA TailWeight ==
  ASSUME NEW r \in Records, NEW s, r.todo # <<>>, Len(r.todo) <= 2,
         s.todo = Tail(r.todo), s.fr = "no", s.at = r.at, s.ip = r.ip,
         NEW i \in Inums
  PROVE  Weight(r, i) = Weight(s, i) + Is(Todo(r), i)
<1>1. r.todo \in Seq(Inums)
  BY DEF Records
<1>2. \/ Len(r.todo) = 1 /\ s.todo = <<>>
      \/ /\ Len(r.todo) = 2 /\ s.todo # <<>> /\ Len(s.todo) = 1
         /\ Head(s.todo) = r.todo[2]
  BY <1>1, TodoTail
<1>3. Todo2(r) = Todo(s) /\ Todo2(s) = 0
  <2>1. CASE Len(r.todo) = 1 /\ s.todo = <<>>
    BY <2>1 DEF Todo, Todo2
  <2>2. CASE Len(r.todo) = 2 /\ s.todo # <<>> /\ Len(s.todo) = 1
             /\ Head(s.todo) = r.todo[2]
    BY <2>2 DEF Todo, Todo2
  <2> QED
    BY <1>2, <2>1, <2>2
<1>4. Is(Todo2(s), i) = 0
  BY <1>3 DEF Is, Inums
<1>5. /\ Is(r.at, i) \in Nat /\ Is(r.ip, i) \in Nat /\ Is(Todo(r), i) \in Nat
      /\ Is(Todo2(r), i) \in Nat
  BY WeightType
<1> QED
  BY <1>3, <1>4, <1>5 DEF Weight

\* The next of todo, and a process that goes on with the rest.
LEMMA PutIs ==
  ASSUME IInv, NEW p \in Procs, pr[p].todo # <<>>
  PROVE  /\ booting = FALSE /\ pr[p] \in Records /\ Shape(pr[p])
         /\ Head(pr[p].todo) \in Inums /\ Len(pr[p].todo) <= 2
         /\ pr[p].todo \in Seq(Inums)
         /\ pr[p].pc \in {"end", "bad", "namex", "exists", "filealloc"}
         /\ LockedBy(p) /\ DirsOf(p) /\ FreeingBy(p)
         /\ Todo(pr[p]) = IF pr[p].fr = "free" THEN 0 ELSE Head(pr[p].todo)
         /\ pr[p].fr # "free" => InUse(p, Head(pr[p].todo))
  BY ProcIs DEF Shape, Records, Todo

\* The shape of a call does not depend on the progress of iput().
LEMMA ShapeSame ==
  ASSUME NEW r, NEW s, Shape(r), r.todo # <<>>, s.pc = r.pc, s.op = r.op,
         s.at = r.at, s.ip = r.ip, s.new = r.new, s.rest = r.rest,
         Len(s.todo) <= 2, s.fr # "no" => s.todo # <<>>
  PROVE  Shape(s)
<1>1. r.pc \in {"end", "bad", "namex", "exists", "filealloc"}
  BY DEF Shape
<1> QED
  BY <1>1 DEF Shape

\* The first critical section of iput().
LEMMA IputOK ==
  ASSUME IInv, NEW p \in Procs, Iput(p)
  PROVE  IInv'
<1>0. PICK i : i = Head(pr[p].todo)
  OBVIOUS
<1>1. /\ pr[p].todo # <<>> /\ pr[p].fr = "no" /\ disk' = disk
      /\ UNCHANGED files /\ saved' = saved /\ booting' = booting
  BY DEF Iput, world
<1>2. /\ booting = FALSE /\ pr[p] \in Records /\ Shape(pr[p])
      /\ i \in Inums /\ Len(pr[p].todo) <= 2 /\ pr[p].todo \in Seq(Inums)
      /\ pr[p].pc \in {"end", "bad", "namex", "exists", "filealloc"}
      /\ LockedBy(p) /\ DirsOf(p) /\ Todo(pr[p]) = i /\ InUse(p, i)
  BY <1>0, <1>1, PutIs
<1>3. inode \in [Inums -> Entries] /\ inode[i] \in Entries
      /\ inode[i].ref >= 1 /\ inode[i].ref \in Nat /\ i \notin Freed(p)
      /\ disk.type[i] # "free" /\ TableAt(i)
      /\ lock \in [Inums -> Procs \cup {NoProc}]
  BY <1>2 DEF InUse, IInv, TypeOK, Entries, Table
<1>4. ASSUME inode[i].ref = 1, inode[i].valid, inode[i].nlink = 0,
             CanLock(i), lock' = [lock EXCEPT ![i] = p],
             Go(p, [pr[p] EXCEPT !.fr = "trunc"]), UNCHANGED inode
      PROVE  IInv'
  <2> DEFINE r == [pr[p] EXCEPT !.fr = "trunc"]
  <2>1. /\ r.pc = pr[p].pc /\ r.op = pr[p].op /\ r.at = pr[p].at
        /\ r.ip = pr[p].ip /\ r.new = pr[p].new /\ r.rest = pr[p].rest
        /\ r.todo = pr[p].todo /\ r.fr = "trunc" /\ r \in Records
    BY <1>2 DEF Records
  <2>2. Go(p, r)
    BY <1>4
  <2> HIDE DEF r
  <2>3. Shape(r)
    BY <1>1, <1>2, <2>1, ShapeSame
  <2>4. Moves(p, r)
    BY <1>1, <1>2, <2>1, <2>2, <2>3 DEF Moves, Go
  <2>5. pr'[p] = r
    BY <2>4, MovesIs
  <2>6. LockMove(p) /\ lock'[i] = p
    BY <1>2, <1>3, <1>4, LockMoves DEF CanLock
  <2>7. LockedBy(p)'
    <3>1. r.pc \in {"filealloc", "unlink2"} => lock'[r.at] = p
      <4>1. pr[p].pc \in {"filealloc", "unlink2"} =>
              pr[p].at \in Inums /\ lock[pr[p].at] = p
        BY <1>2, ProcIs DEF LockedBy, Shape, InUse
      <4> QED
        BY <1>3, <1>4, <2>1, <4>1
    <3> QED
      BY <1>0, <2>1, <2>5, <2>6, <3>1 DEF LockedBy
  <2>8. DirsOf(p)'
    BY <1>1, <1>2, <2>1, <2>5 DEF DirsOf, Counts
  <2>9. FreeingBy(p)'
    <3>1. disk.nlink[i] = 0
      BY <1>3, <1>4 DEF TableAt
    <3> QED
      BY <1>0, <1>1, <1>3, <1>4, <2>1, <2>5, <3>1 DEF FreeingBy
  <2>a. Follows(p, r)
    BY <2>1, <2>4, <2>7, <2>8, <2>9 DEF Follows, Counts
  <2>b. Calm(p, {})
    BY <1>1, <1>3, <1>4, <2>6 DEF Calm, LockMove, Keeps
  <2>c. Even(p, r)
    <3>1. \A j \in Inums : Weight(r, j) = Weight(pr[p], j)
      BY <1>1, <2>1 DEF Weight, Todo, Todo2
    <3> QED
      BY <1>4, <3>1 DEF Even
  <2> QED
    BY <2>a, <2>b, <2>c, CalmOK
<1>5. ASSUME ~(inode[i].ref = 1 /\ inode[i].valid /\ inode[i].nlink = 0),
             inode' = Drop(inode, i), UNCHANGED lock,
             Go(p, [pr[p] EXCEPT !.todo = Tail(pr[p].todo)])
      PROVE  IInv'
  <2> DEFINE r == [pr[p] EXCEPT !.todo = Tail(pr[p].todo)]
  <2>1. /\ r.pc = pr[p].pc /\ r.op = pr[p].op /\ r.at = pr[p].at
        /\ r.ip = pr[p].ip /\ r.new = pr[p].new /\ r.rest = pr[p].rest
        /\ r.todo = Tail(pr[p].todo) /\ r.fr = "no" /\ r \in Records
        /\ Len(r.todo) <= 2
    BY <1>1, <1>2, TodoTail DEF Records
  <2>2. Go(p, r)
    BY <1>5
  <2> HIDE DEF r
  <2>3. Shape(r)
    BY <1>1, <1>2, <2>1, ShapeSame
  <2>4. Moves(p, r)
    BY <1>1, <1>2, <2>1, <2>2, <2>3 DEF Moves, Go
  <2>5. pr'[p] = r
    BY <2>4, MovesIs
  <2>7. LockedBy(p)' /\ FreeingBy(p)'
    BY <1>2, <1>5, <2>1, <2>5 DEF LockedBy, FreeingBy
  <2>8. DirsOf(p)'
    BY <1>1, <1>2, <2>1, <2>5 DEF DirsOf, Counts
  <2>a. Follows(p, r)
    BY <2>1, <2>4, <2>7, <2>8 DEF Follows, Counts
  <2>b. /\ inode' = [inode EXCEPT ![i] = Less(inode[i])]
        /\ inode' \in [Inums -> Entries]
        /\ Less(inode[i]).ref = inode[i].ref - 1
    BY <1>2, <1>3, <1>5, DropIs
  <2>c. inode'[i] = Less(inode[i]) /\ \A j \in Inums \ {i} : inode'[j] = inode[j]
    BY <1>2, <1>3, <2>b
  <2>d. TableAt(i)'
    <3>1. CASE inode[i].ref = 1
      BY <1>1, <2>c, <3>1 DEF TableAt, Less, Unused
    <3>2. CASE inode[i].ref # 1
      <4>1. /\ inode'[i].ref = inode[i].ref - 1
            /\ inode'[i].valid = inode[i].valid
            /\ inode'[i].type = inode[i].type
            /\ inode'[i].nlink = inode[i].nlink
        BY <1>3, <2>b, <2>c, <3>2 DEF Less, Entries
      <4> QED
        BY <1>1, <1>3, <3>2, <4>1 DEF TableAt
    <3> QED
      BY <3>1, <3>2
  <2>e. i \in Orphans(disk)' => Noticed(i)'
    <3> SUFFICES ASSUME i \in Orphans(disk) PROVE inode'[i].valid
      BY <1>1 DEF Noticed
    <3>1. inode[i].valid
      BY <1>1, <1>2, <1>3, OrphanValid
    <3>2. inode[i].nlink = 0
      BY <1>3, <3>1 DEF TableAt, Orphans
    <3> QED
      BY <1>3, <1>5, <2>c, <3>1, <3>2 DEF Less, Entries
  <2>k. \A j \in Inums : Keeps(p, j)
    <3>1. inode[i].ref # 1 => inode'[i].valid = inode[i].valid
      BY <1>3, <2>c DEF Less, Entries
    <3> QED
      BY <1>2, <2>c, <3>1 DEF Keeps
  <2>f. Calm(p, {i})
    BY <1>1, <1>3, <1>5, <2>b, <2>c, <2>d, <2>e, <2>k DEF Calm
  <2>g. Even(p, r)
    <3> SUFFICES ASSUME NEW j \in Inums
                 PROVE  inode'[j].ref + Weight(pr[p], j) =
                          inode[j].ref + Weight(r, j)
      BY DEF Even
    <3>1. Weight(pr[p], j) = Weight(r, j) + Is(i, j)
      BY <1>1, <1>2, <2>1, TailWeight
    <3>2. inode'[j].ref = inode[j].ref - Is(i, j) /\ inode[j].ref \in Nat
      BY <1>3, <2>b, <2>c DEF Is, IInv, TypeOK, Entries
    <3> QED
      BY <3>1, <3>2, WeightType
  <2> QED
    BY <1>2, <2>a, <2>f, <2>g, CalmOK
<1> QED
  BY <1>0, <1>4, <1>5 DEF Iput

\* The second critical section of iput().
LEMMA IputDropOK ==
  ASSUME IInv, NEW p \in Procs, IputDrop(p)
  PROVE  IInv'
<1>0. PICK i : i = Head(pr[p].todo)
  OBVIOUS
<1> DEFINE r == [pr[p] EXCEPT !.fr = "free"]
<1>1. /\ pr[p].fr = "drop" /\ disk' = disk /\ inode' = Drop(inode, i)
      /\ Go(p, r) /\ lock' = lock
      /\ UNCHANGED files /\ saved' = saved /\ booting' = booting
  BY <1>0 DEF IputDrop, world
<1>t. pr[p].todo # <<>>
  BY <1>1, ProcIs DEF Shape
<1>2. /\ booting = FALSE /\ pr[p] \in Records /\ Shape(pr[p])
      /\ i \in Inums /\ Len(pr[p].todo) <= 2 /\ pr[p].todo \in Seq(Inums)
      /\ pr[p].pc \in {"end", "bad", "namex", "exists", "filealloc"}
      /\ LockedBy(p) /\ DirsOf(p) /\ Todo(pr[p]) = i /\ InUse(p, i)
      /\ FreeingBy(p)
  BY <1>0, <1>1, <1>t, PutIs
<1>3. inode \in [Inums -> Entries] /\ inode[i].ref = 1
      /\ disk.nlink[i] = 0 /\ disk.type[i] # "free" /\ i \notin Freed(p)
      /\ lock \in [Inums -> Procs \cup {NoProc}]
  BY <1>0, <1>1, <1>2 DEF FreeingBy, IInv, TypeOK, InUse
<1>4. /\ r.pc = pr[p].pc /\ r.op = pr[p].op /\ r.at = pr[p].at
      /\ r.ip = pr[p].ip /\ r.new = pr[p].new /\ r.rest = pr[p].rest
      /\ r.todo = pr[p].todo /\ r.fr = "free" /\ r \in Records
  BY <1>2 DEF Records
<1> HIDE DEF r
<1>5. Shape(r)
  BY <1>2, <1>4, <1>t, ShapeSame
<1>6. Moves(p, r)
  BY <1>1, <1>2, <1>4, <1>5 DEF Moves, Go
<1>7. pr'[p] = r /\ \A q \in Procs \ {p} : pr'[q] = pr[q]
  BY <1>6, MovesIs
<1>8. /\ inode' = [inode EXCEPT ![i] = Less(inode[i])]
      /\ inode' \in [Inums -> Entries]
  BY <1>1, <1>2, <1>3, DropIs
<1>9. inode'[i] = Unused /\ \A j \in Inums \ {i} : inode'[j] = inode[j]
  BY <1>2, <1>3, <1>8 DEF Less
<1>a. LockedBy(p)'
  BY <1>1, <1>2, <1>4, <1>7 DEF LockedBy
<1>b. DirsOf(p)'
  BY <1>1, <1>2, <1>4, <1>7 DEF DirsOf, Counts
<1>c. FreeingBy(p)'
  <2>1. ASSUME NEW q \in Procs, pr'[q].fr = "free", Head(pr'[q].todo) = i,
               q # p
        PROVE  FALSE
    <3>1. pr[q].fr = "free" /\ Head(pr[q].todo) = i
      BY <1>7, <2>1
    <3> QED
      BY <1>2, <1>3, <2>1, <3>1 DEF Freed
  <2>2. inode'[i].ref = 0
    BY <1>9 DEF Unused
  <2> QED
    BY <1>0, <1>1, <1>3, <1>4, <1>7, <2>1, <2>2 DEF FreeingBy
<1>d. Follows(p, r)
  BY <1>4, <1>6, <1>a, <1>b, <1>c DEF Follows, Counts
<1>e. TableAt(i)' /\ Noticed(i)'
  <2>1. TableAt(i)'
    BY <1>9 DEF TableAt, Unused
  <2>2. Noticed(i)'
    BY <1>0, <1>4, <1>7 DEF Noticed
  <2> QED
    BY <2>1, <2>2
<1>k. \A j \in Inums : Keeps(p, j)
  BY <1>2, <1>3, <1>9 DEF Keeps
<1>f. Calm(p, {i})
  BY <1>0, <1>1, <1>3, <1>8, <1>9, <1>e, <1>k DEF Calm
<1>g. Even(p, r)
  <2> SUFFICES ASSUME NEW j \in Inums
               PROVE  inode'[j].ref + Weight(pr[p], j) =
                        inode[j].ref + Weight(r, j)
    BY DEF Even
  <2>1. Todo(r) = 0 /\ Todo2(r) = Todo2(pr[p]) /\ Is(0, j) = 0
    BY <1>4 DEF Todo, Todo2, Is, Inums
  <2>2. Weight(pr[p], j) = Weight(r, j) + Is(i, j)
    <3>1. /\ Is(r.at, j) \in Nat /\ Is(r.ip, j) \in Nat
          /\ Is(i, j) \in Nat /\ Is(Todo2(r), j) \in Nat
      BY WeightType
    <3> QED
      BY <1>2, <1>4, <2>1, <3>1 DEF Weight
  <2>3. inode'[j].ref = inode[j].ref - Is(i, j) /\ inode[j].ref \in Nat
    BY <1>3, <1>9 DEF Is, Unused, IInv, TypeOK, Entries
  <2> QED
    BY <2>2, <2>3, WeightType
<1> QED
  BY <1>2, <1>d, <1>f, <1>g, CalmOK

\* A step that writes to the disk.
LEMMA WriteOK ==
  ASSUME IInv, NEW p \in Procs, NEW r, NEW T \in SUBSET Inums,
         Moves(p, r), disk' \in Disks, DiskOK(disk'),
         inode' \in [Inums -> Entries], LockMove(p),
         UNCHANGED <<saved, files>>,
         Slack(p, r), Even(p, r), Touches(p, T), Leaves(p, T)
  PROVE  IInv'
<1>0. file' = file /\ ofile' = ofile /\ cwd' = cwd /\ saved' = saved
  BY DEF files
<1>1. pr' \in [Procs -> Records]
  BY MovesIs
<1>2. TypeOK'
  BY <1>0, <1>1 DEF IInv, TypeOK, Moves, LockMove
<1>3. DiskOK(disk)' /\ DiskOK(saved)'
  BY <1>0 DEF IInv
<1>4. Counted'
  BY CountedStep
<1>5. Balance(p, r)
  <2> SUFFICES ASSUME NEW i \in Inums
               PROVE  inode'[i].ref + (Weight(pr[p], i) + Is(cwd[p], i)) =
                        inode[i].ref + (Weight(r, i) + Is(cwd[p], i))
    BY <1>0 DEF Balance
  <2>1. inode'[i].ref + Weight(pr[p], i) = inode[i].ref + Weight(r, i)
    BY DEF Even
  <2>2. inode'[i].ref \in Nat /\ inode[i].ref \in Nat
    BY DEF Entries, IInv, TypeOK
  <2> QED
    BY ONLY <2>1, <2>2, WeightType
<1>6. Refs' /\ FileTable'
  BY <1>5, RefsStep
<1> QED
  BY <1>2, <1>3, <1>4, <1>6, StepOK

\* itrunc() of an inode without links.
LEMMA IputTruncOK ==
  ASSUME IInv, NEW p \in Procs, IputTrunc(p)
  PROVE  IInv'
<1>0. PICK i : i = Head(pr[p].todo)
  OBVIOUS
<1> DEFINE r == [pr[p] EXCEPT !.fr = "drop"]
<1>1. /\ pr[p].fr = "trunc"
      /\ disk' = [disk EXCEPT !.dir[i] = Empty, !.up[i] = 0]
      /\ inode' = [inode EXCEPT ![i].valid = FALSE]
      /\ lock' = [lock EXCEPT ![i] = NoProc]
      /\ Go(p, r) /\ UNCHANGED files /\ saved' = saved /\ booting' = booting
  BY <1>0 DEF IputTrunc, world
<1>t. pr[p].todo # <<>>
  BY <1>1, ProcIs DEF Shape
<1>2. /\ booting = FALSE /\ pr[p] \in Records /\ Shape(pr[p])
      /\ i \in Inums /\ Len(pr[p].todo) <= 2
      /\ pr[p].pc \in {"end", "bad", "namex", "exists", "filealloc"}
      /\ LockedBy(p) /\ DirsOf(p) /\ Todo(pr[p]) = i /\ InUse(p, i)
      /\ FreeingBy(p)
  BY <1>0, <1>1, <1>t, PutIs
<1>3. inode \in [Inums -> Entries] /\ inode[i].ref = 1
      /\ disk.nlink[i] = 0 /\ disk.type[i] # "free" /\ i \notin Freed(p)
      /\ lock \in [Inums -> Procs \cup {NoProc}] /\ lock[i] = p
      /\ disk \in Disks /\ DiskOK(disk)
  BY <1>0, <1>1, <1>2 DEF FreeingBy, LockedBy, IInv, TypeOK, InUse
<1>4. /\ r.pc = pr[p].pc /\ r.op = pr[p].op /\ r.at = pr[p].at
      /\ r.ip = pr[p].ip /\ r.new = pr[p].new /\ r.rest = pr[p].rest
      /\ r.todo = pr[p].todo /\ r.fr = "drop" /\ r \in Records
  BY <1>2 DEF Records
<1> HIDE DEF r
<1>5. Shape(r)
  BY <1>2, <1>4, <1>t, ShapeSame
<1>6. Moves(p, r)
  BY <1>1, <1>2, <1>4, <1>5 DEF Moves, Go
<1>7. pr'[p] = r /\ \A q \in Procs \ {p} : pr'[q] = pr[q]
  BY <1>6, MovesIs
<1>8. Empty \in [Names -> Numbers] /\ 0 \in Numbers
  BY FileSysAssumption DEF Empty, Numbers
<1>9. /\ disk' \in Disks /\ disk'.type = disk.type /\ disk'.nlink = disk.nlink
      /\ disk'.dir[i] = Empty /\ disk'.up[i] = 0
      /\ \A j \in Inums \ {i} : disk'.dir[j] = disk.dir[j]
                                /\ disk'.up[j] = disk.up[j]
  <2>1. /\ disk'.type = disk.type /\ disk'.nlink = disk.nlink
        /\ disk'.dir = [disk.dir EXCEPT ![i] = Empty]
        /\ disk'.up = [disk.up EXCEPT ![i] = 0]
    BY <1>1, <1>3 DEF Disks
  <2>2. disk' \in Disks
    BY <1>1, <1>2, <1>3, <1>8 DEF Disks
  <2>3. /\ disk.dir \in [Inums -> [Names -> Numbers]]
        /\ disk.up \in [Inums -> Numbers]
    BY <1>3 DEF Disks
  <2> QED
    BY <1>2, <2>1, <2>2, <2>3
<1>a. Cleared(disk, disk', i)
  BY <1>3, <1>9 DEF Cleared
<1>b. DiskOK(disk') /\ \A j \in Inums : Links(disk', j) <= Links(disk, j)
  BY <1>2, <1>3, <1>9, <1>a, ClearedOK
<1>c. /\ inode' \in [Inums -> Entries] /\ inode'[i].valid = FALSE
      /\ \A j \in Inums : inode'[j].ref = inode[j].ref
      /\ \A j \in Inums \ {i} : inode'[j] = inode[j]
  BY <1>1, <1>2, <1>3 DEF Entries
<1>d. LockMove(p)
  BY <1>1, <1>2, <1>3, LockMoves
<1>e. Slack(p, r)
  <2> SUFFICES ASSUME NEW j \in Inums
               PROVE  disk'.nlink[j] - Links(disk', j) >=
                        disk.nlink[j] - Links(disk, j) + C(r, j) - C(pr[p], j)
    BY DEF Slack
  <2>1. C(r, j) = C(pr[p], j) /\ C(r, j) \in Nat
    BY <1>4 DEF C, Counts
  <2>2. Links(disk', j) \in Nat /\ Links(disk, j) \in Nat
        /\ disk.nlink[j] \in Nat /\ disk'.nlink[j] = disk.nlink[j]
    BY <1>3, <1>9, LinksType DEF Disks
  <2>3. Links(disk', j) <= Links(disk, j)
    BY <1>b
  <2> QED
    BY ONLY <2>1, <2>2, <2>3
<1>f. Even(p, r)
  <2>1. \A j \in Inums : Weight(r, j) = Weight(pr[p], j)
    BY <1>1, <1>4 DEF Weight, Todo, Todo2
  <2> QED
    BY <1>c, <2>1 DEF Even
<1>k. \A j \in Inums : Keeps(p, j)
  BY <1>2, <1>3, <1>c DEF Keeps
<1>g. Touches(p, {i})
  BY <1>3, <1>9, <1>c, <1>d, <1>k DEF Touches, LockMove
<1>h. Leaves(p, {i})
  <2>1. LockedBy(p)'
    <3> SUFFICES ASSUME r.pc \in {"filealloc", "unlink2"}
                 PROVE  lock'[r.at] = p
      BY <1>4, <1>7 DEF LockedBy
    <3>1. pr[p].at \in Inums /\ lock[pr[p].at] = p
      BY <1>2, <1>4, ProcIs DEF LockedBy, Shape, InUse
    <3>2. pr[p].at # i
      <4> SUFFICES ASSUME pr[p].at = i PROVE FALSE
        OBVIOUS
      <4>1. <<"at", p>> \in Pointers /\ Pointer[<<"at", p>>] = i
        BY PointerIs DEF Pointers
      <4>2. <<"at", p>> = <<"todo", p>>
        BY <1>0, <1>1, <1>2, <4>1, Held
      <4> QED
        BY <4>2
    <3> QED
      BY <1>1, <1>3, <1>4, <3>1, <3>2
  <2>2. DirsOf(p)'
    BY <1>2, <1>4, <1>7, <1>9 DEF DirsOf, Counts
  <2>3. FreeingBy(p)'
    BY <1>0, <1>3, <1>4, <1>7, <1>9, <1>c DEF FreeingBy
  <2>4. TableAt(i)'
    BY <1>2, <1>3, <1>9, <1>c DEF TableAt
  <2>5. Noticed(i)'
    BY <1>0, <1>4, <1>7 DEF Noticed
  <2> QED
    BY <1>0, <2>1, <2>2, <2>3, <2>4, <2>5 DEF Leaves
<1> QED
  BY <1>1, <1>2, <1>6, <1>9, <1>b, <1>c, <1>d, <1>e, <1>f, <1>g, <1>h, WriteOK

\* ifree(): nobody can have taken the inode up again.
LEMMA IfreeOK ==
  ASSUME IInv, NEW p \in Procs, Ifree(p)
  PROVE  IInv'
<1>0. PICK i : i = Head(pr[p].todo)
  OBVIOUS
<1> DEFINE r == [pr[p] EXCEPT !.fr = "no", !.todo = Tail(pr[p].todo)]
<1>1. /\ pr[p].fr = "free" /\ disk' = [disk EXCEPT !.type[i] = "free"]
      /\ inode' = inode /\ lock' = lock
      /\ Go(p, r) /\ UNCHANGED files /\ saved' = saved /\ booting' = booting
  BY <1>0 DEF Ifree, world
<1>t. pr[p].todo # <<>>
  BY <1>1, ProcIs DEF Shape
<1>2. /\ booting = FALSE /\ pr[p] \in Records /\ Shape(pr[p])
      /\ i \in Inums /\ Len(pr[p].todo) <= 2 /\ pr[p].todo \in Seq(Inums)
      /\ pr[p].pc \in {"end", "bad", "namex", "exists", "filealloc"}
      /\ LockedBy(p) /\ DirsOf(p) /\ Todo(pr[p]) = 0 /\ FreeingBy(p)
  BY <1>0, <1>1, <1>t, PutIs
<1>3. inode \in [Inums -> Entries] /\ inode[i].ref = 0 /\ TableAt(i)
      /\ disk.nlink[i] = 0 /\ disk.type[i] # "free"
      /\ lock \in [Inums -> Procs \cup {NoProc}]
      /\ disk \in Disks /\ DiskOK(disk)
      /\ \A q \in Procs : pr[q].fr = "free" /\ Head(pr[q].todo) = i => q = p
  BY <1>0, <1>1, <1>2 DEF FreeingBy, IInv, TypeOK, Table
<1>4. /\ r.pc = pr[p].pc /\ r.op = pr[p].op /\ r.at = pr[p].at
      /\ r.ip = pr[p].ip /\ r.new = pr[p].new /\ r.rest = pr[p].rest
      /\ r.todo = Tail(pr[p].todo) /\ r.fr = "no" /\ r \in Records
      /\ Len(r.todo) <= 2
  BY <1>t, <1>2, TodoTail DEF Records
<1> HIDE DEF r
<1>5. Shape(r)
  BY <1>2, <1>4, <1>t, ShapeSame
<1>6. Moves(p, r)
  BY <1>1, <1>2, <1>4, <1>5 DEF Moves, Go
<1>7. pr'[p] = r /\ \A q \in Procs \ {p} : pr'[q] = pr[q]
  BY <1>6, MovesIs
<1>8. i \notin Freed(p)
  <2> SUFFICES ASSUME NEW q \in Procs \ {p}, pr[q].fr # "no",
                      Head(pr[q].todo) = i
               PROVE  FALSE
    BY DEF Freed
  <2>1. pr[q].fr \in {"trunc", "drop", "free"}
    BY DEF IInv, TypeOK, Records
  <2>2. pr[q].fr # "free"
    BY <1>3
  <2>3. inode[i].ref = 1
    BY <2>1, <2>2 DEF IInv, Freeing, FreeingBy
  <2> QED
    BY <1>3, <2>3
<1>9. /\ disk' \in Disks /\ disk'.type[i] = "free"
      /\ disk'.nlink = disk.nlink /\ disk'.dir = disk.dir
      /\ disk'.up = disk.up
      /\ \A j \in Inums \ {i} : disk'.type[j] = disk.type[j]
  <2>1. /\ disk'.nlink = disk.nlink /\ disk'.dir = disk.dir
        /\ disk'.up = disk.up
        /\ disk'.type = [disk.type EXCEPT ![i] = "free"]
    BY <1>1, <1>3 DEF Disks
  <2>2. disk' \in Disks
    BY <1>1, <1>2, <1>3 DEF Disks, Types
  <2>3. disk.type \in [Inums -> Types]
    BY <1>3 DEF Disks
  <2> QED
    BY <1>2, <2>1, <2>2, <2>3
<1>a. Cleared(disk, disk', i)
  BY <1>3, <1>9 DEF Cleared
<1>b. DiskOK(disk') /\ \A j \in Inums : Links(disk', j) <= Links(disk, j)
  BY <1>2, <1>3, <1>9, <1>a, ClearedOK
<1>d. LockMove(p)
  BY <1>1, LockMoves
<1>e. Slack(p, r)
  <2> SUFFICES ASSUME NEW j \in Inums
               PROVE  disk'.nlink[j] - Links(disk', j) >=
                        disk.nlink[j] - Links(disk, j) + C(r, j) - C(pr[p], j)
    BY DEF Slack
  <2>1. C(r, j) = C(pr[p], j) /\ C(r, j) \in Nat
    BY <1>4 DEF C, Counts
  <2>2. Links(disk', j) \in Nat /\ Links(disk, j) \in Nat
        /\ disk.nlink[j] \in Nat /\ disk'.nlink[j] = disk.nlink[j]
    BY <1>3, <1>9, LinksType DEF Disks
  <2>3. Links(disk', j) <= Links(disk, j)
    BY <1>b
  <2> QED
    BY ONLY <2>1, <2>2, <2>3
<1>f. Even(p, r)
  <2>1. ASSUME NEW j \in Inums PROVE Weight(pr[p], j) = Weight(r, j)
    <3>1. Weight(pr[p], j) = Weight(r, j) + Is(Todo(pr[p]), j)
      BY <1>t, <1>2, <1>4, TailWeight
    <3>2. Is(Todo(pr[p]), j) = 0
      BY <1>2 DEF Is, Inums
    <3> QED
      BY <3>1, <3>2, WeightType
  <2> QED
    BY <1>1, <2>1 DEF Even
<1>g. Touches(p, {i})
  BY <1>1, <1>3, <1>8, <1>9 DEF Touches, Keeps
<1>h. Leaves(p, {i})
  <2>1. LockedBy(p)' /\ FreeingBy(p)'
    BY <1>1, <1>2, <1>4, <1>7 DEF LockedBy, FreeingBy
  <2>2. DirsOf(p)'
    <3>1. pr[p].ip # 0 => pr[p].ip \in Inums /\ inode[pr[p].ip].ref >= 1
      BY ProcIs DEF InUse
    <3>2. pr[p].ip # 0 => disk'.type[pr[p].ip] = disk.type[pr[p].ip]
      BY <1>3, <1>9, <3>1
    <3> QED
      BY <1>2, <1>4, <1>7, <3>2 DEF DirsOf, Counts
  <2>4. TableAt(i)'
    <3>1. inode[i] = Unused
      BY <1>3 DEF TableAt
    <3> QED
      BY <1>1, <3>1 DEF TableAt, Unused
  <2>5. i \notin Orphans(disk)'
    BY <1>9 DEF Orphans
  <2> QED
    BY <1>0, <2>1, <2>2, <2>4, <2>5 DEF Leaves
<1> QED
  BY <1>1, <1>2, <1>3, <1>6, <1>9, <1>b, <1>d, <1>e, <1>f, <1>g, <1>h, WriteOK
-----------------------------------------------------------------------------
\* sys_link().

\* A counted link is not among the entries.
LEMMA PendingPos ==
  ASSUME IInv, NEW p \in Procs, NEW i \in Inums, Counts(pr[p], i)
  PROVE  disk.nlink[i] >= Links(disk, i) + 1
<1>1. p \in Pending(i)
  BY DEF Pending
<1>2. Cardinality(Pending(i)) # 0 /\ Cardinality(Pending(i)) \in Nat
  BY <1>1, PendingType, FS_EmptySet
<1>3. disk.nlink[i] >= Links(disk, i) + Cardinality(Pending(i))
  BY DEF IInv, Counted
<1>4. disk.nlink[i] \in Nat /\ Links(disk, i) \in Nat
  BY LinksType DEF IInv, TypeOK, Disks
<1> QED
  BY <1>2, <1>3, <1>4

\* ip->nlink = n and iupdate() of a file.
LEMMA LinkDisk ==
  ASSUME IInv, NEW i \in Inums, disk.type[i] = "file", NEW n \in Nat,
         n >= Links(disk, i), disk' = DiskLink(disk, i, n)
  PROVE  /\ disk' \in Disks /\ DiskOK(disk')
         /\ disk'.type = disk.type /\ disk'.dir = disk.dir
         /\ disk'.up = disk.up
         /\ disk'.nlink[i] = n
         /\ \A j \in Inums \ {i} : disk'.nlink[j] = disk.nlink[j]
         /\ \A j \in Inums : Links(disk', j) = Links(disk, j)
<1>1. disk \in Disks /\ DiskOK(disk)
  BY DEF IInv, TypeOK
<1>2. /\ disk'.type = disk.type /\ disk'.dir = disk.dir /\ disk'.up = disk.up
      /\ disk'.nlink = [disk.nlink EXCEPT ![i] = n] /\ disk' \in Disks
      /\ disk.nlink \in [Inums -> Nat]
  BY <1>1 DEF DiskLink, Disks
<1>3. /\ disk'.nlink[i] = n
      /\ \A j \in Inums \ {i} : disk'.nlink[j] = disk.nlink[j]
  BY <1>2
<1>4. Relinked(disk, disk', i, n)
  BY <1>2, <1>3 DEF Relinked
<1> QED
  BY <1>1, <1>2, <1>3, <1>4, RelinkedOK

\* The error path of sys_link().
LEMMA LinkBadOK ==
  ASSUME IInv, NEW p \in Procs, LinkBad(p)
  PROVE  IInv'
<1>0. PICK i : i = pr[p].ip
  OBVIOUS
<1> DEFINE t == Ilock(inode, disk, i)
           m == disk.nlink[i] - 1
<1>1. /\ At(p, "bad") /\ pr[p].pc = "bad" /\ UNCHANGED files
      /\ saved' = saved /\ booting' = booting /\ lock' = lock
  BY DEF LinkBad, At, world
<1>2. /\ pr[p].todo = <<>> /\ pr[p].fr = "no" /\ booting = FALSE
      /\ \A j \in Inums : Weight(pr[p], j) = Is(pr[p].at, j) + Is(i, j)
  BY <1>0, <1>1, AtIs
<1>3. /\ pr[p] \in Records /\ pr[p].at = 0 /\ i # 0 /\ InUse(p, i)
      /\ i \in Inums /\ HasType(i) /\ disk.type[i] = "file"
      /\ Counts(pr[p], i)
  BY <1>0, <1>1, ProcIs DEF Shape, InUse, DirsOf, Counts
<1>4. /\ t = [inode EXCEPT ![i] = Entry(inode[i].ref, disk, i)]
      /\ Entry(inode[i].ref, disk, i) \in Entries
      /\ inode \in [Inums -> Entries] /\ disk \in Disks
  BY <1>3, IlockIs DEF IInv, TypeOK
<1>5. /\ t \in [Inums -> Entries] /\ t[i] = Entry(inode[i].ref, disk, i)
      /\ t[i].nlink = disk.nlink[i]
      /\ \A j \in Inums \ {i} : t[j] = inode[j]
  BY <1>3, <1>4 DEF Entry
<1>6. /\ disk' = DiskLink(disk, i, m) /\ inode' = TableLink(t, i, m)
      /\ Finish(p, <<i>>)
  BY <1>0, <1>3, <1>5 DEF LinkBad
<1> HIDE DEF t
<1>7. m \in Nat /\ m >= Links(disk, i) /\ disk.nlink[i] \in Nat
  <2>1. disk.nlink[i] >= Links(disk, i) + 1
    BY <1>3, PendingPos
  <2>2. disk.nlink[i] \in Nat /\ Links(disk, i) \in Nat
    BY <1>3, <1>4, LinksType DEF Disks
  <2> QED
    BY <2>1, <2>2
<1>8. /\ disk' \in Disks /\ DiskOK(disk')
      /\ disk'.type = disk.type /\ disk'.dir = disk.dir
      /\ disk'.nlink[i] = m
      /\ \A j \in Inums \ {i} : disk'.nlink[j] = disk.nlink[j]
      /\ \A j \in Inums : Links(disk', j) = Links(disk, j)
  <2> HIDE DEF m
  <2> QED
    BY <1>3, <1>6, <1>7, LinkDisk
<1>9. /\ inode' = [t EXCEPT ![i] = [t[i] EXCEPT !.nlink = m]]
      /\ inode' \in [Inums -> Entries]
  <2> HIDE DEF m
  <2> QED
    BY <1>3, <1>5, <1>6, <1>7, TableLinkIs
<1>a. inode'[i] = [Entry(inode[i].ref, disk, i) EXCEPT !.nlink = m]
      /\ \A j \in Inums \ {i} : inode'[j] = inode[j]
  BY <1>3, <1>5, <1>9
<1>b. inode'[i].ref = inode[i].ref /\ inode'[i].valid = TRUE
      /\ inode'[i].type = disk.type[i] /\ inode'[i].nlink = m
  BY <1>a DEF Entry
<1>s. <<i>> \in Seq(Inums) /\ Len(<<i>>) <= 2
  BY <1>3
<1>c. Follows(p, EndRec(<<i>>))
      /\ (\A j : ~Counts(EndRec(<<i>>), j))
      /\ \A j \in Inums : Weight(EndRec(<<i>>), j) = Is(i, j)
  BY <1>1, <1>2, <1>6, <1>s, EndFollows
<1> DEFINE r == EndRec(<<i>>)
<1> HIDE DEF r
<1>d. Slack(p, r)
  <2> SUFFICES ASSUME NEW j \in Inums
               PROVE  disk'.nlink[j] - Links(disk', j) >=
                        disk.nlink[j] - Links(disk, j) + C(r, j) - C(pr[p], j)
    BY DEF Slack
  <2>1. C(r, j) = 0 /\ (j = i => C(pr[p], j) = 1) /\ C(pr[p], j) \in Nat
    BY <1>3, <1>c DEF C, r
  <2>2. /\ Links(disk', j) = Links(disk, j) /\ Links(disk, j) \in Nat
        /\ disk.nlink[j] \in Nat
        /\ disk'.nlink[j] = IF j = i THEN disk.nlink[j] - 1 ELSE disk.nlink[j]
    BY <1>4, <1>8, LinksType DEF Disks
  <2> QED
    BY ONLY <2>1, <2>2
<1>e. Even(p, r)
  <2> SUFFICES ASSUME NEW j \in Inums
               PROVE  inode'[j].ref + Weight(pr[p], j) =
                        inode[j].ref + Weight(r, j)
    BY DEF Even
  <2>1. Weight(pr[p], j) = 0 + Is(i, j) /\ Weight(r, j) = Is(i, j)
    BY <1>2, <1>3, <1>c DEF r, Is, Inums
  <2>2. inode'[j].ref = inode[j].ref
    BY <1>a, <1>b
  <2> QED
    BY <2>1, <2>2, WeightType
<1>f. Touches(p, {i})
  <2>1. \A j \in Inums : Keeps(p, j)
    BY <1>a, <1>b DEF Keeps
  <2> QED
    BY <1>1, <1>3, <1>8, <1>a, <2>1 DEF Touches, InUse
<1>g. Leaves(p, {i})
  <2>1. TableAt(i)'
    <3>1. inode[i].ref >= 1 /\ inode[i].ref \in Nat /\ disk.type[i] # "free"
      BY <1>3, <1>4 DEF InUse, Entries
    <3> QED
      BY <1>8, <1>b, <3>1 DEF TableAt
  <2>2. Noticed(i)'
    BY <1>b DEF Noticed
  <2> QED
    BY <1>2, <1>c, <2>1, <2>2 DEF Leaves, Follows
<1>h. LockMove(p) /\ Moves(p, r)
  BY <1>1, <1>c, LockMoves DEF Follows, r
<1> QED
  BY <1>1, <1>3, <1>8, <1>9, <1>d, <1>e, <1>f, <1>g, <1>h, WriteOK

\* dirlink() of sys_link().
LEMMA LinkNewOK ==
  ASSUME IInv, NEW p \in Procs, NEW full, LinkNew(p, full)
  PROVE  IInv'
<1>0. PICK dp, k, name : dp = pr[p].at /\ k = pr[p].ip /\ name = Head(pr[p].rest)
  OBVIOUS
<1> DEFINE t == Ilock(inode, disk, dp)
<1>1. /\ At(p, "dirlink") /\ pr[p].pc = "dirlink" /\ UNCHANGED files
      /\ CanLock(dp)
      /\ saved' = saved /\ booting' = booting /\ lock' = lock
  BY <1>0 DEF LinkNew, At, world
<1>2. /\ pr[p].todo = <<>> /\ pr[p].fr = "no" /\ booting = FALSE
      /\ \A j \in Inums : Weight(pr[p], j) = Is(dp, j) + Is(k, j)
  BY <1>0, <1>1, AtIs
<1>3. /\ pr[p] \in Records /\ k # 0 /\ dp # 0 /\ InUse(p, dp)
      /\ pr[p].op = "link" /\ Len(pr[p].rest) = 1
      /\ dp \in Inums /\ HasType(dp) /\ disk.type[dp] = "dir"
      /\ k \in Inums
  BY <1>0, <1>1, ProcIs DEF Shape, InUse, DirsOf
<1>c. Counts(pr[p], k)
  BY <1>0, <1>3 DEF Counts
<1>f. disk.type[k] = "file"
  BY <1>0, <1>3, <1>c, ProcIs DEF DirsOf
<1>4. name \in Elems
  BY <1>0, <1>3, OneElem DEF Records
<1>5. inode' = t /\ LockMove(p)
  BY <1>0, <1>1, <1>3, LockMoves DEF LinkNew
<1>6. CASE Fail(p, <<dp>>) /\ UNCHANGED disk
  <2>1. Calm(p, {dp}) /\ \A j \in Inums : inode'[j].ref = inode[j].ref
    BY <1>1, <1>2, <1>3, <1>5, <1>6, LockCalm
  <2>2. PICK r : /\ Follows(p, r)
                 /\ \A j \in Inums : Weight(r, j) = Is(k, j) + Is(dp, j)
    BY <1>0, <1>1, <1>2, <1>3, <1>6, FailFollows
  <2>3. Even(p, r)
    BY <1>2, <2>1, <2>2, WeightType DEF Even
  <2> QED
    BY <1>3, <2>1, <2>2, <2>3, CalmOK
<1>7. ASSUME Dirlookup(disk, dp, name) = 0,
             disk' = Dirlink(disk, dp, name, k), Finish(p, <<dp, k>>)
      PROVE  IInv'
  <2>0. disk \in Disks /\ DiskOK(disk) /\ inode \in [Inums -> Entries]
        /\ Table
    BY DEF IInv, TypeOK
  <2>1. /\ disk'.type = disk.type /\ disk'.nlink = disk.nlink
        /\ disk'.up = disk.up
        /\ disk'.dir = [disk.dir EXCEPT ![dp][name] = k]
        /\ disk.dir \in [Inums -> [Names -> Numbers]]
    BY <1>7, <2>0 DEF Dirlink, Disks
  <2>k. k \in Numbers
    BY <1>3 DEF Numbers, Inums
  <2>2. disk' \in Disks
    BY <1>7, <2>0, <2>k DEF Dirlink, Disks
  <2>3. \A j \in Inums \ {dp} : disk'.dir[j] = disk.dir[j]
    BY <2>1
  <2>4. /\ DiskOK(disk')
        /\ \A j \in Inums : disk'.nlink[j] - Links(disk', j) >=
             disk.nlink[j] - Links(disk, j) - (IF j = k THEN 1 ELSE 0)
    <3>0. \A j \in Inums : disk.nlink[j] \in Nat /\ Links(disk, j) \in Nat
                           /\ Links(disk', j) \in Nat
      BY <2>0, LinksType DEF Disks
    <3>1. CASE name \in Names
      <4>1. disk.dir[dp][name] = 0
        BY <1>7, <3>1, FileSysAssumption DEF Dirlookup
      <4>2. disk.nlink[k] > Links(disk, k)
        BY <1>c, <1>3, <3>0, PendingPos
      <4>3. \A j \in Inums : \A m \in Names : disk'.dir[j][m] =
              IF j = dp /\ m = name THEN k ELSE disk.dir[j][m]
        BY <1>3, <2>1, <3>1
      <4>4. Entered(disk, disk', k, dp, name)
        BY <1>3, <1>f, <2>1, <4>1, <4>2, <4>3 DEF Entered
      <4>5. /\ DiskOK(disk') /\ Links(disk', k) = Links(disk, k) + 1
            /\ \A j \in Inums \ {k} : Links(disk', j) = Links(disk, j)
        BY <1>3, <2>0, <2>2, <3>1, <4>4, EnteredOK
      <4>6. ASSUME NEW j \in Inums
            PROVE  disk'.nlink[j] - Links(disk', j) >=
                     disk.nlink[j] - Links(disk, j) - (IF j = k THEN 1 ELSE 0)
        BY <2>1, <3>0, <4>5
      <4> QED
        BY <4>5, <4>6
    <3>2. CASE name \notin Names
      <4>1. \A j \in Inums : disk'.dir[j] = disk.dir[j]
        BY <1>3, <2>1, <3>2
      <4>2. disk'.dir = disk.dir
        BY <2>1, <2>2, <4>1 DEF Disks
      <4>3. \A j : NamesOf(disk', j) = NamesOf(disk, j)
                   /\ Subdirs(disk', j) = Subdirs(disk, j)
        BY <2>1, <4>2 DEF NamesOf, Subdirs
      <4>4. \A j : Links(disk', j) = Links(disk, j)
        BY <4>3 DEF Links
      <4>5. DiskOK(disk')
        BY <2>0, <2>1, <4>3, <4>4 DEF DiskOK
      <4>6. ASSUME NEW j \in Inums
            PROVE  disk'.nlink[j] - Links(disk', j) >=
                     disk.nlink[j] - Links(disk, j) - (IF j = k THEN 1 ELSE 0)
        BY <2>1, <3>0, <4>4
      <4> QED
        BY <4>5, <4>6
    <3> QED
      BY <3>1, <3>2
  <2>5. /\ inode' = [inode EXCEPT ![dp] = Entry(inode[dp].ref, disk, dp)]
        /\ Entry(inode[dp].ref, disk, dp) \in Entries
    BY <1>3, <1>5, IlockIs DEF IInv
  <2>6. inode' \in [Inums -> Entries]
        /\ inode'[dp] = Entry(inode[dp].ref, disk, dp)
        /\ \A i \in Inums \ {dp} : inode'[i] = inode[i]
    BY <1>3, <2>0, <2>5
  <2>7. \A j \in Inums : inode'[j].ref = inode[j].ref
    BY <2>6 DEF Entry
  <2>8. Follows(p, EndRec(<<dp, k>>))
        /\ (\A j : ~Counts(EndRec(<<dp, k>>), j))
        /\ \A j \in Inums :
             Weight(EndRec(<<dp, k>>), j) = Is(dp, j) + Is(k, j)
    BY <1>1, <1>2, <1>3, <1>7, EndTwo
  <2> DEFINE r == EndRec(<<dp, k>>)
  <2> HIDE DEF r
  <2>9. Slack(p, r)
    <3> SUFFICES ASSUME NEW j \in Inums
                 PROVE  disk'.nlink[j] - Links(disk', j) >=
                          disk.nlink[j] - Links(disk, j) + C(r, j) - C(pr[p], j)
      BY DEF Slack
    <3>1. C(r, j) = 0 /\ (j = k => C(pr[p], j) = 1) /\ C(pr[p], j) \in Nat
      BY <1>c, <2>8 DEF C, r
    <3>2. disk'.nlink[j] - Links(disk', j) >=
             disk.nlink[j] - Links(disk, j) - (IF j = k THEN 1 ELSE 0)
      BY <2>4
    <3>3. disk.nlink[j] \in Nat /\ Links(disk, j) \in Nat
          /\ disk'.nlink[j] \in Nat /\ Links(disk', j) \in Nat
      BY <2>0, <2>2, LinksType DEF Disks
    <3> QED
      BY ONLY <3>1, <3>2, <3>3
  <2>a. Even(p, r)
    BY <1>2, <2>7, <2>8 DEF Even, r
  <2>b. Touches(p, {dp})
    <3>1. \A j \in Inums : Keeps(p, j)
      BY <1>3, <2>6 DEF Keeps, Entry
    <3>2. lock[dp] = NoProc /\ dp \notin Freed(p)
      BY <1>1, <1>3 DEF CanLock, InUse
    <3> QED
      BY <1>1, <2>1, <2>3, <2>6, <3>1, <3>2 DEF Touches
  <2>c. Leaves(p, {dp})
    <3>1. TableAt(dp)'
      <4>1. inode[dp].ref >= 1 /\ inode[dp].ref \in Nat
        BY <1>3, <2>0 DEF InUse, Entries
      <4> QED
        BY <1>3, <2>1, <2>6, <4>1 DEF TableAt, Entry
    <3>2. Noticed(dp)'
      BY <2>6 DEF Noticed, Entry
    <3> QED
      BY <1>2, <2>8, <3>1, <3>2 DEF Leaves, Follows
  <2>d. Moves(p, r)
    BY <2>8 DEF Follows, r
  <2> QED
    BY <1>1, <1>3, <1>5, <2>2, <2>4, <2>6, <2>9, <2>a, <2>b, <2>c, <2>d,
       WriteOK
<1> QED
  BY <1>0, <1>3, <1>6, <1>7 DEF LinkNew

\* iget() of s in a table whose entries agree with the disk.
LEMMA GetTable ==
  ASSUME NEW u \in [Inums -> Entries], NEW s \in Inums,
         inode' = Iget(u, s), disk'.type[s] # "free",
         u[s].valid => u[s].type = disk'.type[s] /\ u[s].nlink = disk'.nlink[s]
  PROVE  /\ inode' \in [Inums -> Entries]
         /\ \A j \in Inums \ {s} : inode'[j] = u[j]
         /\ \A j \in Inums : inode'[j].ref = u[j].ref + Is(s, j)
         /\ TableAt(s)'
         /\ u[s].valid /\ u[s].ref > 0 => inode'[s].valid
<1>1. /\ inode' = [u EXCEPT ![s] = More(u[s])]
      /\ inode' \in [Inums -> Entries] /\ More(u[s]).ref = u[s].ref + 1
  BY IgetIs
<1>2. inode'[s] = More(u[s]) /\ \A j \in Inums \ {s} : inode'[j] = u[j]
  BY <1>1
<1>3. u[s] \in Entries /\ \A j \in Inums : u[j].ref \in Nat
  BY DEF Entries
<1>4. \A j \in Inums : inode'[j].ref = u[j].ref + Is(s, j)
  BY <1>1, <1>2, <1>3 DEF Is
<1>5. /\ inode'[s].ref > 0
      /\ inode'[s].valid => u[s].valid /\ inode'[s].type = u[s].type
                            /\ inode'[s].nlink = u[s].nlink
      /\ u[s].valid /\ u[s].ref > 0 => inode'[s].valid
  BY <1>2, <1>3, GetEntry
<1>6. inode'[s].ref # 0
  BY <1>1, <1>5 DEF Entries
<1>7. TableAt(s)'
  BY <1>5, <1>6 DEF TableAt
<1> QED
  BY <1>1, <1>2, <1>4, <1>5, <1>7

\* sys_link() of the old file.
LEMMA LinkOldOK ==
  ASSUME IInv, NEW p \in Procs, LinkOld(p)
  PROVE  IInv'
<1>0. PICK i, s, new : i = pr[p].at /\ new = pr[p].new /\ s = Start(p, new)
  OBVIOUS
<1> DEFINE t == Ilock(inode, disk, i)
           m == disk.nlink[i] + 1
<1>1. /\ At(p, "link") /\ pr[p].pc = "link" /\ UNCHANGED files
      /\ saved' = saved /\ booting' = booting /\ lock' = lock
  BY DEF LinkOld, At, world
<1>2. /\ pr[p].todo = <<>> /\ pr[p].fr = "no" /\ booting = FALSE
      /\ \A j \in Inums : Weight(pr[p], j) = Is(i, j) + Is(pr[p].ip, j)
  BY <1>0, <1>1, AtIs
<1>3. /\ pr[p] \in Records /\ pr[p].ip = 0 /\ i # 0 /\ InUse(p, i)
      /\ i \in Inums /\ HasType(i) /\ disk.type[i] # "free"
      /\ IsPath(new) /\ pr[p].op = "link"
  BY <1>0, <1>1, ProcIs DEF Shape, InUse, Ops
<1>4. /\ t = [inode EXCEPT ![i] = Entry(inode[i].ref, disk, i)]
      /\ Entry(inode[i].ref, disk, i) \in Entries
      /\ inode \in [Inums -> Entries] /\ disk \in Disks
  BY <1>3, IlockIs DEF IInv, TypeOK
<1>5. /\ t \in [Inums -> Entries] /\ t[i] = Entry(inode[i].ref, disk, i)
      /\ t[i].nlink = disk.nlink[i] /\ t[i].type = disk.type[i]
      /\ \A j \in Inums \ {i} : t[j] = inode[j]
  BY <1>3, <1>4 DEF Entry
<1>l. LockMove(p)
  BY <1>1, LockMoves
<1>6. CASE inode' = t /\ Finish(p, <<i>>) /\ UNCHANGED disk
  BY <1>0, <1>1, <1>3, <1>6, <1>l, LockEndOK
<1>7. ASSUME disk.type[i] # "dir", disk' = DiskLink(disk, i, m),
             inode' = Iget(TableLink(t, i, m), s),
             Go(p, [pr[p] EXCEPT !.pc = "namex", !.new = <<>>, !.ip = i,
                                 !.at = s, !.rest = Elements(new)])
      PROVE  IInv'
  <2>1. disk.type[i] = "file"
    BY <1>3, <1>4, <1>7 DEF Disks, Types
  <2>2. m \in Nat /\ m >= Links(disk, i) /\ disk.nlink[i] \in Nat /\ m > 0
    <3>1. disk.nlink[i] >= Links(disk, i)
      BY <1>3 DEF IInv, DiskOK
    <3>2. disk.nlink[i] \in Nat /\ Links(disk, i) \in Nat
      BY <1>3, <1>4, LinksType DEF Disks
    <3> QED
      BY <3>1, <3>2
  <2>3. /\ disk' \in Disks /\ DiskOK(disk')
        /\ disk'.type = disk.type /\ disk'.dir = disk.dir
        /\ disk'.nlink[i] = m
        /\ \A j \in Inums \ {i} : disk'.nlink[j] = disk.nlink[j]
        /\ \A j \in Inums : Links(disk', j) = Links(disk, j)
    <3> HIDE DEF m
    <3> QED
      BY <1>3, <1>7, <2>1, <2>2, LinkDisk
  <2>4. PICK u : u = TableLink(t, i, m)
    OBVIOUS
  <2>5. /\ u = [t EXCEPT ![i] = [t[i] EXCEPT !.nlink = m]]
        /\ u \in [Inums -> Entries]
    <3> HIDE DEF m, t
    <3> QED
      BY <1>3, <1>5, <2>2, <2>4, TableLinkIs
  <2>6. /\ u[i] = [Entry(inode[i].ref, disk, i) EXCEPT !.nlink = m]
        /\ \A j \in Inums \ {i} : u[j] = inode[j]
    <3> HIDE DEF m, t
    <3> QED
      BY <1>3, <1>5, <2>5
  <2>7. /\ u[i].ref = inode[i].ref /\ u[i].valid = TRUE
        /\ u[i].type = disk.type[i] /\ u[i].nlink = m
    BY <2>6 DEF Entry
  <2>8. /\ s \in Inums /\ Elements(new) \in Seq(Elems)
        /\ disk.type[s] # "free" /\ s \notin Freed(p)
        /\ disk.nlink[s] # 0 \/ Mine(p, s)
    BY <1>0, <1>2, <1>3, StartIs
  <2> HIDE DEF m, t
  <2>9. u[s].valid => u[s].type = disk'.type[s] /\ u[s].nlink = disk'.nlink[s]
    <3>1. CASE s = i
      BY <2>3, <2>7, <3>1
    <3>2. CASE s # i
      BY <2>3, <2>6, <2>8, <3>2 DEF IInv, Table, TableAt
    <3> QED
      BY <3>1, <3>2
  <2>a. /\ inode' \in [Inums -> Entries]
        /\ \A j \in Inums \ {s} : inode'[j] = u[j]
        /\ \A j \in Inums : inode'[j].ref = u[j].ref + Is(s, j)
        /\ TableAt(s)'
        /\ u[s].valid /\ u[s].ref > 0 => inode'[s].valid
    <3>1. inode' = Iget(u, s) /\ disk'.type[s] # "free"
      BY <1>7, <2>3, <2>4, <2>8
    <3> QED
      BY <2>5, <2>8, <2>9, <3>1, GetTable
  <2>b. \A j \in Inums : u[j].ref = inode[j].ref /\ inode[j].ref \in Nat
    BY <1>4, <2>6, <2>7 DEF Entries
  <2> DEFINE r == [pr[p] EXCEPT !.pc = "namex", !.new = <<>>, !.ip = i,
                                !.at = s, !.rest = Elements(new)]
  <2>c. /\ r.pc = "namex" /\ r.op = "link" /\ r.at = s /\ r.ip = i
        /\ r.todo = <<>> /\ r.fr = "no"
    BY <1>2, <1>3 DEF Records
  <2>d. r \in Records
    <3>1. s \in Numbers /\ i \in Numbers /\ "namex" \in PCs
          /\ <<>> \in Seq(Elems \cup {"/"})
      BY <1>3, <2>8 DEF Numbers, Inums, PCs
    <3> QED
      BY <1>3, <2>8, <3>1 DEF Records
  <2>g. Go(p, r)
    BY <1>7
  <2> HIDE DEF r
  <2>e. Shape(r)
    <3>1. Len(r.todo) <= 2 /\ r.at # 0 /\ r.ip # 0
      BY <1>3, <2>8, <2>c DEF Inums
    <3> QED
      BY <2>c, <3>1 DEF Shape, Ops
  <2>f. Moves(p, r)
    BY <1>1, <1>2, <2>g, <2>d, <2>e DEF Moves, Go
  <2>h. pr'[p] = r
    BY <2>f, MovesIs
  <2>i. LockedBy(p)' /\ FreeingBy(p)' /\ DirsOf(p)'
    BY <2>1, <2>3, <2>c, <2>h DEF LockedBy, FreeingBy, DirsOf
  <2>j. Slack(p, r)
    <3> SUFFICES ASSUME NEW j \in Inums
                 PROVE  disk'.nlink[j] - Links(disk', j) >=
                          disk.nlink[j] - Links(disk, j) + C(r, j) - C(pr[p], j)
      BY DEF Slack
    <3>1. C(r, j) = (IF j = i THEN 1 ELSE 0) /\ C(pr[p], j) = 0
      BY <1>3, <2>c DEF C, Counts, Inums
    <3>2. /\ Links(disk', j) = Links(disk, j) /\ Links(disk, j) \in Nat
          /\ disk.nlink[j] \in Nat
          /\ disk'.nlink[j] = IF j = i THEN disk.nlink[j] + 1 ELSE disk.nlink[j]
      BY <1>4, <2>3, LinksType DEF Disks, m
    <3> QED
      BY ONLY <3>1, <3>2
  <2>k. Even(p, r)
    <3> SUFFICES ASSUME NEW j \in Inums
                 PROVE  inode'[j].ref + Weight(pr[p], j) =
                          inode[j].ref + Weight(r, j)
      BY DEF Even
    <3>1. Weight(pr[p], j) = Is(i, j) + Is(0, j) /\ Is(0, j) = 0
      BY <1>2, <1>3 DEF Is, Inums
    <3>2. Weight(r, j) = Is(s, j) + Is(i, j)
      BY <2>c, WeightIs
    <3>3. inode'[j].ref = inode[j].ref + Is(s, j) /\ inode[j].ref \in Nat
      BY <2>a, <2>b
    <3> QED
      BY ONLY <3>1, <3>2, <3>3, WeightType
  <2>l. Touches(p, {i, s})
    <3>1. ASSUME NEW j \in Inums, inode[j].valid PROVE inode'[j].valid
      <4>1. u[j].valid
        BY <2>6, <2>7, <3>1
      <4>2. u[j].ref > 0
        <5>1. inode[j].ref # 0
          BY <3>1 DEF IInv, Table, TableAt, Unused
        <5> QED
          BY <2>b, <5>1
      <4> QED
        BY <2>a, <4>1, <4>2
    <3>2. \A j \in Inums : Keeps(p, j)
      BY <3>1 DEF Keeps
    <3> QED
      BY <1>1, <1>3, <2>3, <2>6, <2>8, <2>a, <3>2 DEF Touches, InUse
  <2>m. Leaves(p, {i, s})
    <3>1. TableAt(i)'
      <4>1. CASE i = s
        BY <2>a, <4>1
      <4>2. CASE i # s
        <5>1. inode'[i] = u[i] /\ u[i].ref # 0 /\ disk'.type[i] # "free"
          <6>1. inode[i].ref >= 1
            BY <1>3 DEF InUse
          <6> QED
            BY <1>3, <2>3, <2>7, <2>a, <2>b, <4>2, <6>1
        <5> QED
          BY <2>3, <2>7, <5>1 DEF TableAt
      <4> QED
        BY <4>1, <4>2
    <3>2. i \notin Orphans(disk)'
      BY <2>2, <2>3 DEF Orphans
    <3>3. s \in Orphans(disk)' => Noticed(s)'
      <4> SUFFICES ASSUME s \in Orphans(disk)' PROVE inode'[s].valid
        BY DEF Noticed
      <4>1. s # i
        BY <3>2
      <4>2. s \in Orphans(disk)
        BY <2>3, <2>8, <4>1 DEF Orphans
      <4>3. Mine(p, s)
        BY <2>8, <4>2 DEF Orphans
      <4>4. inode[s].ref >= 1 /\ inode[s].ref \in Nat
        BY <2>8, <2>b, <4>3, MineHeld
      <4>5. inode[s].valid
        BY <1>2, <2>8, <4>2, OrphanValid
      <4> QED
        BY <2>6, <2>8, <2>a, <4>1, <4>4, <4>5
    <3> QED
      BY <1>2, <2>a, <2>i, <3>1, <3>2, <3>3 DEF Leaves
  <2> QED
    BY <1>1, <1>3, <1>l, <2>3, <2>8, <2>a, <2>f, <2>j, <2>k, <2>l, <2>m,
       WriteOK
<1> QED
  BY <1>0, <1>3, <1>5, <1>6, <1>7 DEF LinkOld

\* sys_unlink() and create().

Erased(dp, name, k, less) ==
  [disk EXCEPT !.dir[dp][name] = 0,
               !.nlink[dp] = @ - less, !.nlink[k] = @ - 1]

\* The disk after sys_unlink().
LEMMA UnlinkDisk ==
  ASSUME IInv, NEW dp \in Inums, NEW k \in Inums, dp # k, NEW name \in Names,
         NEW less \in {0, 1}, disk.nlink[dp] - less \in Nat,
         disk.nlink[k] - 1 \in Nat,
         disk' = Erased(dp, name, k, less)
  PROVE  /\ disk' \in Disks /\ disk'.type = disk.type /\ disk'.up = disk.up
         /\ disk'.nlink[dp] = disk.nlink[dp] - less
         /\ disk'.nlink[k] = disk.nlink[k] - 1
         /\ \A j \in Inums \ {dp, k} : disk'.nlink[j] = disk.nlink[j]
         /\ \A j \in Inums \ {dp} : disk'.dir[j] = disk.dir[j]
         /\ \A j \in Inums : \A m \in Names :
              disk'.dir[j][m] = IF j = dp /\ m = name THEN 0
                                ELSE disk.dir[j][m]
<1>1. disk \in Disks /\ 0 \in Numbers
  BY FileSysAssumption DEF IInv, TypeOK, Numbers
<1>2. /\ disk'.type = disk.type /\ disk'.up = disk.up
      /\ disk'.dir = [disk.dir EXCEPT ![dp][name] = 0]
      /\ disk'.nlink = [disk.nlink EXCEPT ![dp] = @ - less, ![k] = @ - 1]
      /\ disk.dir \in [Inums -> [Names -> Numbers]]
      /\ disk.nlink \in [Inums -> Nat]
  BY <1>1 DEF Disks, Erased
<1>3. /\ disk'.nlink[dp] = disk.nlink[dp] - less
      /\ disk'.nlink[k] = disk.nlink[k] - 1
      /\ \A j \in Inums \ {dp, k} : disk'.nlink[j] = disk.nlink[j]
      /\ disk'.nlink \in [Inums -> Nat]
  BY <1>2
<1>4. /\ \A j \in Inums \ {dp} : disk'.dir[j] = disk.dir[j]
      /\ \A j \in Inums : \A m \in Names :
           disk'.dir[j][m] = IF j = dp /\ m = name THEN 0
                             ELSE disk.dir[j][m]
      /\ disk'.dir \in [Inums -> [Names -> Numbers]]
  BY <1>1, <1>2
<1>5. disk' \in Disks
  BY <1>1, <1>2, <1>3, <1>4 DEF Disks, Erased
<1> QED
  BY <1>2, <1>3, <1>4, <1>5

\* sys_unlink() of the entry it found.
LEMMA UnlinkChildOK ==
  ASSUME IInv, NEW p \in Procs, UnlinkChild(p)
  PROVE  IInv'
<1>0. PICK dp, k, name : dp = pr[p].at /\ k = pr[p].ip /\ name = Head(pr[p].rest)
  OBVIOUS
<1> DEFINE t == Ilock(inode, disk, k)
           less == IF disk.type[k] = "dir" THEN 1 ELSE 0
           m == disk.nlink[dp] - less
           n == disk.nlink[k] - 1
<1>1. /\ At(p, "unlink2") /\ pr[p].pc = "unlink2" /\ UNCHANGED files
      /\ lock[k] = NoProc /\ saved' = saved /\ booting' = booting
  BY <1>0 DEF UnlinkChild, At, CanLock, world
<1>2. /\ pr[p].todo = <<>> /\ pr[p].fr = "no" /\ booting = FALSE
      /\ \A j \in Inums : Weight(pr[p], j) = Is(dp, j) + Is(k, j)
  BY <1>0, <1>1, AtIs
<1>3. /\ pr[p] \in Records /\ k # 0 /\ dp # 0 /\ InUse(p, dp) /\ InUse(p, k)
      /\ pr[p].op = "unlink" /\ dp \in Inums /\ k \in Inums /\ HasType(k)
      /\ disk.type[dp] = "dir" /\ inode[dp].valid /\ name \in Names
      /\ disk.dir[dp][name] = k /\ lock[dp] = p
  BY <1>0, <1>1, ProcIs DEF Shape, InUse, DirsOf, LockedBy
<1>4. dp # k
  BY <1>1, <1>3, FileSysAssumption
<1>5. /\ disk \in Disks /\ DiskOK(disk) /\ inode \in [Inums -> Entries]
      /\ t = [inode EXCEPT ![k] = Entry(inode[k].ref, disk, k)]
      /\ Entry(inode[k].ref, disk, k) \in Entries
  BY <1>3, IlockIs DEF IInv, TypeOK
<1>6. /\ t \in [Inums -> Entries] /\ t[k] = Entry(inode[k].ref, disk, k)
      /\ t[k].nlink = disk.nlink[k] /\ t[k].type = disk.type[k]
      /\ t[k].ref = inode[k].ref /\ t[k].valid = TRUE
      /\ \A j \in Inums \ {k} : t[j] = inode[j]
  BY <1>3, <1>5 DEF Entry
<1>7. <<dp, name>> \in NamesOf(disk, k)
  BY <1>3 DEF NamesOf
<1>8. disk.nlink[k] \in Nat /\ disk.nlink[k] > 0 /\ ~(t[k].nlink < 1)
  <2>1. disk.nlink[k] \in Nat /\ disk.nlink[k] > 0
    BY <1>3, <1>5, <1>7, NamedHasLinks DEF Disks
  <2> QED
    BY <1>6, <2>1
<1>9. lock' = [lock EXCEPT ![dp] = NoProc] /\ LockMove(p)
  <2>1. lock' = [lock EXCEPT ![dp] = NoProc]
    BY <1>0, <1>3, <1>8 DEF UnlinkChild
  <2> QED
    BY <1>3, <2>1, LockMoves
<1>a. CASE inode' = t /\ Finish(p, <<k, dp>>) /\ UNCHANGED disk
  <2>1. Calm(p, {k}) /\ \A j \in Inums : inode'[j].ref = inode[j].ref
    BY <1>1, <1>2, <1>3, <1>9, <1>a, LockCalm
  <2>2. /\ Follows(p, EndRec(<<k, dp>>))
        /\ \A j \in Inums :
             Weight(EndRec(<<k, dp>>), j) = Is(k, j) + Is(dp, j)
    BY <1>1, <1>2, <1>3, <1>a, EndTwo
  <2>3. Even(p, EndRec(<<k, dp>>))
    BY <1>2, <2>1, <2>2, WeightType DEF Even
  <2> QED
    BY <1>3, <2>1, <2>2, <2>3, CalmOK
<1>b. ASSUME disk.type[k] = "dir" => disk.dir[k] = Empty,
             disk' = Erased(dp, name, k, less),
             inode' = TableLink(TableLink(t, dp, t[dp].nlink - less),
                                k, t[k].nlink - 1),
             Finish(p, <<dp, k>>)
      PROVE  IInv'
  <2>1. /\ disk.type[k] # "free"
        /\ disk.type[k] = "dir" => disk.nlink[dp] >= 2
    BY <1>3, <1>5, <1>b, UnlinkedCounts
  <2>2. /\ less \in {0, 1} /\ m \in Nat /\ n \in Nat /\ disk.nlink[dp] \in Nat
        /\ disk.type[k] # "dir" => less = 0
    BY <1>3, <1>5, <1>8, <2>1 DEF Disks
  <2>3. t[dp].nlink - less = m /\ t[k].nlink - 1 = n /\ t[dp] = inode[dp]
        /\ t[dp].type = disk.type[dp]
    BY <1>3, <1>4, <1>6 DEF IInv, Table, TableAt
  <2> HIDE DEF t
  <2>4. /\ disk' \in Disks /\ disk'.type = disk.type /\ disk'.up = disk.up
        /\ disk'.nlink[dp] = m /\ disk'.nlink[k] = n
        /\ \A j \in Inums \ {dp, k} : disk'.nlink[j] = disk.nlink[j]
        /\ \A j \in Inums \ {dp} : disk'.dir[j] = disk.dir[j]
        /\ \A j \in Inums : \A x \in Names :
             disk'.dir[j][x] = IF j = dp /\ x = name THEN 0
                               ELSE disk.dir[j][x]
    <3>1. PICK l : l = less
      OBVIOUS
    <3>2. /\ l \in {0, 1} /\ disk.nlink[dp] - l \in Nat
          /\ disk.nlink[k] - 1 \in Nat /\ m = disk.nlink[dp] - l
          /\ disk' = Erased(dp, name, k, l)
      BY <1>b, <2>2, <3>1
    <3> HIDE DEF less
    <3> QED
      BY <1>3, <1>4, <3>2, UnlinkDisk
  <2>5. Unlinked(disk, disk', k, dp, name)
    <3>1. ASSUME NEW j \in Inums
          PROVE  disk'.nlink[j] = disk.nlink[j] - (IF j = k THEN 1 ELSE 0)
                   - (IF j = dp /\ disk.type[k] = "dir" THEN 1 ELSE 0)
      <4>1. disk.nlink[j] \in Nat
        BY <1>5 DEF Disks
      <4> QED
        BY <1>4, <2>4, <4>1
    <3> QED
      BY <1>3, <1>b, <2>4, <3>1 DEF Unlinked
  <2>6. /\ DiskOK(disk')
        /\ \A j \in Inums : disk'.nlink[j] - Links(disk', j) >=
                              disk.nlink[j] - Links(disk, j)
    BY <1>3, <1>5, <2>4, <2>5, UnlinkedOK
  <2> HIDE DEF m, n, less
  <2>7. PICK u : u = TableLink(t, dp, m)
    OBVIOUS
  <2>8. /\ u = [t EXCEPT ![dp] = [t[dp] EXCEPT !.nlink = m]]
        /\ u \in [Inums -> Entries]
    BY <1>3, <1>6, <2>2, <2>7, TableLinkIs
  <2>9. /\ inode' = [u EXCEPT ![k] = [u[k] EXCEPT !.nlink = n]]
        /\ inode' \in [Inums -> Entries]
    <3>1. inode' = TableLink(u, k, n)
      BY <1>b, <2>3, <2>7
    <3> QED
      BY <1>3, <2>2, <2>8, <3>1, TableLinkIs
  <2>a. /\ inode'[dp] = [inode[dp] EXCEPT !.nlink = m]
        /\ inode'[k] = [t[k] EXCEPT !.nlink = n]
        /\ \A j \in Inums \ {dp, k} : inode'[j] = inode[j]
    BY <1>3, <1>4, <1>6, <2>3, <2>8, <2>9
  <2>b. /\ inode'[dp].ref = inode[dp].ref /\ inode'[dp].valid
        /\ inode'[dp].type = disk.type[dp] /\ inode'[dp].nlink = m
        /\ inode'[k].ref = inode[k].ref /\ inode'[k].valid
        /\ inode'[k].type = disk.type[k] /\ inode'[k].nlink = n
    <3>1. inode[dp] \in Entries /\ t[k] \in Entries
      BY <1>3, <1>5, <1>6
    <3> QED
      BY <1>3, <1>6, <2>3, <2>a, <3>1 DEF Entries
  <2>c. Follows(p, EndRec(<<dp, k>>))
        /\ (\A j : ~Counts(EndRec(<<dp, k>>), j))
        /\ \A j \in Inums :
             Weight(EndRec(<<dp, k>>), j) = Is(dp, j) + Is(k, j)
    BY <1>1, <1>2, <1>3, <1>b, EndTwo
  <2> DEFINE r == EndRec(<<dp, k>>)
  <2> HIDE DEF r
  <2>d. Slack(p, r)
    <3> SUFFICES ASSUME NEW j \in Inums
                 PROVE  disk'.nlink[j] - Links(disk', j) >=
                          disk.nlink[j] - Links(disk, j) + C(r, j) - C(pr[p], j)
      BY DEF Slack
    <3>1. C(r, j) = 0 /\ C(pr[p], j) \in Nat
      BY <2>c DEF C, r
    <3>2. disk'.nlink[j] - Links(disk', j) >= disk.nlink[j] - Links(disk, j)
      BY <2>6
    <3>3. disk.nlink[j] \in Nat /\ Links(disk, j) \in Nat
          /\ disk'.nlink[j] \in Nat /\ Links(disk', j) \in Nat
      BY <1>5, <2>4, LinksType DEF Disks
    <3> QED
      BY ONLY <3>1, <3>2, <3>3
  <2>e. Even(p, r)
    <3>1. \A j \in Inums : inode'[j].ref = inode[j].ref
      BY <2>a, <2>b
    <3> QED
      BY <1>2, <2>c, <3>1 DEF Even, r
  <2>f. Touches(p, {dp, k})
    <3>1. \A j \in Inums : Keeps(p, j)
      BY <1>3, <2>a, <2>b DEF Keeps
    <3>2. k \notin Freed(p) /\ dp \notin Freed(p)
      BY <1>3 DEF InUse
    <3> QED
      BY <1>3, <1>9, <2>4, <2>a, <3>1, <3>2 DEF Touches, LockMove
  <2>g. Leaves(p, {dp, k})
    <3>1. inode[dp].ref # 0 /\ inode[k].ref # 0 /\ disk.type[k] # "free"
      BY <1>3 DEF InUse
    <3>2. TableAt(dp)' /\ TableAt(k)'
      BY <1>3, <2>4, <2>b, <3>1 DEF TableAt
    <3>3. Noticed(dp)' /\ Noticed(k)'
      BY <2>b DEF Noticed
    <3> QED
      BY <1>2, <2>c, <3>2, <3>3 DEF Leaves, Follows
  <2>h. Moves(p, r)
    BY <2>c DEF Follows, r
  <2> QED
    BY <1>1, <1>3, <1>9, <2>4, <2>6, <2>9, <2>d, <2>e, <2>f, <2>g, <2>h,
       WriteOK
<1> QED
  BY <1>0, <1>3, <1>6, <1>8, <1>a, <1>b DEF UnlinkChild, IsDirEmpty, Erased

\* The first element of a set of inodes, files or descriptors.
LEMMA FirstIs ==
  ASSUME NEW S \in SUBSET Nat, S # {}
  PROVE  FirstOf(S) \in S
<1>1. PICK R : R = OpToRel(<, Nat)
  OBVIOUS
<1>2. IsWellFoundedOn(R, Nat)
  BY <1>1, NatLessThanWellFounded
<1>3. PICK x \in S : \A y \in S : ~(<<y, x>> \in R)
  BY <1>2, WFMin
<1>4. \A y \in S : x <= y
  <2> SUFFICES ASSUME NEW y \in S, y < x PROVE FALSE
    OBVIOUS
  <2>1. <<y, x>> \in R
    BY <1>1 DEF OpToRel
  <2> QED
    BY <1>3, <2>1
<1> QED
  BY <1>4 DEF FirstOf

\* A new inode on disk, and its entry in the directory.
Fresh(k, ty, n, dp) ==
  [disk EXCEPT !.type[k] = ty, !.nlink[k] = n, !.dir[k] = Empty,
               !.up[k] = IF ty = "dir" THEN dp ELSE 0]

\* The disk after ialloc().
LEMMA FreshIs ==
  ASSUME IInv, NEW dp \in Inums, NEW k \in Inums, NEW ty \in {"file", "dir"},
         NEW n \in Nat, NEW d, d = Fresh(k, ty, n, dp)
  PROVE  /\ d \in Disks
         /\ d.type[k] = ty /\ d.nlink[k] = n /\ d.dir[k] = Empty
         /\ ty = "dir" => d.up[k] = dp
         /\ \A j \in Inums \ {k} :
              /\ d.type[j] = disk.type[j] /\ d.nlink[j] = disk.nlink[j]
              /\ d.dir[j] = disk.dir[j] /\ d.up[j] = disk.up[j]
<1>1. disk \in Disks /\ 0 \in Numbers /\ dp \in Numbers
  BY FileSysAssumption DEF IInv, TypeOK, Numbers, Inums
<1>2. Empty \in [Names -> Numbers] /\ ty \in Types
  BY <1>1 DEF Empty, Types
<1>3. PICK u \in Numbers : u = IF ty = "dir" THEN dp ELSE 0
  BY <1>1
<1>4. d = [disk EXCEPT !.type[k] = ty, !.nlink[k] = n, !.dir[k] = Empty,
                       !.up[k] = u]
  BY <1>3 DEF Fresh
<1>5. /\ d.type = [disk.type EXCEPT ![k] = ty]
      /\ d.nlink = [disk.nlink EXCEPT ![k] = n]
      /\ d.dir = [disk.dir EXCEPT ![k] = Empty]
      /\ d.up = [disk.up EXCEPT ![k] = u]
      /\ disk.type \in [Inums -> Types] /\ disk.nlink \in [Inums -> Nat]
      /\ disk.dir \in [Inums -> [Names -> Numbers]]
      /\ disk.up \in [Inums -> Numbers]
  BY <1>1, <1>4 DEF Disks
<1>6. /\ d.type \in [Inums -> Types] /\ d.nlink \in [Inums -> Nat]
      /\ d.dir \in [Inums -> [Names -> Numbers]]
      /\ d.up \in [Inums -> Numbers]
  BY <1>2, <1>3, <1>5
<1>7. d \in Disks
  BY <1>1, <1>4, <1>6 DEF Disks
<1> QED
  BY <1>3, <1>5, <1>7

\* dirlink() of k, with the link that ".." is.
Named(d, dp, name, k, more) ==
  [Dirlink(d, dp, name, k) EXCEPT !.nlink[dp] = @ + more]

\* The disk after dirlink().
LEMMA NamedIs ==
  ASSUME NEW d \in Disks, NEW dp \in Inums, NEW k \in Inums,
         NEW name \in Names, NEW more \in Nat,
         NEW e, e = Named(d, dp, name, k, more)
  PROVE  /\ e \in Disks /\ e.type = d.type /\ e.up = d.up
         /\ e.nlink[dp] = d.nlink[dp] + more
         /\ \A j \in Inums \ {dp} : e.nlink[j] = d.nlink[j]
                                    /\ e.dir[j] = d.dir[j]
         /\ \A m \in Names : e.dir[dp][m] = IF m = name THEN k
                                            ELSE d.dir[dp][m]
<1>1. k \in Numbers
  BY DEF Numbers, Inums
<1>2. PICK f : f = Dirlink(d, dp, name, k)
  OBVIOUS
<1>3. f = [d EXCEPT !.dir[dp][name] = k]
  BY <1>2 DEF Dirlink
<1>4. /\ f \in Disks /\ f.type = d.type /\ f.up = d.up /\ f.nlink = d.nlink
      /\ f.dir = [d.dir EXCEPT ![dp][name] = k]
  BY <1>1, <1>3 DEF Disks
<1>5. e = [f EXCEPT !.nlink[dp] = @ + more]
  BY <1>2 DEF Named
<1>n. PICK n \in Nat : n = f.nlink[dp] + more
  BY <1>4 DEF Disks
<1>m. e = [f EXCEPT !.nlink[dp] = n]
  BY <1>5, <1>n
<1>6. /\ e \in Disks /\ e.type = f.type /\ e.up = f.up /\ e.dir = f.dir
      /\ e.nlink = [f.nlink EXCEPT ![dp] = n]
  <2>1. f \in Disks
    BY <1>4
  <2> QED
    BY ONLY <1>m, <1>n, <2>1 DEF Disks
<1>7. d.nlink \in [Inums -> Nat] /\ d.dir \in [Inums -> [Names -> Numbers]]
  BY DEF Disks
<1> QED
  BY <1>4, <1>6, <1>7, <1>n

\* Its entry in the inode table.
LEMMA BornIs ==
  ASSUME NEW u \in [Inums -> Entries], NEW k \in Inums, u[k] = Unused,
         NEW d \in Disks, NEW v, v = Ilock(Iget(u, k), d, k)
  PROVE  /\ v \in [Inums -> Entries] /\ v[k] = Entry(1, d, k)
         /\ \A j \in Inums \ {k} : v[j] = u[j]
<1>1. PICK w : w = Iget(u, k)
  OBVIOUS
<1>2. w = [u EXCEPT ![k] = More(u[k])] /\ w \in [Inums -> Entries]
  BY <1>1, IgetIs
<1>3. w[k] = [Unused EXCEPT !.ref = 1] /\ \A j \in Inums \ {k} : w[j] = u[j]
  BY <1>2 DEF More, Unused
<1>4. w[k].valid = FALSE /\ w[k].ref = 1 /\ w[k] \in Entries
  BY <1>2, <1>3 DEF Unused
<1>5. v = [w EXCEPT ![k].valid = TRUE, ![k].type = d.type[k],
                    ![k].nlink = d.nlink[k]]
  BY <1>1, <1>4 DEF Ilock
<1>6. d.type[k] \in Types /\ d.nlink[k] \in Nat
  BY DEF Disks
<1>7. v \in [Inums -> Entries]
  <2>1. w \in [Inums -> Entries]
    BY <1>2
  <2>2. [w EXCEPT ![k].valid = TRUE, ![k].type = d.type[k],
                    ![k].nlink = d.nlink[k]] \in [Inums -> Entries]
    BY <1>4, <1>6, <2>1 DEF Entries
  <2> QED
    BY <1>5, <2>2
<1>8. v[k] = Entry(1, d, k)
  BY <1>2, <1>4, <1>5, <1>6 DEF Entry, Entries
<1>9. \A j \in Inums \ {k} : v[j] = w[j]
  BY <1>2, <1>5
<1> QED
  BY <1>3, <1>7, <1>8, <1>9

\* A lock that is held is held by a process that uses the inode.
Owns(r, i) ==
  \/ r.pc \in {"filealloc", "unlink2"} /\ r.at = i
  \/ r.fr = "trunc" /\ Head(r.todo) = i
LockHeld == \A i \in Inums : lock[i] # NoProc => Owns(pr[lock[i]], i)

\* ialloc() finds an inode that nobody uses.
LEMMA FreeIs ==
  ASSUME IInv, LockHeld, NEW k \in Inums, disk.type[k] = "free",
         NEW p \in Procs
  PROVE  /\ inode[k] = Unused /\ inode[k].ref = 0 /\ k \notin Freed(p)
         /\ lock[k] = NoProc /\ disk.nlink[k] = 0
<1>1. inode[k].ref \in Nat /\ lock[k] \in Procs \cup {NoProc}
  BY DEF IInv, TypeOK, Entries
<1>2. inode[k].ref = 0 /\ inode[k] = Unused
  BY <1>1 DEF IInv, Table, TableAt
<1>3. ASSUME lock[k] # NoProc PROVE FALSE
  <2>1. PICK q \in Procs : q = lock[k] /\ Owns(pr[q], k)
    BY <1>1, <1>3 DEF LockHeld
  <2>2. CASE pr[q].at = k
    <3>0. k # 0
      BY DEF Inums
    <3>1. InUse(q, k)
      BY <2>2, <3>0, ProcIs
    <3> QED
      BY <1>2, <3>1 DEF InUse
  <2>3. CASE pr[q].fr = "trunc" /\ Head(pr[q].todo) = k
    <3>1. FreeingBy(q)
      BY ProcIs
    <3> QED
      BY <2>3, <3>1 DEF FreeingBy
  <2> QED
    BY <2>1, <2>2, <2>3 DEF Owns
<1> QED
  BY <1>2, <1>3, LinkedSafe DEF IInv, DiskOK

\* create() of a new inode.
LEMMA CreateNewOK ==
  ASSUME IInv, LockHeld, NEW p \in Procs, NEW full \in BOOLEAN,
         CreateNew(p, full)
  PROVE  IInv'
<1>0. PICK dp, name, ty, k : /\ dp = pr[p].at /\ name = Head(pr[p].rest)
                             /\ ty = Type(p) /\ k = FirstOf(FreeInodes)
  OBVIOUS
<1> DEFINE t == Ilock(inode, disk, dp)
           links == IF full THEN 0 ELSE 1
           more == IF ty = "dir" /\ ~full THEN 1 ELSE 0
           d1 == Fresh(k, ty, links, dp)
<1>1. /\ pr[p].op \in {"create", "mkdir"} /\ At(p, pr[p].op)
      /\ pr[p].pc = pr[p].op /\ lock[dp] = NoProc
      /\ t[dp].nlink # 0 /\ Dirlookup(disk, dp, name) = 0
      /\ UNCHANGED files /\ saved' = saved /\ booting' = booting
  BY <1>0 DEF CreateNew, At, world, CanLock
<1>2. /\ pr[p].todo = <<>> /\ pr[p].fr = "no" /\ booting = FALSE
      /\ \A j \in Inums : Weight(pr[p], j) = Is(dp, j) + Is(pr[p].ip, j)
  BY <1>0, <1>1, AtIs
<1>3. /\ pr[p] \in Records /\ dp # 0 /\ pr[p].ip = 0
      /\ dp \in Inums /\ InUse(p, dp) /\ disk.type[dp] = "dir"
      /\ Len(pr[p].rest) = 1
  BY <1>0, <1>1, ProcIs DEF Shape, InUse, DirsOf
<1>4. CASE FreeInodes = {}
  <2>1. inode' = t /\ UNCHANGED <<disk, lock>> /\ Finish(p, <<dp>>)
    BY <1>0, <1>4 DEF CreateNew
  <2>2. LockMove(p)
    BY <2>1, LockMoves
  <2> QED
    BY <1>0, <1>1, <1>3, <2>1, <2>2, LockEndOK
<1>5. ASSUME FreeInodes # {}
      PROVE  IInv'
  <2>1. k \in Inums /\ disk.type[k] = "free"
    <3>1. FreeInodes \in SUBSET Nat
      BY DEF FreeInodes, Inums
    <3>2. k \in FreeInodes
      BY <1>0, <1>5, <3>1, FirstIs
    <3> QED
      BY <3>2 DEF FreeInodes
  <2>2. /\ inode[k] = Unused /\ inode[k].ref = 0 /\ k \notin Freed(p)
        /\ lock[k] = NoProc /\ disk.nlink[k] = 0 /\ k # dp
    BY <1>3, <2>1, FreeIs
  <2>3. /\ disk \in Disks /\ DiskOK(disk) /\ inode \in [Inums -> Entries]
        /\ t = [inode EXCEPT ![dp] = Entry(inode[dp].ref, disk, dp)]
        /\ Entry(inode[dp].ref, disk, dp) \in Entries
    BY <1>3, IlockIs DEF IInv, TypeOK
  <2>4. /\ t \in [Inums -> Entries] /\ t[dp] = Entry(inode[dp].ref, disk, dp)
        /\ t[dp].nlink = disk.nlink[dp] /\ t[dp].type = disk.type[dp]
        /\ t[dp].ref = inode[dp].ref /\ t[dp].valid = TRUE
        /\ \A j \in Inums \ {dp} : t[j] = inode[j]
    BY <1>3, <2>3 DEF Entry
  <2>5. disk.nlink[dp] \in Nat /\ disk.nlink[dp] > 0
    BY <1>1, <1>3, <2>3, <2>4 DEF Disks
  <2>6. name \in Names /\ disk.dir[dp][name] = 0
    <3>1. name \in Elems
      BY <1>0, <1>3, OneElem DEF Records
    <3>2. name # "."
      BY <1>1, <1>3 DEF Dirlookup
    <3>3. name # ".."
      BY <1>1, <1>3, <2>3, <2>5 DEF Dirlookup, DiskOK
    <3> QED
      BY <1>1, <3>1, <3>2, <3>3 DEF Elems, Dirlookup
  <2>7. ty \in {"file", "dir"} /\ links \in Nat /\ more \in Nat
    BY <1>0 DEF Type
  <2>8. /\ disk' = IF full THEN d1 ELSE Named(d1, dp, name, k, more)
        /\ inode' = Ilock(Iget(TableLink(t, dp, t[dp].nlink + more), k),
                          d1, k)
        /\ IF ~full /\ ty = "file"
             THEN /\ lock' = [lock EXCEPT ![k] = p]
                  /\ Go(p, [Idle EXCEPT !.pc = "filealloc", !.at = k,
                                   !.todo = <<dp>>])
             ELSE /\ UNCHANGED lock
                  /\ Finish(p, IF full THEN <<k, dp>> ELSE <<dp, k>>)
    BY <1>0, <1>5 DEF CreateNew, Fresh, Named
  <2> HIDE DEF t, links, more, d1
  <2>9. /\ d1 \in Disks
        /\ d1.type[k] = ty /\ d1.nlink[k] = links /\ d1.dir[k] = Empty
        /\ ty = "dir" => d1.up[k] = dp
        /\ \A j \in Inums \ {k} :
             /\ d1.type[j] = disk.type[j] /\ d1.nlink[j] = disk.nlink[j]
             /\ d1.dir[j] = disk.dir[j] /\ d1.up[j] = disk.up[j]
    BY <1>3, <2>1, <2>7, FreshIs DEF d1
  <2>a. /\ disk' \in Disks /\ DiskOK(disk')
        /\ disk'.type[k] = ty /\ disk'.nlink[k] = links
        /\ disk'.nlink[dp] = disk.nlink[dp] + more
        /\ \A j \in Inums \ {k} : disk'.type[j] = disk.type[j]
        /\ \A j \in Inums \ {k, dp} : /\ disk'.nlink[j] = disk.nlink[j]
                                      /\ disk'.dir[j] = disk.dir[j]
        /\ \A j \in Inums : disk'.nlink[j] - Links(disk', j) >=
                              disk.nlink[j] - Links(disk, j)
    <3>1. CASE full
      <4>1. disk' = d1 /\ links = 0 /\ more = 0
        BY <2>8, <3>1 DEF links, more
      <4>2. Made(disk, disk', k)
        BY <2>1, <2>7, <2>9, <4>1 DEF Made
      <4>3. DiskOK(disk') /\ \A j \in Inums : Links(disk', j) = Links(disk, j)
        BY <2>1, <2>3, <2>9, <4>1, <4>2, MadeOK
      <4>4. ASSUME NEW j \in Inums
            PROVE  disk'.nlink[j] - Links(disk', j) >=
                     disk.nlink[j] - Links(disk, j)
        <5>1. disk'.nlink[j] = disk.nlink[j] /\ disk.nlink[j] \in Nat
          BY <2>2, <2>3, <2>9, <4>1 DEF Disks
        <5>2. Links(disk', j) = Links(disk, j) /\ Links(disk, j) \in Nat
          BY <4>3, LinksType
        <5> QED
          BY <5>1, <5>2
      <4> QED
        BY <1>3, <2>2, <2>5, <2>9, <4>1, <4>3, <4>4
    <3>2. CASE ~full
      <4>1. disk' = Named(d1, dp, name, k, more) /\ links = 1
            /\ more = IF ty = "dir" THEN 1 ELSE 0
        BY <2>8, <3>2 DEF links, more
      <4>2. /\ disk' \in Disks /\ disk'.type = d1.type /\ disk'.up = d1.up
            /\ disk'.nlink[dp] = d1.nlink[dp] + more
            /\ \A j \in Inums \ {dp} : disk'.nlink[j] = d1.nlink[j]
                                       /\ disk'.dir[j] = d1.dir[j]
            /\ \A m \in Names : disk'.dir[dp][m] = IF m = name THEN k
                                                   ELSE d1.dir[dp][m]
        <5>1. PICK d, n : d = d1 /\ n = more
          OBVIOUS
        <5>2. /\ d \in Disks /\ n \in Nat /\ disk' = Named(d, dp, name, k, n)
              /\ name \in Names
          BY <2>6, <2>7, <2>9, <4>1, <5>1
        <5>3. /\ disk' \in Disks /\ disk'.type = d.type /\ disk'.up = d.up
              /\ disk'.nlink[dp] = d.nlink[dp] + n
              /\ \A j \in Inums \ {dp} : disk'.nlink[j] = d.nlink[j]
                                         /\ disk'.dir[j] = d.dir[j]
              /\ \A m \in Names : disk'.dir[dp][m] = IF m = name THEN k
                                                     ELSE d.dir[dp][m]
          <6>1. dp \in Inums /\ k \in Inums
            BY <1>3, <2>1
          <6> QED
            BY ONLY <5>2, <6>1, NamedIs
        <5> QED
          BY ONLY <5>1, <5>3
      <4>3. ASSUME NEW j \in Inums \ {k}
            PROVE  /\ disk'.nlink[j] = disk.nlink[j]
                         + IF j = dp /\ disk'.type[k] = "dir" THEN 1 ELSE 0
                   /\ \A m \in Names :
                        disk'.dir[j][m] = IF j = dp /\ m = name THEN k
                                          ELSE disk.dir[j][m]
        <5>1. disk.nlink[j] \in Nat /\ disk'.type[k] = ty
          BY <2>1, <2>3, <2>9, <4>2 DEF Disks
        <5>2. CASE j = dp
          BY <2>2, <2>9, <4>1, <4>2, <5>1, <5>2
        <5>3. CASE j # dp
          BY <2>9, <4>2, <5>1, <5>3
        <5> QED
          BY <5>2, <5>3
      <4>4. Created(disk, disk', k, dp, name)
        <5>1. /\ disk'.type[k] = ty /\ disk'.nlink[k] = 1
              /\ disk'.dir[k] = Empty /\ (ty = "dir" => disk'.up[k] = dp)
          BY <2>1, <2>2, <2>9, <4>1, <4>2
        <5>2. \A j \in Inums \ {k} : disk'.type[j] = disk.type[j]
                                     /\ disk'.up[j] = disk.up[j]
          BY <2>9, <4>2
        <5> QED
          BY <1>3, <2>1, <2>5, <2>6, <2>7, <4>3, <5>1, <5>2 DEF Created
      <4>5. /\ DiskOK(disk')
            /\ \A j \in Inums : disk'.nlink[j] - Links(disk', j) >=
                                  disk.nlink[j] - Links(disk, j)
        BY <1>3, <2>1, <2>3, <2>6, <4>2, <4>4, CreatedOK
      <4> QED
        BY <1>3, <2>1, <2>2, <2>9, <4>1, <4>2, <4>5
    <3> QED
      BY <3>1, <3>2
  <2>b. PICK u : u = TableLink(t, dp, t[dp].nlink + more)
    OBVIOUS
  <2>c. t[dp].nlink + more \in Nat
    BY <2>4, <2>5, <2>7
  <2>d. /\ u = [t EXCEPT ![dp] = [t[dp] EXCEPT !.nlink = t[dp].nlink + more]]
        /\ u \in [Inums -> Entries]
    <3>1. PICK n \in Nat : n = t[dp].nlink + more
      BY <2>c
    <3>2. t \in [Inums -> Entries] /\ u = TableLink(t, dp, n)
      BY <2>4, <2>b, <3>1
    <3>3. /\ u = [t EXCEPT ![dp] = [t[dp] EXCEPT !.nlink = n]]
          /\ u \in [Inums -> Entries]
      BY <1>3, <3>2, TableLinkIs
    <3> QED
      BY <3>1, <3>3
  <2>e. /\ u[dp].ref = inode[dp].ref /\ u[dp].valid
        /\ u[dp].type = disk.type[dp]
        /\ u[dp].nlink = disk.nlink[dp] + more
        /\ \A j \in Inums \ {dp} : u[j] = inode[j]
    <3>1. u[dp] = [t[dp] EXCEPT !.nlink = t[dp].nlink + more]
          /\ \A j \in Inums \ {dp} : u[j] = t[j]
      BY <1>3, <2>4, <2>d
    <3>2. t[dp] \in Entries
      BY <1>3, <2>4
    <3> QED
      BY <2>4, <3>1, <3>2 DEF Entries
  <2>f. /\ inode' \in [Inums -> Entries] /\ inode'[k] = Entry(1, d1, k)
        /\ \A j \in Inums \ {k} : inode'[j] = u[j]
    <3>1. u[k] = Unused /\ inode' = Ilock(Iget(u, k), d1, k)
      BY <2>1, <2>2, <2>8, <2>b, <2>e
    <3>2. u \in [Inums -> Entries] /\ d1 \in Disks
      BY <2>9, <2>d
    <3> QED
      BY <2>1, <3>1, <3>2, BornIs
  <2>g. /\ inode'[k].ref = 1 /\ inode'[k].valid /\ inode'[k].type = ty
        /\ inode'[k].nlink = links
        /\ inode'[dp].ref = inode[dp].ref /\ inode'[dp].valid
        /\ inode'[dp].type = disk.type[dp]
        /\ inode'[dp].nlink = disk.nlink[dp] + more
        /\ \A j \in Inums \ {dp, k} : inode'[j] = inode[j]
    BY <1>3, <2>2, <2>9, <2>e, <2>f DEF Entry
  <2>h. LockMove(p) /\ (~full /\ ty = "file" => lock'[k] = p)
    <3>1. UNCHANGED lock \/ lock' = [lock EXCEPT ![k] = p]
      BY <2>8
    <3>2. LockMove(p)
      BY <2>1, <2>2, <3>1, LockMoves
    <3> QED
      BY <2>1, <2>8, <3>2 DEF IInv, TypeOK
  <2>i. \E r : /\ Follows(p, r) /\ \A j \in Inums : ~Counts(r, j)
               /\ \A j \in Inums : Weight(r, j) = Is(dp, j) + Is(k, j)
    <3>1. CASE ~full /\ ty = "file"
      <4> DEFINE r == [Idle EXCEPT !.pc = "filealloc", !.at = k,
                                   !.todo = <<dp>>]
      <4>1. /\ r.pc = "filealloc" /\ r.at = k /\ r.ip = 0
            /\ r.op = "none" /\ r.fr = "no" /\ r.todo = <<dp>>
        BY DEF Idle
      <4>2. r \in Records
        <5>1. "filealloc" \in PCs /\ k \in Numbers /\ <<dp>> \in Seq(Inums)
          BY <1>3, <2>1 DEF PCs, Numbers, Inums
        <5> QED
          BY <5>1, IdleIs DEF Records
      <4>3. Go(p, r)
        BY <2>8, <3>1
      <4> HIDE DEF r
      <4>4. Len(r.todo) <= 2 /\ r.at # 0 /\ lock'[r.at] = p
        BY <2>1, <2>h, <3>1, <4>1 DEF Inums
      <4>5. Follows(p, r) /\ \A j \in Inums : ~Counts(r, j)
        BY <1>1, <1>2, <4>1, <4>2, <4>3, <4>4, AllocFollows
      <4>6. ASSUME NEW j \in Inums
            PROVE  Weight(r, j) = Is(dp, j) + Is(k, j)
        <5>1. Weight(r, j) = Is(k, j) + Is(0, j) + Is(dp, j)
          BY <4>1, WeightIs
        <5>2. Is(0, j) = 0
          BY DEF Is, Inums
        <5> QED
          BY ONLY <5>1, <5>2, WeightType
      <4> QED
        BY <4>5, <4>6
    <3>2. CASE full
      <4>1. Finish(p, <<k, dp>>)
        BY <2>8, <3>2
      <4>2. /\ Follows(p, EndRec(<<k, dp>>))
            /\ \A j : ~Counts(EndRec(<<k, dp>>), j)
            /\ \A j \in Inums :
                 Weight(EndRec(<<k, dp>>), j) = Is(k, j) + Is(dp, j)
        BY <1>1, <1>2, <1>3, <2>1, <4>1, EndTwo
      <4>3. \A j \in Inums :
                 Weight(EndRec(<<k, dp>>), j) = Is(dp, j) + Is(k, j)
        BY ONLY <4>2, WeightType
      <4> QED
        BY <4>2, <4>3
    <3>3. CASE ~full /\ ty # "file"
      <4>1. Finish(p, <<dp, k>>)
        BY <2>8, <3>3
      <4>2. /\ Follows(p, EndRec(<<dp, k>>))
            /\ \A j : ~Counts(EndRec(<<dp, k>>), j)
            /\ \A j \in Inums :
                 Weight(EndRec(<<dp, k>>), j) = Is(dp, j) + Is(k, j)
        BY <1>1, <1>2, <1>3, <2>1, <4>1, EndTwo
      <4> QED
        BY <4>2
    <3> QED
      BY <3>1, <3>2, <3>3
  <2>j. PICK r : /\ Follows(p, r) /\ \A j \in Inums : ~Counts(r, j)
                 /\ \A j \in Inums : Weight(r, j) = Is(dp, j) + Is(k, j)
    BY <2>i
  <2>k. Slack(p, r)
    <3> SUFFICES ASSUME NEW j \in Inums
                 PROVE  disk'.nlink[j] - Links(disk', j) >=
                          disk.nlink[j] - Links(disk, j) + C(r, j) - C(pr[p], j)
      BY DEF Slack
    <3>1. C(r, j) = 0 /\ C(pr[p], j) \in Nat
      BY <2>j DEF C
    <3>2. disk'.nlink[j] - Links(disk', j) >= disk.nlink[j] - Links(disk, j)
      BY <2>a
    <3>3. disk.nlink[j] \in Nat /\ Links(disk, j) \in Nat
          /\ disk'.nlink[j] \in Nat /\ Links(disk', j) \in Nat
      BY <2>3, <2>a, LinksType DEF Disks
    <3> QED
      BY ONLY <3>1, <3>2, <3>3
  <2>l. Even(p, r)
    <3> SUFFICES ASSUME NEW j \in Inums
                 PROVE  inode'[j].ref + Weight(pr[p], j) =
                          inode[j].ref + Weight(r, j)
      BY DEF Even
    <3>1. Weight(pr[p], j) = Is(dp, j) + Is(0, j) /\ Is(0, j) = 0
      BY <1>2, <1>3 DEF Is, Inums
    <3>2. Weight(r, j) = Is(dp, j) + Is(k, j)
      BY <2>j
    <3>3. inode'[j].ref = inode[j].ref + Is(k, j) /\ inode[j].ref \in Nat
      BY <2>2, <2>3, <2>g DEF Is, Entries
    <3> QED
      BY ONLY <3>1, <3>2, <3>3, WeightType
  <2>m. Touches(p, {dp, k})
    <3>1. \A j \in Inums : Keeps(p, j)
      BY <2>g DEF Keeps
    <3>2. dp \notin Freed(p)
      BY <1>3 DEF InUse
    <3>3. \A j \in Inums : inode[j].ref > 0 => disk'.type[j] = disk.type[j]
      BY <2>2, <2>a
    <3>4. \A j \in Inums : inode[j].ref > 0 /\ lock[j] \notin {p, NoProc} =>
                              disk'.dir[j] = disk.dir[j]
      BY <1>1, <2>2, <2>a
    <3> QED
      BY <2>2, <2>a, <2>g, <2>h, <3>1, <3>2, <3>3, <3>4
         DEF Touches, LockMove
  <2>n. Leaves(p, {dp, k})
    <3>1. inode[dp].ref # 0 /\ disk.type[dp] # "free" /\ ty # "free"
      BY <1>3, <2>7 DEF InUse
    <3>2. disk'.type[dp] = disk.type[dp] /\ disk'.nlink[dp] = inode'[dp].nlink
      BY <1>3, <2>2, <2>a, <2>g
    <3>3. TableAt(dp)' /\ TableAt(k)'
      BY <2>a, <2>g, <3>1, <3>2 DEF TableAt
    <3>4. Noticed(dp)' /\ Noticed(k)'
      BY <2>g DEF Noticed
    <3> QED
      BY <1>2, <2>j, <3>3, <3>4 DEF Leaves, Follows
  <2> QED
    <3>1. Moves(p, r)
      BY <2>j DEF Follows
    <3> QED
      BY <1>1, <1>3, <2>1, <2>a, <2>f, <2>h, <2>k, <2>l, <2>m, <2>n, <3>1,
         WriteOK
<1> QED
  BY <1>4, <1>5
-----------------------------------------------------------------------------
\* sys_chdir(), and the steps that change open files.

\* sys_chdir().
LEMMA ChdirOK ==
  ASSUME IInv, NEW p \in Procs, Chdir(p)
  PROVE  IInv'
<1>0. PICK i, o : i = pr[p].at /\ o = cwd[p]
  OBVIOUS
<1> DEFINE t == Ilock(inode, disk, i)
<1>1. /\ At(p, "chdir") /\ pr[p].pc = "chdir" /\ disk' = disk /\ lock' = lock
      /\ file' = file /\ ofile' = ofile /\ saved' = saved
      /\ booting' = booting
  BY DEF Chdir, At, world
<1>2. /\ pr[p].todo = <<>> /\ pr[p].fr = "no" /\ booting = FALSE
      /\ \A j \in Inums : Weight(pr[p], j) = Is(i, j) + Is(pr[p].ip, j)
  BY <1>0, <1>1, AtIs
<1>3. /\ pr[p].ip = 0 /\ i # 0 /\ InUse(p, i) /\ i \in Inums /\ HasType(i)
      /\ o \in Inums
  BY <1>0, <1>1, ProcIs DEF Shape, InUse
<1>4. inode' = t
  BY <1>0, <1>3 DEF Chdir
<1>5. LockMove(p)
  BY <1>1, LockMoves
<1>6. CASE Finish(p, <<i>>) /\ UNCHANGED cwd
  <2>1. UNCHANGED <<disk, saved, files>>
    BY <1>1, <1>6 DEF files
  <2> QED
    BY <1>0, <1>1, <1>3, <1>4, <1>5, <1>6, <2>1, LockEndOK
<1>7. ASSUME Finish(p, <<o>>), cwd' = [cwd EXCEPT ![p] = i]
      PROVE  IInv'
  <2>0. /\ inode \in [Inums -> Entries] /\ cwd \in [Procs -> Inums]
        /\ disk \in Disks
    BY DEF IInv, TypeOK
  <2>1. /\ inode' = [inode EXCEPT ![i] = Entry(inode[i].ref, disk, i)]
        /\ Entry(inode[i].ref, disk, i) \in Entries
    BY <1>3, <1>4, IlockIs DEF IInv
  <2>2. /\ inode' \in [Inums -> Entries]
        /\ inode'[i] = Entry(inode[i].ref, disk, i)
        /\ \A j \in Inums \ {i} : inode'[j] = inode[j]
    BY <1>3, <2>0, <2>1
  <2>3. \A j \in Inums : inode'[j].ref = inode[j].ref /\ inode[j].ref \in Nat
    BY <2>0, <2>2 DEF Entry, Entries
  <2>s. <<o>> \in Seq(Inums) /\ Len(<<o>>) <= 2
    BY <1>3
  <2>4. /\ Follows(p, EndRec(<<o>>)) /\ \A j : ~Counts(EndRec(<<o>>), j)
        /\ \A j \in Inums : Weight(EndRec(<<o>>), j) = Is(o, j)
    BY <1>1, <1>2, <1>7, <2>s, EndFollows
  <2> DEFINE r == EndRec(<<o>>)
  <2> HIDE DEF r
  <2>5. Moves(p, r) /\ pr' \in [Procs -> Records]
    <3>1. Moves(p, r)
      BY <2>4 DEF Follows, r
    <3> QED
      BY <3>1, MovesIs
  <2>6. cwd' \in [Procs -> Inums] /\ cwd'[p] = i
        /\ \A q \in Procs \ {p} : cwd'[q] = cwd[q]
    BY <1>3, <1>7, <2>0
  <2>7. TypeOK'
    BY <1>1, <1>5, <2>2, <2>5, <2>6 DEF IInv, TypeOK, LockMove, Moves
  <2>8. Slack(p, r)
    <3> SUFFICES ASSUME NEW j \in Inums
                 PROVE  disk.nlink[j] - Links(disk, j) >=
                          disk.nlink[j] - Links(disk, j) + C(r, j) - C(pr[p], j)
      BY <1>1 DEF Slack
    <3>1. C(r, j) = 0 /\ C(pr[p], j) \in Nat
      BY <2>4 DEF C, r
    <3>2. disk.nlink[j] \in Nat /\ Links(disk, j) \in Nat
      BY <2>0, LinksType DEF Disks
    <3> QED
      BY ONLY <3>1, <3>2
  <2>9. Counted'
    BY <1>1, <2>0, <2>5, <2>8, CountedStep
  <2>a. Balance(p, r)
    <3> SUFFICES ASSUME NEW j \in Inums
                 PROVE  inode'[j].ref + (Weight(pr[p], j) + Is(cwd[p], j)) =
                          inode[j].ref + (Weight(r, j) + Is(cwd'[p], j))
      BY <1>1, <2>6 DEF Balance
    <3>1. /\ Weight(pr[p], j) = Is(i, j) + Is(0, j) /\ Is(0, j) = 0
          /\ Weight(r, j) = Is(o, j) /\ cwd[p] = o /\ cwd'[p] = i
      BY <1>0, <1>2, <1>3, <2>4, <2>6 DEF Is, Inums, r
    <3>2. inode'[j].ref = inode[j].ref /\ inode[j].ref \in Nat
      BY <2>3
    <3> QED
      BY ONLY <3>1, <3>2, WeightType
  <2>b. Refs' /\ FileTable'
    BY <2>2, <2>5, <2>a, RefsStep
  <2>c. Touches(p, {i})
    <3>1. \A j \in Inums : Keeps(p, j)
      BY <1>3, <2>2 DEF Keeps, Entry
    <3> QED
      BY <1>1, <1>3, <2>2, <3>1 DEF Touches, InUse
  <2>d. Leaves(p, {i})
    <3>1. inode[i].ref >= 1 /\ inode[i].ref \in Nat /\ disk.type[i] # "free"
      BY <1>3, <2>3 DEF InUse
    <3>2. TableAt(i)' /\ Noticed(i)'
      BY <1>1, <2>2, <3>1 DEF TableAt, Entry, Noticed
    <3> QED
      BY <1>2, <2>4, <3>2 DEF Leaves, Follows
  <2>e. DiskOK(disk)' /\ DiskOK(saved)'
    BY <1>1 DEF IInv
  <2> QED
    BY <1>3, <2>5, <2>7, <2>9, <2>b, <2>c, <2>d, <2>e, StepOK
<1> QED
  BY <1>0, <1>3, <1>6, <1>7 DEF Chdir

\* A descriptor of p is set to g, and the files count it.
Assigns(p, d, g) == ofile' = [ofile EXCEPT ![p][d] = g]
Recounts(p, d, g) ==
  /\ file' \in [Files -> [ref : Nat, ip : Numbers]]
  /\ \A f \in Files :
       /\ file'[f].ref + Is(ofile[p][d], f) = file[f].ref + Is(g, f)
       /\ file'[f].ref = 0 <=> file'[f].ip = 0

\* A descriptor and the count of its file change together.
LEMMA DescriptorSet ==
  ASSUME IInv, NEW p \in Procs, NEW d \in Fds, NEW g \in 0 .. NFILE,
         Assigns(p, d, g), Recounts(p, d, g)
  PROVE  FileTable' /\ ofile' \in [Procs -> [Fds -> 0 .. NFILE]]
<1>1. ofile \in [Procs -> [Fds -> 0 .. NFILE]]
  BY DEF IInv, TypeOK
<1>2. ofile' \in [Procs -> [Fds -> 0 .. NFILE]] /\ ofile'[p][d] = g
      /\ \A q \in Procs, e \in Fds : <<q, e>> # <<p, d>> =>
           ofile'[q][e] = ofile[q][e]
  BY <1>1 DEF Assigns
<1>3. ASSUME NEW f \in Files
      PROVE  file'[f].ref = Cardinality(Descriptors(f)')
  <2>1. PICK X, a, F, G :
          /\ X = Procs \X Fds /\ a = <<p, d>>
          /\ F = [x \in X |-> ofile[x[1]][x[2]]]
          /\ G = [x \in X |-> ofile'[x[1]][x[2]]]
    OBVIOUS
  <2>2. IsFiniteSet(X) /\ a \in X
    <3>1. IsFiniteSet(Fds)
      BY ONLY FS_Interval, FileSysAssumption DEF Fds
    <3> QED
      BY <2>1, <3>1, FS_Product, FileSysAssumption
  <2>3. F[a] = ofile[p][d] /\ G[a] = g
    BY <1>2, <2>1
  <2>4. ButFor(X, a, F, G)
    <3> SUFFICES ASSUME NEW x \in X \ {a} PROVE G[x] = F[x]
      BY DEF ButFor
    <3>1. x[1] \in Procs /\ x[2] \in Fds /\ x = <<x[1], x[2]>>
      BY <2>1
    <3> QED
      BY <1>2, <2>1, <3>1
  <2>5. Count(X, G, f) = Count(X, F, f) + Is(G[a], f) - Is(F[a], f)
    BY ONLY <2>2, <2>4, CountOne
  <2>6. Count(X, F, f) = Cardinality(Descriptors(f))
    <3>1. {x \in X : F[x] = f} = Descriptors(f)
      BY <2>1 DEF Descriptors
    <3> QED
      BY <3>1 DEF Count
  <2>7. Count(X, G, f) = Cardinality(Descriptors(f)')
    <3>1. {x \in X : G[x] = f} = Descriptors(f)'
      BY <2>1 DEF Descriptors
    <3> QED
      BY <3>1 DEF Count
  <2>8. file[f].ref = Cardinality(Descriptors(f))
    BY DEF IInv, FileTable
  <2>9. file[f].ref \in Nat /\ file'[f].ref \in Nat
    BY DEF IInv, TypeOK, Recounts
  <2>a. file'[f].ref + Is(F[a], f) = file[f].ref + Is(G[a], f)
    BY <2>3 DEF Recounts
  <2> QED
    BY ONLY <2>5, <2>6, <2>7, <2>8, <2>9, <2>a, WeightType
<1> QED
  BY <1>2, <1>3 DEF FileTable, Recounts

\* A step that changes the file f and nothing of the inodes.
FileEven(p, r, f) ==
  /\ \A g \in Files \ {f} : file'[g].ip = file[g].ip
  /\ \A i \in Inums : Weight(r, i) + Is(file'[f].ip, i) =
                        Weight(pr[p], i) + Is(file[f].ip, i)

\* A step that changes one file and no inode keeps the invariant.
LEMMA FileOK ==
  ASSUME IInv, NEW p \in Procs, NEW r, NEW f \in Files, Follows(p, r),
         pr[p].fr = "no",
         UNCHANGED <<disk, saved, inode, cwd>>, LockMove(p),
         file' \in [Files -> [ref : Nat, ip : Numbers]],
         ofile' \in [Procs -> [Fds -> 0 .. NFILE]],
         FileTable', FileEven(p, r, f)
  PROVE  IInv'
<1>0. Moves(p, r) /\ pr' \in [Procs -> Records] /\ pr'[p] = r
      /\ \A q \in Procs \ {p} : pr'[q] = pr[q]
  <2>1. Moves(p, r)
    BY DEF Follows
  <2> QED
    BY <2>1, MovesIs
<1>1. TypeOK'
  BY <1>0 DEF IInv, TypeOK, LockMove, Moves
<1>2. DiskOK(disk)' /\ DiskOK(saved)'
  BY DEF IInv
<1>3. Slack(p, r)
  <2> SUFFICES ASSUME NEW i \in Inums
               PROVE  disk.nlink[i] - Links(disk, i) >=
                        disk.nlink[i] - Links(disk, i) + C(r, i) - C(pr[p], i)
    BY DEF Slack
  <2>1. C(r, i) <= C(pr[p], i) /\ C(r, i) \in Nat /\ C(pr[p], i) \in Nat
    BY DEF Follows, C
  <2>2. disk.nlink[i] \in Nat /\ Links(disk, i) \in Nat
    BY LinksType DEF IInv, TypeOK, Disks
  <2> QED
    BY ONLY <2>1, <2>2
<1>4. Counted'
  BY <1>0, <1>1, <1>3, CountedStep DEF TypeOK
<1>5. Refs'
  <2> SUFFICES ASSUME NEW i \in Inums PROVE inode[i].ref = Holders(i)'
    BY DEF Refs
  <2>1. Holders(i)' = Holders(i) + (Weight(pr'[p], i) + Is(file'[f].ip, i))
                                 - (Weight(pr[p], i) + Is(file[f].ip, i))
    BY <1>0, HoldersFile DEF FileEven
  <2>2. Weight(r, i) + Is(file'[f].ip, i) = Weight(pr[p], i) + Is(file[f].ip, i)
    BY DEF FileEven
  <2>3. inode[i].ref = Holders(i) /\ Holders(i) \in Nat
    BY HoldersType DEF IInv, Refs
  <2>4. pr'[p] = r
    BY <1>0
  <2> QED
    BY ONLY <2>1, <2>2, <2>3, <2>4, WeightType
<1>6. Touches(p, {})
  BY DEF Touches, LockMove, Keeps
<1>7. Leaves(p, {})
  BY DEF Leaves, Follows
<1> QED
  BY <1>0, <1>1, <1>2, <1>4, <1>5, <1>6, <1>7, StepOK

\* filealloc() and fdalloc() find what is free.
LEMMA OpenFileOK ==
  ASSUME IInv, NEW p \in Procs, OpenFile(p)
  PROVE  IInv'
<1>0. PICK i : i = pr[p].at
  OBVIOUS
<1>1. /\ At(p, "filealloc") /\ pr[p].pc = "filealloc" /\ disk' = disk
      /\ inode' = inode /\ saved' = saved /\ booting' = booting
      /\ lock' = [lock EXCEPT ![i] = NoProc]
  BY <1>0 DEF OpenFile, At, world
<1>2. /\ pr[p].todo = <<>> /\ pr[p].fr = "no" /\ booting = FALSE
      /\ \A j \in Inums : Weight(pr[p], j) = Is(i, j) + Is(pr[p].ip, j)
  BY <1>0, <1>1, AtIs
<1>3. pr[p].ip = 0 /\ i # 0 /\ i \in Inums /\ lock[i] = p
  BY <1>0, <1>1, ProcIs DEF Shape, InUse, LockedBy
<1>4. LockMove(p)
  BY <1>1, <1>3, LockMoves
<1>w. \A j \in Inums : Weight(pr[p], j) = Is(i, j)
  <2>1. \A j \in Inums : Is(pr[p].ip, j) = 0
    BY <1>3 DEF Is, Inums
  <2> QED
    BY <1>2, <2>1, WeightType
<1>5. CASE Finish(p, <<i>>) /\ UNCHANGED files
  <2>s. <<i>> \in Seq(Inums) /\ Len(<<i>>) <= 2
    BY <1>3
  <2>1. /\ Follows(p, EndRec(<<i>>))
        /\ \A j \in Inums : Weight(EndRec(<<i>>), j) = Is(i, j)
    BY <1>1, <1>2, <1>5, <2>s, EndFollows
  <2>2. Calm(p, {})
    BY <1>1, <1>2, <1>4, <1>5 DEF Calm, Keeps, LockMove, IInv, TypeOK
  <2>3. Even(p, EndRec(<<i>>))
    BY <1>1, <1>w, <2>1 DEF Even
  <2> QED
    BY <2>1, <2>2, <2>3, CalmOK
<1>6. ASSUME FreeFiles # {}, FreeFds(p) # {},
             file' = [file EXCEPT ![FirstOf(FreeFiles)] =
                                    [ref |-> 1, ip |-> i]],
             ofile' = [ofile EXCEPT ![p][FirstOf(FreeFds(p))] =
                                      FirstOf(FreeFiles)],
             Finish(p, <<>>), cwd' = cwd
      PROVE  IInv'
  <2>0. PICK f, d : f = FirstOf(FreeFiles) /\ d = FirstOf(FreeFds(p))
    OBVIOUS
  <2>1. f \in Files /\ file[f].ref = 0
    <3>1. FreeFiles \in SUBSET Nat
      BY DEF FreeFiles, Files
    <3>2. f \in FreeFiles
      BY <1>6, <2>0, <3>1, FirstIs
    <3> QED
      BY <3>2 DEF FreeFiles
  <2>2. d \in Fds /\ ofile[p][d] = 0
    <3>1. FreeFds(p) \in SUBSET Nat
      BY DEF FreeFds, Fds
    <3>2. d \in FreeFds(p)
      BY <1>6, <2>0, <3>1, FirstIs
    <3> QED
      BY <3>2 DEF FreeFds, IsOpen
  <2>3. /\ file' = [file EXCEPT ![f] = [ref |-> 1, ip |-> i]]
        /\ ofile' = [ofile EXCEPT ![p][d] = f]
        /\ file \in [Files -> [ref : Nat, ip : Numbers]]
        /\ i \in Numbers /\ f \in 0 .. NFILE
    BY <1>3, <1>6, <2>0, <2>1
       DEF IInv, TypeOK, Numbers, Inums, Files
  <2>4. /\ file' \in [Files -> [ref : Nat, ip : Numbers]]
        /\ file'[f].ref = 1 /\ file'[f].ip = i
        /\ \A g \in Files \ {f} : file'[g] = file[g]
    BY <2>1, <2>3
  <2>5. file[f].ip = 0
    BY <2>1 DEF IInv, FileTable
  <2>6. FileTable' /\ ofile' \in [Procs -> [Fds -> 0 .. NFILE]]
    <3>1. ASSUME NEW g \in Files
          PROVE  /\ file'[g].ref + Is(ofile[p][d], g) = file[g].ref + Is(f, g)
                 /\ file'[g].ref = 0 <=> file'[g].ip = 0
      <4>1. Is(ofile[p][d], g) = 0
        BY <2>2 DEF Is, Files
      <4>2. file[g].ref \in Nat
        BY <2>3
      <4>3. CASE g = f
        BY <1>3, <2>1, <2>4, <4>1, <4>3 DEF Is
      <4>4. CASE g # f
        BY <2>4, <4>1, <4>2, <4>4 DEF Is, IInv, FileTable
      <4> QED
        BY <4>3, <4>4
    <3>2. Assigns(p, d, f) /\ Recounts(p, d, f)
      BY <2>3, <2>4, <3>1 DEF Assigns, Recounts
    <3>3. f \in 0 .. NFILE
      BY <2>3
    <3> QED
      BY <2>2, <3>2, <3>3, DescriptorSet
  <2>p. PICK todo : todo = <<>>
    OBVIOUS
  <2>7. todo = <<>> /\ todo \in Seq(Inums) /\ Len(todo) <= 2
    BY <2>p
  <2>8. /\ Follows(p, EndRec(todo))
        /\ \A j \in Inums : Weight(EndRec(todo), j) = 0
    BY <1>1, <1>2, <1>6, <2>7, EndFollows
  <2>9. FileEven(p, EndRec(todo), f)
    <3> SUFFICES ASSUME NEW j \in Inums
                 PROVE  Weight(EndRec(todo), j) + Is(file'[f].ip, j) =
                          Weight(pr[p], j) + Is(file[f].ip, j)
      BY <2>4 DEF FileEven
    <3>1. Is(file[f].ip, j) = 0 /\ Weight(EndRec(todo), j) = 0
          /\ Weight(pr[p], j) = Is(i, j) /\ file'[f].ip = i
      BY <1>w, <2>4, <2>5, <2>8 DEF Is, Inums
    <3> QED
      BY ONLY <3>1, WeightType
  <2> QED
    BY <1>1, <1>2, <1>4, <1>6, <2>1, <2>4, <2>6, <2>8, <2>9, FileOK
<1> QED
  BY <1>0, <1>5, <1>6 DEF OpenFile

\* An idle process, that stays where it is.
LEMMA IdleProc ==
  ASSUME IInv, NEW p \in Procs, At(p, "idle")
  PROVE  /\ pr[p] = Idle /\ booting = FALSE /\ pr[p].fr = "no"
         /\ pr' = pr /\ booting' = booting /\ lock' = lock =>
              Follows(p, pr[p])
<1>1. pr[p] = Idle /\ booting = FALSE /\ pr[p].fr = "no"
  BY ProcIs DEF At, Shape, Idle
<1>2. ASSUME pr' = pr, booting' = booting, lock' = lock
      PROVE  Follows(p, pr[p])
  <2>1. pr' = [pr EXCEPT ![p] = pr[p]] /\ pr'[p] = Idle
    BY <1>1, <1>2 DEF IInv, TypeOK
  <2>2. Moves(p, pr[p])
    BY <1>1, <1>2, <2>1, IdleIs DEF Moves
  <2>3. LockedBy(p)' /\ FreeingBy(p)' /\ DirsOf(p)'
    BY <2>1 DEF LockedBy, FreeingBy, DirsOf, Idle
  <2> QED
    BY <2>2, <2>3 DEF Follows
<1> QED
  BY <1>1, <1>2

\* The file of an open descriptor.
LEMMA OpenIs ==
  ASSUME IInv, NEW p \in Procs, NEW fd \in Fds, IsOpen(p, fd)
  PROVE  /\ ofile[p][fd] \in Files
         /\ file[ofile[p][fd]].ref >= 1 /\ file[ofile[p][fd]].ref \in Nat
         /\ file[ofile[p][fd]].ip \in Inums
<1>1. PICK f : f = ofile[p][fd]
  OBVIOUS
<1>2. f \in Files
  BY <1>1, FileSysAssumption DEF IsOpen, IInv, TypeOK, Files
<1>3. <<p, fd>> \in Descriptors(f)
  BY <1>1 DEF Descriptors
<1>4. IsFiniteSet(Descriptors(f))
  <2>1. IsFiniteSet(Fds)
    BY ONLY FS_Interval, FileSysAssumption DEF Fds
  <2>2. IsFiniteSet(Procs \X Fds)
    BY ONLY <2>1, FS_Product, FileSysAssumption
  <2> QED
    BY <2>2, FS_Subset DEF Descriptors
<1>5. Cardinality(Descriptors(f)) # 0
  BY <1>3, <1>4, FS_EmptySet
<1>6. /\ file[f].ref = Cardinality(Descriptors(f))
      /\ file[f].ref = 0 <=> file[f].ip = 0
  BY <1>2 DEF IInv, FileTable
<1>7. file[f].ref \in Nat /\ file[f].ip \in Numbers
  BY <1>2 DEF IInv, TypeOK
<1>8. file[f].ref >= 1 /\ file[f].ip # 0
  BY <1>5, <1>6, <1>7
<1>9. file[f].ip \in Inums
  BY <1>7, <1>8, FileSysAssumption DEF Numbers, Inums
<1> QED
  BY <1>1, <1>2, <1>7, <1>8, <1>9

\* sys_dup().
LEMMA DupOK ==
  ASSUME IInv, NEW p \in Procs, NEW fd \in Fds, Dup(p, fd)
  PROVE  IInv'
<1>0. PICK f, d : f = ofile[p][fd] /\ d = FirstOf(FreeFds(p))
  OBVIOUS
<1>1. /\ At(p, "idle") /\ IsOpen(p, fd) /\ FreeFds(p) # {}
      /\ disk' = disk /\ inode' = inode /\ lock' = lock /\ cwd' = cwd
      /\ pr' = pr /\ saved' = saved /\ booting' = booting
  BY DEF Dup, world
<1>2. f \in Files /\ file[f].ref >= 1 /\ file[f].ref \in Nat
      /\ file[f].ip \in Inums
  BY <1>0, <1>1, OpenIs
<1>3. d \in Fds /\ ofile[p][d] = 0
  <2>1. FreeFds(p) \in SUBSET Nat
    BY DEF FreeFds, Fds
  <2>2. d \in FreeFds(p)
    BY <1>0, <1>1, <2>1, FirstIs
  <2> QED
    BY <2>2 DEF FreeFds, IsOpen
<1>4. /\ file' = [file EXCEPT ![f].ref = @ + 1]
      /\ ofile' = [ofile EXCEPT ![p][d] = f]
      /\ file \in [Files -> [ref : Nat, ip : Numbers]] /\ f \in 0 .. NFILE
  BY <1>0, <1>2 DEF Dup, Filedup, IInv, TypeOK, Files
<1>5. /\ file' \in [Files -> [ref : Nat, ip : Numbers]]
      /\ file'[f].ref = file[f].ref + 1 /\ file'[f].ip = file[f].ip
      /\ \A g \in Files \ {f} : file'[g] = file[g]
  BY <1>2, <1>4
<1>6. FileTable' /\ ofile' \in [Procs -> [Fds -> 0 .. NFILE]]
  <2>1. ASSUME NEW g \in Files
        PROVE  /\ file'[g].ref + Is(ofile[p][d], g) = file[g].ref + Is(f, g)
               /\ file'[g].ref = 0 <=> file'[g].ip = 0
    <3>1. Is(ofile[p][d], g) = 0
      BY <1>3 DEF Is, Files
    <3>2. file[g].ref \in Nat
      BY <1>4
    <3>3. CASE g = f
      BY <1>2, <1>5, <3>1, <3>3 DEF Is, Inums
    <3>4. CASE g # f
      BY <1>5, <3>1, <3>2, <3>4 DEF Is, IInv, FileTable
    <3> QED
      BY <3>3, <3>4
  <2>2. Assigns(p, d, f) /\ Recounts(p, d, f)
    BY <1>4, <1>5, <2>1 DEF Assigns, Recounts
  <2>3. f \in 0 .. NFILE
    BY <1>4
  <2> QED
    BY <1>3, <2>2, <2>3, DescriptorSet
<1>7. pr[p].fr = "no" /\ Follows(p, pr[p])
  BY <1>1, IdleProc
<1>8. FileEven(p, pr[p], f)
  BY <1>5 DEF FileEven
<1>9. LockMove(p)
  BY <1>1, LockMoves
<1> QED
  BY <1>1, <1>2, <1>5, <1>6, <1>7, <1>8, <1>9, FileOK

\* sys_close().
LEMMA CloseOK ==
  ASSUME IInv, NEW p \in Procs, NEW fd \in Fds, Close(p, fd)
  PROVE  IInv'
<1>0. PICK f, i : f = ofile[p][fd] /\ i = file[f].ip
  OBVIOUS
<1>1. /\ At(p, "idle") /\ IsOpen(p, fd) /\ ofile' = [ofile EXCEPT ![p][fd] = 0]
      /\ disk' = disk /\ inode' = inode /\ lock' = lock /\ cwd' = cwd
      /\ saved' = saved /\ booting' = booting
  BY DEF Close, world
<1>2. f \in Files /\ file[f].ref >= 1 /\ file[f].ref \in Nat /\ i \in Inums
      /\ 0 \in 0 .. NFILE /\ 0 \in Numbers
  BY <1>0, <1>1, OpenIs, FileSysAssumption DEF Numbers
<1>3. file \in [Files -> [ref : Nat, ip : Numbers]]
  BY DEF IInv, TypeOK
<1>4. pr[p] = Idle /\ booting = FALSE /\ pr[p].fr = "no" /\ LockMove(p)
  BY <1>1, IdleProc, LockMoves
<1>5. ASSUME file' \in [Files -> [ref : Nat, ip : Numbers]],
             file'[f].ref = file[f].ref - 1,
             file'[f].ref = 0 <=> file'[f].ip = 0,
             \A g \in Files \ {f} : file'[g] = file[g]
      PROVE  FileTable' /\ ofile' \in [Procs -> [Fds -> 0 .. NFILE]]
  <2>1. ASSUME NEW g \in Files
        PROVE  /\ file'[g].ref + Is(ofile[p][fd], g) = file[g].ref + Is(0, g)
               /\ file'[g].ref = 0 <=> file'[g].ip = 0
    <3>1. Is(0, g) = 0
      BY DEF Is, Files
    <3>2. file[g].ref \in Nat
      BY <1>3
    <3>3. CASE g = f
      BY <1>0, <1>2, <1>5, <3>1, <3>3 DEF Is
    <3>4. CASE g # f
      BY <1>0, <1>5, <3>1, <3>2, <3>4 DEF Is, IInv, FileTable
    <3> QED
      BY <3>3, <3>4
  <2>2. Assigns(p, fd, 0) /\ Recounts(p, fd, 0)
    BY <1>1, <1>5, <2>1 DEF Assigns, Recounts
  <2> QED
    BY <1>2, <2>2, DescriptorSet
<1>6. CASE file[f].ref > 1
  <2>1. file' = [file EXCEPT ![f].ref = @ - 1] /\ pr' = pr
    BY <1>0, <1>6 DEF Close
  <2>2. /\ file' \in [Files -> [ref : Nat, ip : Numbers]]
        /\ file'[f].ref = file[f].ref - 1 /\ file'[f].ip = file[f].ip
        /\ \A g \in Files \ {f} : file'[g] = file[g]
    BY <1>2, <1>3, <2>1
  <2>3. file'[f].ref = 0 <=> file'[f].ip = 0
    BY <1>0, <1>2, <1>6, <2>2 DEF Inums
  <2>4. FileEven(p, pr[p], f)
    BY <2>2 DEF FileEven
  <2>5. Follows(p, pr[p])
    BY <1>1, <2>1, IdleProc
  <2> QED
    BY <1>1, <1>2, <1>4, <1>5, <2>2, <2>3, <2>4, <2>5, FileOK
<1>7. CASE ~(file[f].ref > 1)
  <2> DEFINE r == [pr[p] EXCEPT !.pc = "fileclose", !.at = i]
  <2>1. file' = [file EXCEPT ![f] = Closed] /\ Go(p, r)
    BY <1>0, <1>7 DEF Close
  <2>2. /\ file' \in [Files -> [ref : Nat, ip : Numbers]]
        /\ file'[f].ref = file[f].ref - 1 /\ file'[f].ip = 0
        /\ file'[f].ref = 0
        /\ \A g \in Files \ {f} : file'[g] = file[g]
    BY <1>2, <1>3, <1>7, <2>1 DEF Closed
  <2>3. /\ r.pc = "fileclose" /\ r.op = "none" /\ r.at = i /\ r.ip = 0
        /\ r.todo = <<>> /\ r.fr = "no"
    BY <1>4 DEF Idle
  <2>4. r \in Records
    <3>1. "fileclose" \in PCs /\ i \in Numbers
      BY <1>2 DEF PCs, Numbers, Inums
    <3> QED
      BY <1>4, <3>1, IdleIs DEF Records
  <2> HIDE DEF r
  <2>5. Shape(r)
    <3>1. Len(r.todo) <= 2 /\ r.at # 0
      BY <1>2, <2>3 DEF Inums
    <3> QED
      BY <2>3, <3>1 DEF Shape, Ops
  <2>6. Moves(p, r)
    BY <1>1, <1>4, <2>1, <2>4, <2>5 DEF Moves, Go
  <2>7. pr'[p] = r
    BY <2>6, MovesIs
  <2>8. LockedBy(p)' /\ FreeingBy(p)' /\ DirsOf(p)'
    BY <2>3, <2>7 DEF LockedBy, FreeingBy, DirsOf
  <2>9. Follows(p, r)
    BY <2>3, <2>6, <2>8 DEF Follows, Counts, Inums
  <2>a. FileEven(p, r, f)
    <3> SUFFICES ASSUME NEW j \in Inums
                 PROVE  Weight(r, j) + Is(file'[f].ip, j) =
                          Weight(pr[p], j) + Is(file[f].ip, j)
      BY <2>2 DEF FileEven
    <3>1. Weight(r, j) = Is(i, j) + Is(0, j) /\ Is(0, j) = 0
      BY <2>3, WeightIs DEF Is, Inums
    <3>2. Weight(pr[p], j) = 0
      BY <1>4, IdleIs
    <3>3. file'[f].ip = 0 /\ file[f].ip = i
      BY <1>0, <2>2
    <3> QED
      BY ONLY <3>1, <3>2, <3>3, WeightType
  <2>b. FileTable' /\ ofile' \in [Procs -> [Fds -> 0 .. NFILE]]
    BY <1>5, <2>2
  <2> QED
    BY <1>1, <1>2, <1>4, <2>2, <2>9, <2>a, <2>b, FileOK
<1> QED
  BY <1>6, <1>7
-----------------------------------------------------------------------------
\* The locks.

LockRule(p) ==
  /\ \A q \in Procs \ {p} : pr'[q] = pr[q]
  /\ \A i \in Inums : lock'[i] \in {lock[i], p, NoProc}
  /\ \A i \in Inums : lock'[i] = p => Owns(pr'[p], i)

\* A step that follows the rule keeps the owners of the locks.
LEMMA LockRuleOK ==
  ASSUME IInv, LockHeld, NEW p \in Procs, LockRule(p)
  PROVE  LockHeld'
<1> SUFFICES ASSUME NEW i \in Inums, lock'[i] # NoProc
             PROVE  Owns(pr'[lock'[i]], i)
  BY DEF LockHeld, Owns
<1>1. CASE lock'[i] = p
  BY <1>1 DEF LockRule
<1>2. CASE lock'[i] # p
  <2>1. lock'[i] = lock[i] /\ lock[i] \in Procs \ {p}
    BY <1>2 DEF LockRule, IInv, TypeOK
  <2>2. PICK q : q = lock[i]
    OBVIOUS
  <2>3. Owns(pr[q], i) /\ pr'[q] = pr[q]
    BY <2>1, <2>2 DEF LockHeld, LockRule
  <2> QED
    BY <2>1, <2>2, <2>3
<1> QED
  BY <1>1, <1>2

\* What a process goes on with.
LEMMA GoIs ==
  ASSUME IInv, NEW p \in Procs, NEW r, Go(p, r)
  PROVE  pr'[p] = r /\ \A q \in Procs \ {p} : pr'[q] = pr[q]
  BY DEF Go, IInv, TypeOK

\* A call holds no lock at most of its places.
LEMMA NoLocks ==
  ASSUME IInv, LockHeld, NEW p \in Procs, NEW pc, At(p, pc),
         pc \notin {"filealloc", "unlink2"}
  PROVE  \A i \in Inums : lock[i] # p
<1>1. pr[p].pc = pc /\ pr[p].fr = "no" /\ p # NoProc
  BY ProcIs, FileSysAssumption DEF At, Shape, Records
<1> QED
  BY <1>1 DEF LockHeld, Owns

\* A step of such a call, that locks the inode i or none.
LEMMA LocksOne ==
  ASSUME IInv, LockHeld, NEW p \in Procs, NEW pc, At(p, pc),
         pc \notin {"filealloc", "unlink2"}, NEW r, Go(p, r),
         \/ UNCHANGED lock
         \/ \E i : /\ lock' = [lock EXCEPT ![i] = p]
                   /\ Owns(r, i)
  PROVE  LockHeld'
<1>1. pr'[p] = r /\ \A q \in Procs \ {p} : pr'[q] = pr[q]
  BY GoIs
<1>2. \A i \in Inums : lock[i] # p
  BY NoLocks
<1>3. CASE UNCHANGED lock
  BY <1>1, <1>2, <1>3, LockRuleOK DEF LockRule
<1>4. CASE \E i : /\ lock' = [lock EXCEPT ![i] = p] /\ Owns(r, i)
  <2>1. PICK i : lock' = [lock EXCEPT ![i] = p] /\ Owns(r, i)
    BY <1>4
  <2>2. lock \in [Inums -> Procs \cup {NoProc}]
    BY DEF IInv, TypeOK
  <2>3. \A j \in Inums : lock'[j] = IF j = i THEN p ELSE lock[j]
    BY <2>1, <2>2
  <2>4. LockRule(p)
    BY <1>1, <1>2, <2>1, <2>3 DEF LockRule
  <2> QED
    BY <2>4, LockRuleOK
<1> QED
  BY <1>3, <1>4

\* iput() locks what it truncates.
LEMMA IputLocks ==
  ASSUME IInv, LockHeld, NEW p \in Procs,
         Iput(p) \/ IputTrunc(p) \/ IputDrop(p) \/ Ifree(p)
  PROVE  LockHeld'
<1>0. pr[p] \in Records /\ lock \in [Inums -> Procs \cup {NoProc}]
      /\ p # NoProc
  BY FileSysAssumption DEF IInv, TypeOK
<1>1. \A i \in Inums : lock[i] = p => Owns(pr[p], i)
  BY <1>0 DEF LockHeld
<1>2. PICK h : h = Head(pr[p].todo)
  OBVIOUS
<1>3. ASSUME NEW r, Go(p, r), r.pc = pr[p].pc, r.at = pr[p].at,
             \/ UNCHANGED lock /\ pr[p].fr # "trunc"
             \/ lock' = [lock EXCEPT ![h] = NoProc]
             \/ /\ lock' = [lock EXCEPT ![h] = p] /\ pr[p].fr = "no"
                /\ r.fr = "trunc" /\ Head(r.todo) = h
      PROVE  LockHeld'
  <2>1. pr'[p] = r /\ \A q \in Procs \ {p} : pr'[q] = pr[q]
    BY <1>3, GoIs
  <2>2. \A i \in Inums : lock[i] = p /\ (pr[p].fr = "trunc" => i # h) =>
                           Owns(r, i)
    BY <1>1, <1>2, <1>3 DEF Owns
  <2>3. LockRule(p)
    <3>1. CASE UNCHANGED lock /\ pr[p].fr # "trunc"
      BY <2>1, <2>2, <3>1 DEF LockRule
    <3>2. CASE lock' = [lock EXCEPT ![h] = NoProc]
      <4>1. \A j \in Inums : lock'[j] = IF j = h THEN NoProc ELSE lock[j]
        BY <1>0, <3>2
      <4> QED
        BY <1>0, <2>1, <2>2, <4>1 DEF LockRule
    <3>3. CASE /\ lock' = [lock EXCEPT ![h] = p] /\ pr[p].fr = "no"
               /\ r.fr = "trunc" /\ Head(r.todo) = h
      <4>1. \A j \in Inums : lock'[j] = IF j = h THEN p ELSE lock[j]
        BY <1>0, <3>3
      <4>2. Owns(r, h)
        BY <3>3 DEF Owns
      <4> QED
        BY <2>1, <2>2, <3>3, <4>1, <4>2 DEF LockRule
    <3> QED
      BY <1>3, <3>1, <3>2, <3>3
  <2> QED
    BY <2>3, LockRuleOK
<1>4. CASE Iput(p)
  <2>0. pr[p].fr = "no"
    BY <1>4 DEF Iput
  <2>1. CASE /\ lock' = [lock EXCEPT ![h] = p]
             /\ Go(p, [pr[p] EXCEPT !.fr = "trunc"])
    <3> DEFINE r == [pr[p] EXCEPT !.fr = "trunc"]
    <3>1. Go(p, r) /\ r.pc = pr[p].pc /\ r.at = pr[p].at /\ r.fr = "trunc"
          /\ Head(r.todo) = h
      BY <1>0, <1>2, <2>1 DEF Records
    <3> HIDE DEF r
    <3> QED
      BY <1>3, <2>0, <2>1, <3>1
  <2>2. CASE /\ UNCHANGED lock
             /\ Go(p, [pr[p] EXCEPT !.todo = Tail(pr[p].todo)])
    <3> DEFINE r == [pr[p] EXCEPT !.todo = Tail(pr[p].todo)]
    <3>1. Go(p, r) /\ r.pc = pr[p].pc /\ r.at = pr[p].at
      BY <1>0, <2>2 DEF Records
    <3> HIDE DEF r
    <3> QED
      BY <1>3, <2>0, <2>2, <3>1
  <2> QED
    BY <1>2, <1>4, <2>1, <2>2 DEF Iput
<1>5. CASE IputTrunc(p)
  <2> DEFINE r == [pr[p] EXCEPT !.fr = "drop"]
  <2>1. Go(p, r) /\ r.pc = pr[p].pc /\ r.at = pr[p].at
        /\ lock' = [lock EXCEPT ![h] = NoProc]
    BY <1>0, <1>2, <1>5 DEF IputTrunc, Records
  <2> HIDE DEF r
  <2> QED
    BY <1>3, <2>1
<1>6. CASE IputDrop(p)
  <2> DEFINE r == [pr[p] EXCEPT !.fr = "free"]
  <2>1. Go(p, r) /\ r.pc = pr[p].pc /\ r.at = pr[p].at
        /\ UNCHANGED lock /\ pr[p].fr # "trunc"
    BY <1>0, <1>6 DEF IputDrop, Records
  <2> HIDE DEF r
  <2> QED
    BY <1>3, <2>1
<1>7. CASE Ifree(p)
  <2> DEFINE r == [pr[p] EXCEPT !.fr = "no", !.todo = Tail(pr[p].todo)]
  <2>1. Go(p, r) /\ r.pc = pr[p].pc /\ r.at = pr[p].at
        /\ UNCHANGED lock /\ pr[p].fr # "trunc"
    BY <1>0, <1>7 DEF Ifree, Records
  <2> HIDE DEF r
  <2> QED
    BY <1>3, <2>1
<1> QED
  BY <1>4, <1>5, <1>6, <1>7

\* The steps that let go of the lock.
LEMMA UnlockLocks ==
  ASSUME IInv, IInv', LockHeld, NEW p \in Procs,
         OpenFile(p) \/ UnlinkChild(p)
  PROVE  LockHeld'
<1>0. /\ pr[p] \in Records /\ lock \in [Inums -> Procs \cup {NoProc}]
      /\ p # NoProc /\ pr'[p].pc # "panic"
  BY FileSysAssumption DEF IInv, TypeOK, Shapes, Shape
<1>1. \A i \in Inums : lock[i] = p => Owns(pr[p], i)
  BY <1>0 DEF LockHeld
<1>2. pr[p].fr = "no"
  BY ProcIs DEF OpenFile, UnlinkChild, At, Shape
<1>3. PICK h : h = pr[p].at
  OBVIOUS
<1>4. \E r : Go(p, r)
  BY DEF OpenFile, UnlinkChild, Finish, Panic
<1>5. PICK r : Go(p, r)
  BY <1>4
<1>6. pr'[p] = r /\ \A q \in Procs \ {p} : pr'[q] = pr[q]
  BY <1>5, GoIs
<1>7. lock' = [lock EXCEPT ![h] = NoProc]
  <2>1. CASE OpenFile(p)
    BY <1>3, <2>1 DEF OpenFile
  <2>2. CASE UnlinkChild(p)
    <3>1. ~Panic(p)
      <4> SUFFICES ASSUME Panic(p) PROVE FALSE
        OBVIOUS
      <4>1. pr'[p] = [pr[p] EXCEPT !.pc = "panic", !.todo = <<>>]
        BY GoIs DEF Panic
      <4> QED
        BY <1>0, <4>1 DEF Records
    <3> QED
      BY <1>3, <2>2, <3>1 DEF UnlinkChild
  <2> QED
    BY <2>1, <2>2
<1>8. \A j \in Inums : lock'[j] = IF j = h THEN NoProc ELSE lock[j]
  BY <1>0, <1>7
<1>9. \A j \in Inums : lock[j] = p => j = h
  BY <1>1, <1>2, <1>3 DEF Owns
<1>a. LockRule(p)
  BY <1>0, <1>6, <1>8, <1>9 DEF LockRule
<1> QED
  BY <1>a, LockRuleOK

\* The steps that take one.
LEMMA LockLocks ==
  ASSUME IInv, LockHeld, NEW p \in Procs,
         \/ OpenLock(p) \/ CreateFound(p) \/ UnlinkParent(p)
         \/ \E full \in BOOLEAN : CreateNew(p, full)
  PROVE  LockHeld'
<1>0. pr[p] \in Records
  BY DEF IInv, TypeOK
<1>1. \A i : Owns([Idle EXCEPT !.pc = "filealloc", !.at = i], i)
  BY DEF Owns, Idle
<1>2. \A i, s : Owns([Idle EXCEPT !.pc = "filealloc", !.at = i, !.todo = s], i)
  BY DEF Owns, Idle
<1>3. CASE OpenLock(p)
  <2>1. At(p, "open")
    BY <1>3 DEF OpenLock
  <2>2. \E r : /\ Go(p, r)
               /\ \/ UNCHANGED lock
                  \/ \E i : lock' = [lock EXCEPT ![i] = p] /\ Owns(r, i)
    BY <1>1, <1>3 DEF OpenLock, Panic
  <2> QED
    BY <2>1, <2>2, LocksOne
<1>4. CASE CreateFound(p)
  <2>1. At(p, "exists")
    BY <1>4 DEF CreateFound
  <2>2. \E r : /\ Go(p, r)
               /\ \/ UNCHANGED lock
                  \/ \E i : lock' = [lock EXCEPT ![i] = p] /\ Owns(r, i)
    BY <1>1, <1>4 DEF CreateFound, Panic, Finish
  <2> QED
    BY <2>1, <2>2, LocksOne
<1>5. CASE UnlinkParent(p)
  <2>1. At(p, "unlink")
    BY <1>5 DEF UnlinkParent
  <2>2. \A ip : Owns([pr[p] EXCEPT !.pc = "unlink2", !.ip = ip], pr[p].at)
    BY <1>0 DEF Owns, Records
  <2>3. \E r : /\ Go(p, r)
               /\ \/ UNCHANGED lock
                  \/ \E i : lock' = [lock EXCEPT ![i] = p] /\ Owns(r, i)
    BY <1>5, <2>2 DEF UnlinkParent, Finish
  <2> QED
    BY <2>1, <2>3, LocksOne
<1>6. CASE \E full \in BOOLEAN : CreateNew(p, full)
  <2>0. PICK full \in BOOLEAN : CreateNew(p, full)
    BY <1>6
  <2>1. At(p, pr[p].op) /\ pr[p].op \notin {"filealloc", "unlink2"}
    BY <2>0 DEF CreateNew
  <2>2. \E r : /\ Go(p, r)
               /\ \/ UNCHANGED lock
                  \/ \E i : lock' = [lock EXCEPT ![i] = p] /\ Owns(r, i)
    <3>1. CASE /\ lock' = [lock EXCEPT ![FirstOf(FreeInodes)] = p]
               /\ Go(p, [Idle EXCEPT !.pc = "filealloc",
                                     !.at = FirstOf(FreeInodes),
                                     !.todo = <<pr[p].at>>])
      BY <1>2, <3>1
    <3>2. CASE UNCHANGED lock /\ \E todo : Finish(p, todo)
      BY <3>2 DEF Finish
    <3> QED
      BY <2>0, <3>1, <3>2 DEF CreateNew
  <2> QED
    BY <2>1, <2>2, LocksOne
<1> QED
  BY <1>3, <1>4, <1>5, <1>6

\* The others.
LEMMA OtherLocks ==
  ASSUME IInv, LockHeld, NEW p \in Procs,
         \/ EndOp(p) \/ (\E c \in Calls : Begin(p, c)) \/ NamexEnd(p)
         \/ NamexElement(p) \/ Chdir(p) \/ ClosePut(p) \/ CreateExisting(p)
         \/ (\E fd \in Fds : Dup(p, fd) \/ Close(p, fd))
         \/ (\E full \in BOOLEAN : LinkNew(p, full)) \/ LinkOld(p)
         \/ LinkBad(p)
  PROVE  LockHeld'
<1>1. /\ UNCHANGED lock
      /\ \E pc : At(p, pc) /\ pc \notin {"filealloc", "unlink2"}
      /\ UNCHANGED pr \/ \E r : Go(p, r)
  <2>1. CASE EndOp(p)
    <3>1. Go(p, Idle) /\ UNCHANGED lock /\ At(p, "end")
      BY <2>1 DEF EndOp, Go
    <3> QED
      BY <3>1
  <2>2. CASE \E c \in Calls : Begin(p, c)
    <3>0. PICK c \in Calls : Begin(p, c)
      BY <2>2
    <3>1. /\ UNCHANGED lock /\ At(p, "idle")
          /\ Go(p, [pr[p] EXCEPT !.pc = "namex", !.op = c.op, !.new = c.new,
                                 !.at = Start(p, c.path),
                                 !.rest = Elements(c.path)])
      BY <3>0 DEF Begin
    <3> QED
      BY <3>1
  <2>3. CASE NamexEnd(p)
    BY <2>3 DEF NamexEnd, Fail, Finish
  <2>4. CASE NamexElement(p)
    BY <2>4 DEF NamexElement, Fail, Finish, Panic
  <2>5. CASE Chdir(p)
    BY <2>5 DEF Chdir, Finish, Panic
  <2>6. CASE ClosePut(p)
    BY <2>6 DEF ClosePut, Finish
  <2>7. CASE CreateExisting(p)
    <3>1. At(p, pr[p].op) /\ pr[p].op \notin {"filealloc", "unlink2"}
      BY <2>7 DEF CreateExisting
    <3> QED
      BY <2>7, <3>1 DEF CreateExisting, Finish
  <2>8. CASE \E fd \in Fds : Dup(p, fd) \/ Close(p, fd)
    <3>1. PICK fd \in Fds : Dup(p, fd) \/ Close(p, fd)
      BY <2>8
    <3>2. UNCHANGED lock /\ At(p, "idle")
      BY <3>1 DEF Dup, Close
    <3>3. UNCHANGED pr \/ \E r : Go(p, r)
      BY <3>1 DEF Dup, Close
    <3> QED
      BY <3>2, <3>3
  <2>9. CASE \E full \in BOOLEAN : LinkNew(p, full)
    BY <2>9 DEF LinkNew, Finish, Panic, Fail
  <2>a. CASE LinkOld(p)
    BY <2>a DEF LinkOld, Finish, Panic
  <2>b. CASE LinkBad(p)
    BY <2>b DEF LinkBad, Finish, Panic
  <2> QED
    BY <2>1, <2>2, <2>3, <2>4, <2>5, <2>6, <2>7, <2>8, <2>9, <2>a, <2>b
<1>2. CASE UNCHANGED pr
  BY <1>1, <1>2 DEF LockHeld
<1>3. CASE \E r : Go(p, r)
  BY <1>1, <1>3, LocksOne
<1> QED
  BY <1>1, <1>2, <1>3
-----------------------------------------------------------------------------
\* The start of the machine.

\* Memory after a start, with a sound disk.
BootState ==
  /\ disk \in Disks /\ saved \in Disks /\ DiskOK(disk) /\ DiskOK(saved)
  /\ inode = Boot.inode /\ lock = Boot.lock
  /\ file = Boot.file /\ ofile = Boot.ofile /\ cwd = Boot.cwd
  /\ pr = Boot.pr /\ booting = TRUE

BootMemory ==
    /\ \A i \in Inums : /\ inode[i] \in Entries
                        /\ ~inode[i].valid /\ lock[i] = NoProc
                        /\ i # ROOTINO => inode[i] = Unused
    /\ inode[ROOTINO].ref = Cardinality(Procs)
    /\ Cardinality(Procs) = 0 => inode[ROOTINO] = Unused
    /\ file = [f \in Files |-> Closed]
    /\ ofile = [p \in Procs |-> [d \in Fds |-> 0]]
    /\ cwd = [p \in Procs |-> ROOTINO]
    /\ pr = [p \in Procs |-> Idle]
    /\ ROOTINO \in Inums

\* The tables after a start, place by place.
LEMMA BootMemoryIs == BootState => BootMemory
<1> SUFFICES ASSUME BootState PROVE BootMemory
  OBVIOUS
<1>1. ROOTINO \in Inums
  BY FileSysAssumption DEF ROOTINO, Inums
<1>2. Cardinality(Procs) \in Nat
  BY FS_CardinalityType, FileSysAssumption
<1>3. Unused \in Entries /\ ~Unused.valid /\ Unused.ref = 0
  BY DEF Unused, Entries, Types
<1>4. PICK n \in Nat : n = Cardinality(Procs)
  BY <1>2
<1>5. PICK u : u = [Unused EXCEPT !.ref = n]
  OBVIOUS
<1>6. u \in Entries /\ ~u.valid /\ u.ref = n /\ (n = 0 => u = Unused)
  BY <1>5 DEF Unused, Entries, Types
<1>7. inode = [i \in Inums |-> IF i = ROOTINO THEN u ELSE Unused]
  BY <1>4, <1>5 DEF BootState, Boot
<1>8. lock = [i \in Inums |-> NoProc]
  BY DEF BootState, Boot
<1>9. /\ file = [f \in Files |-> Closed]
      /\ ofile = [p \in Procs |-> [d \in Fds |-> 0]]
      /\ cwd = [p \in Procs |-> ROOTINO]
      /\ pr = [p \in Procs |-> Idle]
  BY DEF BootState, Boot
<1> QED
  BY <1>1, <1>3, <1>4, <1>6, <1>7, <1>8, <1>9 DEF BootMemory

\* After a start only the processes' current directories are held.
LEMMA BootHolders ==
  BootState => \A i \in Inums : inode[i].ref = Holders(i)
<1> SUFFICES ASSUME BootState, NEW i \in Inums
             PROVE  inode[i].ref = Holders(i)
  OBVIOUS
<1>1. /\ \A f \in Files : file[f].ip = 0
      /\ \A p \in Procs : cwd[p] = ROOTINO /\ pr[p] = Idle
      /\ ROOTINO \in Inums
  BY BootMemoryIs DEF Closed, BootMemory
<1>2. /\ Idle.at = 0 /\ Idle.ip = 0 /\ Todo(Idle) = 0 /\ Todo2(Idle) = 0
      /\ i # 0
  BY DEF Idle, Todo, Todo2, Inums
<1>3. \A p \in Procs :
        /\ Pointer[<<"cwd", p>>] = ROOTINO /\ Pointer[<<"at", p>>] = 0
        /\ Pointer[<<"ip", p>>] = 0 /\ Pointer[<<"todo", p>>] = 0
        /\ Pointer[<<"todo2", p>>] = 0
  BY <1>1, <1>2, PointerIs
<1>4. \A f \in Files : Pointer[<<"file", f>>] = 0
  BY <1>1, PointerIs
<1> DEFINE H == {x \in Pointers : Pointer[x] = i}
<1>5. CASE i = ROOTINO
  <2>1. H = {"cwd"} \X Procs
    <3>1. ASSUME NEW x \in H PROVE x \in {"cwd"} \X Procs
      <4>1. x \in Pointers /\ Pointer[x] # 0
        BY <1>2
      <4> HIDE DEF H
      <4>2. ~\E f \in Files : x = <<"file", f>>
        BY <1>4, <4>1
      <4>3. PICK p \in Procs, k \in {"cwd", "at", "ip", "todo", "todo2"} :
              x = <<k, p>>
        BY <4>1, <4>2, PointersAre
      <4>4. k = "cwd"
        BY <1>3, <4>1, <4>3
      <4> QED
        BY <4>3, <4>4
    <3>2. ASSUME NEW p \in Procs PROVE <<"cwd", p>> \in H
      BY <1>3, <1>5 DEF Pointers
    <3> QED
      BY <3>1, <3>2
  <2>2. Cardinality({"cwd"} \X Procs) = 1 * Cardinality(Procs)
    <3>1. IsFiniteSet({"cwd"}) /\ Cardinality({"cwd"}) = 1
      BY FS_Singleton
    <3> QED
      BY <3>1, FS_Product, FileSysAssumption
  <2>3. inode[i].ref = Cardinality(Procs) /\ Cardinality(Procs) \in Nat
    BY <1>5, BootMemoryIs, FS_CardinalityType, FileSysAssumption DEF BootMemory
  <2>4. Cardinality(H) = inode[i].ref
    <3> HIDE DEF H
    <3> QED
      BY <2>1, <2>2, <2>3
  <2> QED
    BY <2>4 DEF Holders
<1>6. CASE i # ROOTINO
  <2>1. H = {}
    <3> SUFFICES ASSUME NEW x \in H PROVE FALSE
      OBVIOUS
    <3>1. x \in Pointers /\ Pointer[x] = i
      OBVIOUS
    <3> HIDE DEF H
    <3> QED
      BY <1>2, <1>3, <1>4, <1>6, <3>1, PointersAre
  <2>2. inode[i].ref = 0
    BY <1>6, BootMemoryIs DEF Unused, BootMemory
  <2> QED
    BY <2>1, <2>2, FS_EmptySet DEF Holders
<1> QED
  BY <1>5, <1>6

\* A start with a sound disk satisfies the invariant.
LEMMA BootOK == BootState => IInv /\ LockHeld
<1> SUFFICES ASSUME BootState PROVE IInv /\ LockHeld
  OBVIOUS
<1>1. TypeOK
  <2>1. disk \in Disks /\ saved \in Disks /\ booting \in BOOLEAN
    BY DEF BootState
  <2>2. inode \in [Inums -> Entries] /\ lock \in [Inums -> Procs \cup {NoProc}]
    <3>1. inode = [i \in Inums |-> inode[i]] /\ lock = [i \in Inums |-> lock[i]]
      BY DEF BootState, Boot
    <3> QED
      BY <3>1, BootMemoryIs DEF BootMemory
  <2>3. file \in [Files -> [ref : Nat, ip : Numbers]]
    BY BootMemoryIs, FileSysAssumption DEF Closed, Numbers, BootMemory
  <2>4. ofile \in [Procs -> [Fds -> 0 .. NFILE]]
    BY BootMemoryIs, FileSysAssumption DEF BootMemory
  <2>5. cwd \in [Procs -> Inums] /\ pr \in [Procs -> Records]
    BY BootMemoryIs, IdleIs DEF BootMemory
  <2> QED
    BY <2>1, <2>2, <2>3, <2>4, <2>5 DEF TypeOK
<1>2. Shapes
  BY BootMemoryIs, IdleIs DEF Shapes, BootMemory
<1>3. \A p \in Procs : pr[p] = Idle
  BY BootMemoryIs DEF BootMemory
<1>4. Counted
  <2> SUFFICES ASSUME NEW i \in Inums
               PROVE  disk.nlink[i] >= Links(disk, i) + Cardinality(Pending(i))
    BY DEF Counted
  <2>1. Pending(i) = {}
    BY <1>3 DEF Pending, Counts, Idle, Inums
  <2>2. Cardinality(Pending(i)) = 0
    BY <2>1, FS_EmptySet
  <2>3. disk.nlink[i] >= Links(disk, i) /\ Links(disk, i) \in Nat
    BY LinksType DEF BootState, DiskOK
  <2> QED
    BY <2>2, <2>3
<1>5. Refs
  BY BootHolders DEF Refs
<1>6. Table
  <2> SUFFICES ASSUME NEW i \in Inums PROVE TableAt(i)
    BY DEF Table
  <2>1. ~inode[i].valid /\ (inode[i].ref = 0 => inode[i] = Unused)
    BY BootMemoryIs DEF BootMemory
  <2>2. inode[i].ref > 0 => disk.type[i] # "free"
    <3>1. i # ROOTINO => inode[i].ref = 0
      BY BootMemoryIs DEF Unused, BootMemory
    <3>2. disk.type[ROOTINO] # "free"
      BY DEF BootState, DiskOK
    <3> QED
      BY <3>1, <3>2
  <2> QED
    BY <2>1, <2>2 DEF TableAt
<1>7. FileTable
  <2> SUFFICES ASSUME NEW f \in Files
               PROVE  /\ file[f].ref = Cardinality(Descriptors(f))
                      /\ file[f].ref = 0 <=> file[f].ip = 0
    BY DEF FileTable
  <2>1. file[f].ref = 0 /\ file[f].ip = 0
    BY BootMemoryIs DEF Closed, BootMemory
  <2>2. Descriptors(f) = {}
    BY BootMemoryIs DEF Descriptors, Files, BootMemory
  <2> QED
    BY <2>1, <2>2, FS_EmptySet
<1>8. Locked /\ Dirs /\ Freeing
  BY <1>3 DEF Locked, LockedBy, Dirs, DirsOf, Freeing, FreeingBy, Idle, Counts
<1>9. Known /\ Booting
  BY DEF Known, Booting, BootState
<1>10. LockHeld
  BY BootMemoryIs DEF LockHeld, BootMemory
<1> QED
  BY <1>1, <1>2, <1>4, <1>5, <1>6, <1>7, <1>8, <1>9, <1>10 DEF IInv, BootState

\* The same of the next state.
LEMMA BootNext == BootState' => IInv' /\ LockHeld'
  BY BootOK, PTL

\* A numbering of the files of the image.
Numbering(F, s) ==
  /\ s \in [1 .. Cardinality(F) -> F]
  /\ \A i, j \in DOMAIN s : s[i] = s[j] => i = j

\* Such a numbering exists, and names every file.
LEMMA NumberingIs ==
  ASSUME NEW F, IsFiniteSet(F)
  PROVE  /\ Cardinality(F) \in Nat
         /\ \E s : Numbering(F, s)
         /\ \A s : Numbering(F, s) =>
              \A f \in F : \E k \in 1 .. Cardinality(F) : s[k] = f
<1> DEFINE n == Cardinality(F)
<1>1. n \in Nat /\ ExistsBijection(1 .. n, F)
  BY FS_CardinalityType
<1>2. PICK s \in Bijection(1 .. n, F) : TRUE
  BY <1>1 DEF ExistsBijection
<1>3. Numbering(F, s)
  BY <1>2 DEF Bijection, Injection, IsInjective, Numbering
<1>4. ASSUME NEW t, Numbering(F, t), NEW f \in F
      PROVE  \E k \in 1 .. n : t[k] = f
  <2>1. t \in Injection(1 .. n, F)
    BY <1>4 DEF Injection, IsInjective, Numbering
  <2>2. SUFFICES ASSUME \A k \in 1 .. n : t[k] # f PROVE FALSE
    OBVIOUS
  <2>3. t \in Injection(1 .. n, F \ {f})
    BY <1>4, <2>1, <2>2 DEF Injection, IsInjective, Numbering
  <2>4. IsFiniteSet(F \ {f}) /\ Cardinality(F \ {f}) = n - 1
    BY FS_RemoveElement
  <2>5. Cardinality(1 .. n) = n
    BY <1>1, FS_Interval
  <2>6. Cardinality(1 .. n) <= Cardinality(F \ {f})
    BY <2>3, <2>4, FS_Injection
  <2> HIDE DEF n
  <2> QED
    BY <1>1, <2>4, <2>5, <2>6
<1> QED
  BY <1>1, <1>3, <1>4

\* What mkfs writes, in other words.
Image(d, F, m) ==
  /\ d.type = [i \in Inums |-> IF i = ROOTINO THEN "dir"
                               ELSE IF i <= 1 + Cardinality(F) THEN "file"
                               ELSE "free"]
  /\ d.nlink = [i \in Inums |-> IF i <= 1 + Cardinality(F) THEN 1 ELSE 0]
  /\ d.dir = [i \in Inums |-> IF i = ROOTINO THEN m ELSE Empty]
  /\ d.up = [i \in Inums |-> IF i = ROOTINO THEN ROOTINO ELSE 0]
  /\ m \in [Names -> 0 .. (1 + Cardinality(F))]
  /\ \A x \in Names : m[x] # 1
  /\ \A x, y \in Names : m[x] # 0 /\ m[x] = m[y] => x = y

\* mkfs writes an image of this form.
LEMMA MkfsIs ==
  ASSUME NEW F \in SUBSET Names
  PROVE  /\ Cardinality(F) \in Nat
         /\ \E m : Image(MkfsImage(F), F, m)
<1>1. IsFiniteSet(F)
  BY FS_Subset, FileSysAssumption
<1>2. PICK n \in Nat : n = Cardinality(F)
  BY <1>1, NumberingIs
<1>3. PICK s : /\ Numbering(F, s)
               /\ s = CHOOSE t \in [1 .. Cardinality(F) -> F] :
                        \A i, j \in DOMAIN t : t[i] = t[j] => i = j
  BY <1>1, NumberingIs DEF Numbering
<1>4. \A f \in F : \E k \in 1 .. n : s[k] = f
  <2>1. \A t : Numbering(F, t) =>
          \A f \in F : \E k \in 1 .. Cardinality(F) : t[k] = f
    BY <1>1, NumberingIs
  <2> QED
    BY <1>2, <1>3, <2>1
<1>5. s \in [1 .. n -> F] /\ \A i, j \in 1 .. n : s[i] = s[j] => i = j
  BY <1>2, <1>3 DEF Numbering
<1> DEFINE c(x) == CHOOSE k \in DOMAIN s : s[k] = x
           m == [x \in Names |-> IF x \in F THEN 1 + c(x) ELSE 0]
<1>6. \A x \in F : c(x) \in 1 .. n /\ s[c(x)] = x
  BY <1>4, <1>5
<1>7. MkfsImage(F) =
      [type |-> [i \in Inums |-> IF i = ROOTINO THEN "dir"
                                 ELSE IF i <= 1 + Cardinality(F) THEN "file"
                                 ELSE "free"],
       nlink |-> [i \in Inums |-> IF i <= 1 + Cardinality(F) THEN 1 ELSE 0],
       dir |-> [i \in Inums |-> IF i = ROOTINO THEN m ELSE Empty],
       up |-> [i \in Inums |-> IF i = ROOTINO THEN ROOTINO ELSE 0]]
  BY <1>3 DEF MkfsImage
<1>8. /\ m \in [Names -> 0 .. (1 + Cardinality(F))]
      /\ \A x \in Names : m[x] # 1
      /\ \A x, y \in Names : m[x] # 0 /\ m[x] = m[y] => x = y
  <2> HIDE DEF c
  <2> QED
    BY <1>2, <1>6
<1>9. Image(MkfsImage(F), F, m)
  <2> HIDE DEF m
  <2> QED
    BY <1>7, <1>8 DEF Image
<1> QED
  BY <1>2, <1>9

\* The image of mkfs is sound.
LEMMA MkfsOK ==
  ASSUME NEW F \in SUBSET Names, Cardinality(F) < NINODES
  PROVE  MkfsImage(F) \in Disks /\ DiskOK(MkfsImage(F))
<1>1. PICK d : d = MkfsImage(F)
  OBVIOUS
<1>2. PICK m : Image(d, F, m)
  BY <1>1, MkfsIs
<1>3. PICK n \in Nat : n = Cardinality(F) /\ n < NINODES
  BY MkfsIs
<1>4. ROOTINO \in Inums /\ ROOTINO = 1
  BY FileSysAssumption DEF ROOTINO, Inums
<1>5. d = [type |-> d.type, nlink |-> d.nlink, dir |-> d.dir, up |-> d.up]
  BY <1>1 DEF MkfsImage
<1>6. d \in Disks
  <2>1. m \in [Names -> Numbers] /\ Empty \in [Names -> Numbers]
    BY <1>2, <1>3, FileSysAssumption DEF Image, Numbers, Empty
  <2>2. /\ d.type \in [Inums -> Types] /\ d.nlink \in [Inums -> Nat]
        /\ d.up \in [Inums -> Numbers]
    BY <1>2, <1>4, FileSysAssumption DEF Image, Types, Numbers, Inums
  <2>3. d.dir \in [Inums -> [Names -> Numbers]]
    BY <1>2, <2>1 DEF Image
  <2> QED
    BY <1>5, <2>2, <2>3 DEF Disks
<1>7. \A i \in Inums : /\ d.type[i] = "dir" <=> i = ROOTINO
                       /\ d.type[i] = "free" <=> i > 1 + n
                       /\ d.nlink[i] = IF i <= 1 + n THEN 1 ELSE 0
                       /\ d.up[i] = IF i = ROOTINO THEN ROOTINO ELSE 0
  BY <1>2, <1>3, <1>4 DEF Image, Inums
<1>8. d.dir[ROOTINO] = m
  BY <1>2, <1>4 DEF Image
<1>9. \A i \in Inums : \A x \in NamesOf(d, i) :
        x[1] = ROOTINO /\ x[2] \in Names /\ m[x[2]] = i /\ x = <<x[1], x[2]>>
  BY <1>7, <1>8 DEF NamesOf
<1>10. /\ m \in [Names -> 0 .. (1 + n)]
       /\ \A x \in Names : m[x] # 1
       /\ \A x, y \in Names : m[x] # 0 /\ m[x] = m[y] => x = y
  BY <1>2, <1>3 DEF Image
<1>11. NamesOf(d, ROOTINO) = {}
  BY <1>4, <1>9, <1>10
<1>12. \A i \in Inums : \A x, y \in NamesOf(d, i) : x = y
  BY <1>9, <1>10 DEF Inums
<1>13. \A i \in Inums : i > 1 + n => NamesOf(d, i) = {}
  <2> SUFFICES ASSUME NEW i \in Inums, i > 1 + n, NEW x \in NamesOf(d, i)
               PROVE  FALSE
    OBVIOUS
  <2>1. x[2] \in Names /\ m[x[2]] = i
    BY <1>9
  <2>2. m[x[2]] \in 0 .. (1 + n)
    BY <1>10, <2>1
  <2> QED
    BY <2>1, <2>2 DEF Inums
<1>14. \A i \in Inums : Subdirs(d, i) = IF i = ROOTINO THEN {ROOTINO} ELSE {}
  <2> TAKE i \in Inums
  <2>1. \A j \in Subdirs(d, i) : j = ROOTINO /\ i = ROOTINO
    BY <1>7 DEF Subdirs
  <2>2. ROOTINO \in Subdirs(d, ROOTINO)
    BY <1>3, <1>4, <1>7 DEF Subdirs
  <2> QED
    BY <2>1, <2>2
<1>15. Links(d, ROOTINO) = 1
  <2>1. Subdirs(d, ROOTINO) = {ROOTINO}
    BY <1>4, <1>14
  <2>2. Cardinality(Subdirs(d, ROOTINO)) = 1
    BY <2>1, FS_Singleton
  <2>3. Cardinality(NamesOf(d, ROOTINO)) = 0
    BY <1>11, FS_EmptySet
  <2> QED
    BY <2>2, <2>3 DEF Links
<1>16. \A i \in Inums \ {ROOTINO} :
         Links(d, i) <= 1 /\ (i > 1 + n => Links(d, i) = 0)
  <2> TAKE i \in Inums \ {ROOTINO}
  <2>1. Cardinality(Subdirs(d, i)) = 0
    BY <1>14, FS_EmptySet
  <2>2. CASE NamesOf(d, i) = {}
    BY <2>1, <2>2, FS_EmptySet DEF Links
  <2>3. CASE NamesOf(d, i) # {}
    <3>1. PICK x : NamesOf(d, i) = {x}
      BY <1>12, <2>3
    <3>2. Cardinality(NamesOf(d, i)) = 1
      BY <3>1, FS_Singleton
    <3>3. ~(i > 1 + n)
      BY <1>13, <2>3
    <3> QED
      BY <2>1, <3>2, <3>3 DEF Links
  <2> QED
    BY <2>2, <2>3
<1>17. \A i \in Inums : d.nlink[i] >= Links(d, i)
  <2> TAKE i \in Inums
  <2>1. Links(d, i) \in Nat /\ i \in Nat
    BY <1>6, LinksType DEF Inums
  <2> QED
    BY <1>3, <1>4, <1>7, <1>15, <1>16, <2>1
<1>18. DiskOK(d)
  <2>1. \A i \in Inums : d.type[i] = "free" => d.nlink[i] = 0
    BY <1>3, <1>7 DEF Inums
  <2>2. /\ d.type[ROOTINO] = "dir" /\ d.up[ROOTINO] = ROOTINO
        /\ d.nlink[ROOTINO] = 1
    BY <1>3, <1>4, <1>7
  <2>3. \A i \in Inums : d.type[i] = "dir" => i = ROOTINO
    BY <1>7
  <2> QED
    BY <1>4, <1>11, <1>15, <1>17, <2>1, <2>2, <2>3 DEF DiskOK
<1> QED
  BY <1>1, <1>6, <1>18

\* The first start.
LEMMA InitOK == Init => IInv /\ LockHeld
<1> SUFFICES ASSUME Init PROVE IInv /\ LockHeld
  OBVIOUS
<1>1. PICK F \in SUBSET Names : Cardinality(F) < NINODES /\ disk = MkfsImage(F)
  BY DEF Init
<1>2. BootState
  BY <1>1, MkfsOK DEF Init, BootState
<1> QED
  BY <1>2, BootOK

\* A crash at any point: what was committed is sound.
LEMMA CrashOK ==
  ASSUME IInv, Crash
  PROVE  IInv' /\ LockHeld'
<1>1. disk' = saved /\ saved' = saved /\ DiskOK(saved) /\ saved \in Disks
  BY DEF Crash, IInv, TypeOK
<1>2. DiskOK(disk') /\ DiskOK(saved')
  BY <1>1
<1>3. BootState'
  BY <1>1, <1>2 DEF Crash, BootState
<1> QED
  BY <1>3, BootNext

\* ireclaim() keeps the disk sound, and leaves no orphan behind.
LEMMA ReclaimOK ==
  ASSUME IInv, LockHeld, Reclaim
  PROVE  IInv' /\ LockHeld'
<1>1. /\ booting /\ UNCHANGED <<inode, lock, file, ofile, cwd, pr>>
      /\ Booting /\ disk \in Disks /\ saved \in Disks
      /\ DiskOK(disk) /\ DiskOK(saved)
  BY DEF Reclaim, IInv, TypeOK, files
<1>2. CASE Orphans(disk) = {}
  <2>1. booting' = FALSE /\ UNCHANGED <<disk, saved>>
    BY <1>2 DEF Reclaim
  <2>2. Orphans(disk') = {}
    BY <1>2, <2>1
  <2>3. Known' /\ Booting'
    BY <2>1, <2>2 DEF Known, Booting
  <2>4. TypeOK'
    BY <1>1, <2>1 DEF IInv, TypeOK
  <2>5. /\ Shapes' /\ DiskOK(disk') /\ DiskOK(saved')
        /\ Locked' /\ Dirs' /\ Freeing' /\ FileTable' /\ Table'
    <3>1. UNCHANGED <<disk, saved, inode, lock, file, ofile, cwd, pr>>
      BY <1>1, <2>1
    <3> QED
      BY ONLY IInv, <3>1 DEF IInv, Shapes, Locked, LockedBy, Dirs, DirsOf,
           Freeing, FreeingBy, FileTable, Descriptors, Table, TableAt
  <2>6. Counted' /\ Refs'
    BY <1>1, <2>1 DEF IInv, Counted, Pending, Counts, Refs, Holders, Pointer,
         Todo, Todo2
  <2>7. LockHeld'
    BY <1>1 DEF LockHeld, Owns
  <2> QED
    BY <2>3, <2>4, <2>5, <2>6, <2>7 DEF IInv
<1>3. CASE Orphans(disk) # {}
  <2>1. PICK i : i = FirstOf(Orphans(disk))
    OBVIOUS
  <2>2. i \in Orphans(disk)
    <3>1. Orphans(disk) \in SUBSET Nat
      BY DEF Orphans, Inums
    <3> QED
      BY <1>3, <2>1, <3>1, FirstIs
  <2>3. i \in Inums /\ disk.nlink[i] = 0
    BY <2>2 DEF Orphans
  <2>4. /\ disk' = [disk EXCEPT !.type[i] = "free", !.dir[i] = Empty,
                                !.up[i] = 0]
        /\ saved' = disk' /\ booting' = booting
    BY <1>3, <2>1 DEF Reclaim
  <2>5. PICK e : e = disk'
    OBVIOUS
  <2>6. e \in Disks
    <3>1. Empty \in [Names -> Numbers] /\ 0 \in Numbers /\ "free" \in Types
      BY FileSysAssumption DEF Empty, Numbers, Types
    <3> QED
      BY <1>1, <2>3, <2>4, <2>5, <3>1 DEF Disks
  <2>7. Cleared(disk, e, i)
    BY <1>1, <2>3, <2>4, <2>5 DEF Cleared, Disks
  <2>8. DiskOK(e)
    BY <1>1, <2>3, <2>6, <2>7, ClearedOK
  <2>9. DiskOK(disk') /\ DiskOK(saved') /\ disk' \in Disks /\ saved' \in Disks
    BY <2>4, <2>5, <2>6, <2>8
  <2>10. BootState'
    BY <1>1, <2>4, <2>9 DEF BootState, Booting
  <2> QED
    BY <2>10, BootNext
<1> QED
  BY <1>2, <1>3

\* Every step of a process keeps the invariant.
LEMMA StepLemma ==
  ASSUME IInv, LockHeld, NEW p \in Procs, Step(p)
  PROVE  IInv' /\ LockHeld'
<1>1. CASE Iput(p)
  BY <1>1, IputOK, IputLocks
<1>2. CASE IputTrunc(p)
  BY <1>2, IputTruncOK, IputLocks
<1>3. CASE IputDrop(p)
  BY <1>3, IputDropOK, IputLocks
<1>4. CASE Ifree(p)
  BY <1>4, IfreeOK, IputLocks
<1>5. CASE EndOp(p)
  BY <1>5, EndOpOK, OtherLocks
<1>6. ASSUME NEW c \in Calls, Begin(p, c) PROVE IInv' /\ LockHeld'
  BY <1>6, BeginOK, OtherLocks
<1>7. CASE NamexEnd(p)
  BY <1>7, NamexEndOK, OtherLocks
<1>8. CASE NamexElement(p)
  BY <1>8, NamexElementOK, OtherLocks
<1>9. CASE OpenLock(p)
  BY <1>9, OpenLockOK, LockLocks
<1>10. CASE OpenFile(p)
  <2>1. IInv'
    BY <1>10, OpenFileOK
  <2> QED
    BY <1>10, <2>1, UnlockLocks
<1>11. CASE Chdir(p)
  BY <1>11, ChdirOK, OtherLocks
<1>12. ASSUME NEW fd \in Fds, Dup(p, fd) PROVE IInv' /\ LockHeld'
  BY <1>12, DupOK, OtherLocks
<1>13. ASSUME NEW fd \in Fds, Close(p, fd) PROVE IInv' /\ LockHeld'
  BY <1>13, CloseOK, OtherLocks
<1>14. CASE ClosePut(p)
  BY <1>14, ClosePutOK, OtherLocks
<1>15. CASE CreateExisting(p)
  BY <1>15, CreateExistingOK, OtherLocks
<1>16. CASE CreateFound(p)
  BY <1>16, CreateFoundOK, LockLocks
<1>17. ASSUME NEW full \in BOOLEAN, CreateNew(p, full)
       PROVE  IInv' /\ LockHeld'
  BY <1>17, CreateNewOK, LockLocks
<1>18. ASSUME NEW full \in BOOLEAN, LinkNew(p, full)
       PROVE  IInv' /\ LockHeld'
  BY <1>18, LinkNewOK, OtherLocks
<1>19. CASE UnlinkParent(p)
  BY <1>19, UnlinkParentOK, LockLocks
<1>20. CASE UnlinkChild(p)
  <2>1. IInv'
    BY <1>20, UnlinkChildOK
  <2> QED
    BY <1>20, <2>1, UnlockLocks
<1>21. CASE LinkOld(p)
  BY <1>21, LinkOldOK, OtherLocks
<1>22. CASE LinkBad(p)
  BY <1>22, LinkBadOK, OtherLocks
<1> QED
  BY ONLY Step(p), <1>1, <1>2, <1>3, <1>4, <1>5, <1>6, <1>7, <1>8, <1>9,
     <1>10, <1>11, <1>12, <1>13, <1>14, <1>15, <1>16, <1>17, <1>18, <1>19,
     <1>20, <1>21, <1>22 DEF Step

\* So does a step that changes nothing.
LEMMA StutterOK ==
  ASSUME IInv, LockHeld, UNCHANGED vars
  PROVE  IInv' /\ LockHeld'
<1>1. UNCHANGED <<disk, saved, inode, lock, file, ofile, cwd, pr, booting>>
  BY DEF vars
<1>2. TypeOK' /\ Known' /\ Booting'
  BY <1>1 DEF IInv, TypeOK, Known, Booting, Noticed
<1>3. /\ Shapes' /\ DiskOK(disk') /\ DiskOK(saved')
      /\ Locked' /\ Dirs' /\ Freeing' /\ FileTable' /\ Table'
  BY <1>1 DEF IInv, Shapes, Locked, LockedBy, Dirs, DirsOf, Freeing,
       FreeingBy, FileTable, Descriptors, Table, TableAt
<1>4. Counted' /\ Refs'
  BY <1>1 DEF IInv, Counted, Pending, Counts, Refs, Holders, Pointer, Todo,
       Todo2
<1>5. LockHeld'
  BY <1>1 DEF LockHeld, Owns
<1> QED
  BY <1>2, <1>3, <1>4, <1>5 DEF IInv

(* The whole invariant holds of every reachable state, for any number of   *)
(* processes, names, inodes, files and descriptors.                        *)
LEMMA InvariantHolds == Spec => [](IInv /\ LockHeld)
<1>1. Init => IInv /\ LockHeld
  BY InitOK
<1>2. IInv /\ LockHeld /\ [Next]_vars => IInv' /\ LockHeld'
  <2> SUFFICES ASSUME IInv, LockHeld, [Next]_vars
               PROVE  IInv' /\ LockHeld'
    OBVIOUS
  <2>1. ASSUME NEW p \in Procs, Step(p) PROVE IInv' /\ LockHeld'
    BY <2>1, StepLemma
  <2>2. CASE Crash
    BY <2>2, CrashOK
  <2>3. CASE Reclaim
    BY <2>3, ReclaimOK
  <2>4. CASE UNCHANGED vars
    BY <2>4, StutterOK
  <2> QED
    BY <2>1, <2>2, <2>3, <2>4 DEF Next
<1> QED
  BY <1>1, <1>2, PTL DEF Spec

(* Type correctness: the inode table, the file table, the descriptors and  *)
(* the records of the calls keep their types over all calls and crashes.   *)
THEOREM TypeCorrect == Spec => []TypeOK
<1>1. IInv => TypeOK
  BY DEF IInv
<1> QED
  BY <1>1, InvariantHolds, PTL

(* No directory entry refers to a free inode, and no link count of         *)
(* kernel/fs.c falls below the entries of the inode, on the disk that the  *)
(* calls see or on the one that a crash leaves.                            *)
THEOREM NamesProved == Spec => []NamesSound
<1>1. IInv => NamesSound
  <2> SUFFICES ASSUME IInv, NEW d \in {disk, saved}, NEW i \in Inums
               PROVE  /\ d.nlink[i] >= Links(d, i)
                      /\ Links(d, i) > 0 => d.type[i] # "free"
    BY DEF NamesSound
  <2>1. DiskOK(d) /\ d \in Disks
    BY DEF IInv, TypeOK
  <2>2. Links(d, i) \in Nat /\ d.nlink[i] \in Nat
    BY <2>1, LinksType DEF Disks
  <2> QED
    BY <2>1, <2>2 DEF DiskOK
<1> QED
  BY <1>1, InvariantHolds, PTL

(* ilock() and sys_unlink() never panic, and ref of each entry of itable   *)
(* is the number of pointers to it, on every error path of the calls.      *)
THEOREM RefsProved == Spec => []RefsCounted
<1>1. IInv => RefsCounted
  BY DEF IInv, Shapes, Shape, Refs, RefsCounted
<1> QED
  BY <1>1, InvariantHolds, PTL

(* An inode without links that nobody holds is free once the calls are     *)
(* over: iput() has freed it, or ireclaim() after a crash.                 *)
THEOREM OrphansFreed == Spec => []NoOrphans
<1>1. IInv => NoOrphans
  <2> SUFFICES ASSUME IInv, ~booting, \A p \in Procs : pr[p].pc = "idle",
                      NEW i \in Inums, i \in Orphans(disk)
               PROVE  Holders(i) > 0
    BY DEF NoOrphans
  <2>1. \A p \in Procs : pr[p] = Idle
    BY DEF IInv, Shapes, Shape
  <2>2. inode[i].valid
    BY <2>1 DEF IInv, Known, Noticed, Idle
  <2>3. inode[i].ref # 0
    BY <2>2 DEF IInv, Table, TableAt, Unused
  <2>4. inode[i].ref = Holders(i)
    BY DEF IInv, Refs
  <2> QED
    BY <2>3, <2>4, HoldersType
<1> QED
  BY <1>1, InvariantHolds, PTL
-----------------------------------------------------------------------------
\* The blocks, the inodes and the records of the calls.
Values == Nat \cup Users
IoRecords ==
  [pc : {"idle", "write", "writei", "writen", "itrunc"},
   f : Opened \cup {0}, n : Nat, n1 : Nat, tot : Nat]
DataTypes ==
  /\ used \subseteq Blocks
  /\ data \in [Blocks -> [Words -> Values]]
  /\ size \in [Inos -> Nat] /\ len \in [Inos -> Nat]
  /\ addrs \in [Inos -> [0 .. NDIRECT -> 0 .. NBLOCKS]]
  /\ made \in BOOLEAN
  /\ ilk \in [Inos -> Users \cup {NoUser}]
  /\ off \in [Opened -> Nat]
  /\ io \in [Users -> IoRecords]
  /\ held \in [Inos -> [Bytes -> Values]]

\* A call between ilock() and iunlock() has the lock, and what it found under
\* the lock is still so.
Writing(p) ==
  /\ off[io[p].f] <= size[Ino(p)] /\ io[p].tot <= io[p].n1
  /\ off[io[p].f] + io[p].n1 <= MaxBytes
  /\ len[Ino(p)] = IF Here(p) > size[Ino(p)] THEN Here(p) ELSE size[Ino(p)]
InCallOf(p) ==
  /\ io[p].pc # "idle" => made /\ io[p].f \in Opened
  /\ io[p].pc \in {"writei", "writen", "itrunc"} => ilk[Ino(p)] = p
  /\ io[p].pc = "write" => io[p].n > 0
  /\ io[p].pc \in {"writei", "writen"} => Writing(p)
  /\ io[p].pc = "writei" => io[p].tot < io[p].n1
  /\ io[p].pc = "itrunc" =>
       /\ len[Ino(p)] = 0
       /\ io[p].tot > MAXFILE => addrs[Ino(p)][NDIRECT] = 0
InCall ==
  /\ \A p \in Users : InCallOf(p)
  /\ \A i \in Inos : ilk[i] = NoUser => len[i] = size[i]
  /\ \A i \in Inos : size[i] <= len[i] \/ \E p \in Users : Truncates(p, i)
  /\ ~made => \A i \in Inos : ilk[i] = NoUser

\* The block lists and the bitmap.
OwnsAt(i, q) == AddrOf(i, q) # 0 /\ ~IsFreed(i, q)
Listed == \A i \in Inos, q \in Slots : AddrOf(i, q) \in 0 .. NBLOCKS
Apart ==
  \A i, j \in Inos, q, r \in Slots :
    OwnsAt(i, q) /\ OwnsAt(j, r) /\ AddrOf(i, q) = AddrOf(j, r) => i = j /\ q = r
Marked ==
  /\ \A i \in Inos, q \in Slots : OwnsAt(i, q) => AddrOf(i, q) \in used
  /\ \A b \in used : \E i \in Inos, q \in Slots :
       OwnsAt(i, q) /\ AddrOf(i, q) = b
Lists == Listed /\ Apart /\ Marked

\* The bytes.  What mkfs has not written is still clear.
Covered ==
  \A i \in Inos, k \in Nat : k < len[i] => k < MaxBytes /\ BlockOf(i, k) # 0
Kept ==
  \A i \in Inos, k \in Nat :
    k < len[i] => data[BlockOf(i, k)][Wd(k)] = held[i][k]
Blank == \A i \in Inos, k \in Bytes : k >= len[i] => held[i][k] = 0
Clear ==
  ~made => \A i \in Inos, k \in Bytes :
    k >= len[i] /\ BlockOf(i, k) # 0 => data[BlockOf(i, k)][Wd(k)] = 0
Written == Covered /\ Kept /\ Blank /\ Clear

DataInv == DataTypes /\ InCall /\ Lists /\ Written
-----------------------------------------------------------------------------

LEMMA DataSizes ==
  /\ BSIZE \in Nat /\ BSIZE > 0 /\ NDIRECT \in Nat /\ NBLOCKS \in Nat
  /\ MAXFILE \in Nat /\ MAXFILE > NDIRECT /\ MAXFILE = NDIRECT + BSIZE
  /\ MaxBytes \in Nat /\ MaxWrite \in Nat /\ MaxWrite > 0
<1>1. /\ BSIZE \in Nat /\ BSIZE > 0 /\ NDIRECT \in Nat /\ NBLOCKS \in Nat
      /\ MAXOPBLOCKS \in Nat /\ MAXOPBLOCKS >= 6
  BY FileDataAssumption
<1>2. /\ MAXFILE \in Nat /\ MAXFILE > NDIRECT /\ MAXFILE = NDIRECT + BSIZE
  BY <1>1 DEF MAXFILE, NINDIRECT
<1>3. MaxBytes \in Nat
  BY <1>1, <1>2 DEF MaxBytes
<1>4. PICK a \in Nat : a > 0 /\ a = (MAXOPBLOCKS - 1 - 1 - 2) \div 2
  BY <1>1
<1>5. a * BSIZE \in Nat /\ a * BSIZE > 0
  BY <1>1, <1>4
<1> QED
  BY <1>1, <1>2, <1>3, <1>4, <1>5 DEF MaxWrite

\* The block and the word of a byte.
LEMMA DivPair ==
  ASSUME NEW K \in Nat \ {0}, NEW k \in Nat
  PROVE  /\ k \div K \in Nat /\ k % K \in 0 .. K - 1
         /\ k = Mul(K, k \div K) + (k % K)
<1>1. k \div K \in Nat /\ k % K \in Nat
  OBVIOUS
<1>2. PICK d \in Int, m \in Int : d = k \div K /\ m = k % K
  BY <1>1
<1>3. k = K * d + m /\ m \in 0 .. K - 1
  BY <1>2, DivMod
<1>4. k = Mul(K, d) + m
  BY <1>3 DEF Mul
<1>5. d \in Nat /\ d = k \div K /\ m = k % K
  BY <1>1, <1>2
<1> QED
  BY <1>3, <1>4, <1>5

LEMMA DivLess ==
  ASSUME NEW K \in Nat \ {0}, NEW a \in Nat, NEW b \in Nat, NEW m \in 0 .. K - 1,
         Mul(K, a) + m < Mul(K, b)
  PROVE  a < b
<1> SUFFICES ASSUME a >= b PROVE FALSE
  OBVIOUS
<1>1. PICK d \in Nat : a = b + d
  <2>1. a - b \in Nat /\ a = b + (a - b)
    OBVIOUS
  <2> QED
    BY <2>1
<1>2. Mul(K, a) = Mul(K, b) + Mul(K, d)
  BY <1>1, MulAdd
<1>3. Mul(K, d) \in Nat /\ Mul(K, b) \in Nat
  BY DEF Mul
<1>4. PICK x \in Nat, y \in Nat : x = Mul(K, b) /\ y = Mul(K, d)
  BY <1>3
<1>5. x + y + m < x
  BY <1>2, <1>4
<1> QED
  BY <1>5

LEMMA DivSame ==
  ASSUME NEW K \in Nat \ {0}, NEW a \in Nat, NEW b \in Nat,
         NEW m \in 0 .. K - 1, NEW r \in 0 .. K - 1,
         Mul(K, a) + m = Mul(K, b) + r
  PROVE  a = b /\ m = r
<1>1. PICK x \in Nat, y \in Nat : x = Mul(K, a) /\ y = Mul(K, b)
  <2>1. Mul(K, a) \in Nat /\ Mul(K, b) \in Nat
    BY DEF Mul
  <2> QED
    BY <2>1
<1>2. Mul(K, a + 1) = x + K /\ Mul(K, b + 1) = y + K
  <2>1. Mul(K, a + 1) = Mul(K, a) + Mul(K, 1)
    BY MulAdd
  <2>2. Mul(K, b + 1) = Mul(K, b) + Mul(K, 1)
    BY MulAdd
  <2>3. Mul(K, 1) = K
    BY MulOne
  <2> QED
    BY <1>1, <2>1, <2>2, <2>3
<1>3. x + m = y + r
  BY <1>1
<1>4. a < b + 1
  <2>1. Mul(K, a) + m < Mul(K, b + 1)
    BY <1>1, <1>2, <1>3
  <2>2. b + 1 \in Nat
    OBVIOUS
  <2> QED
    BY <2>1, <2>2, DivLess
<1>5. b < a + 1
  <2>1. Mul(K, b) + r < Mul(K, a + 1)
    BY <1>1, <1>2, <1>3
  <2>2. a + 1 \in Nat
    OBVIOUS
  <2> QED
    BY <2>1, <2>2, DivLess
<1>6. a = b
  BY <1>4, <1>5
<1> QED
  BY <1>1, <1>3, <1>6

LEMMA ByteAt ==
  ASSUME NEW k \in Nat
  PROVE  /\ Bn(k) \in Nat /\ Wd(k) \in Words /\ Wd(k) \in Nat /\ Wd(k) < BSIZE
         /\ k = Mul(BSIZE, Bn(k)) + Wd(k)
         /\ k < MaxBytes <=> Bn(k) < MAXFILE
<1>1. BSIZE \in Nat \ {0} /\ MAXFILE \in Nat
  BY DataSizes
<1>2. /\ Bn(k) \in Nat /\ Wd(k) \in 0 .. BSIZE - 1
      /\ k = Mul(BSIZE, Bn(k)) + Wd(k)
  BY <1>1, DivPair DEF Bn, Wd
<1>0. MaxBytes = Mul(BSIZE, MAXFILE)
  BY <1>1 DEF MaxBytes, Mul
<1>3. ASSUME k < MaxBytes PROVE Bn(k) < MAXFILE
  <2>2. Mul(BSIZE, Bn(k)) + Wd(k) < Mul(BSIZE, MAXFILE)
    BY <1>0, <1>2, <1>3
  <2> QED
    BY <1>1, <1>2, <2>2, DivLess
<1>4. ASSUME Bn(k) < MAXFILE PROVE k < MaxBytes
  <2>1. PICK a \in Nat, d \in Nat : a = Bn(k) /\ d = MAXFILE - Bn(k) - 1
    BY <1>1, <1>2, <1>4
  <2>2. PICK c \in Nat : c = 1 + d /\ MAXFILE = a + c
    BY <1>1, <2>1
  <2>3. /\ Mul(BSIZE, a + c) = Mul(BSIZE, a) + Mul(BSIZE, c)
        /\ Mul(BSIZE, 1 + d) = Mul(BSIZE, 1) + Mul(BSIZE, d)
    BY <1>1, MulAdd
  <2>4. Mul(BSIZE, 1) = BSIZE /\ Mul(BSIZE, d) \in Nat /\ Mul(BSIZE, a) \in Nat
    <3>1. Mul(BSIZE, 1) = BSIZE
      BY <1>1, MulOne
    <3>2. Mul(BSIZE, d) \in Nat /\ Mul(BSIZE, a) \in Nat
      BY <1>1 DEF Mul
    <3> QED
      BY <3>1, <3>2
  <2>5. PICK x \in Nat, y \in Nat : x = Mul(BSIZE, a) /\ y = Mul(BSIZE, d)
    BY <2>4
  <2>6. MaxBytes = x + (BSIZE + y)
    BY <1>0, <2>2, <2>3, <2>4, <2>5
  <2>7. k = x + Wd(k)
    BY <1>2, <2>1, <2>5
  <2> QED
    BY <1>1, <1>2, <2>6, <2>7
<1> QED
  BY <1>1, <1>2, <1>3, <1>4 DEF Words

\* Two bytes of one block are as far apart as their words.
LEMMA SameBlock ==
  ASSUME NEW k \in Nat, NEW o \in Nat, Bn(k) = Bn(o)
  PROVE  k - o = Wd(k) - Wd(o)
<1>1. PICK x \in Int : x = Mul(BSIZE, Bn(k))
  <2>1. Bn(k) \in Int /\ BSIZE \in Int
    BY ByteAt, DataSizes
  <2>2. Mul(BSIZE, Bn(k)) \in Int
    BY <2>1, MulType
  <2> QED
    BY <2>2
<1>2. k = x + Wd(k) /\ o = x + Wd(o) /\ Wd(k) \in Nat /\ Wd(o) \in Nat
  BY <1>1, ByteAt
<1> QED
  BY <1>2

LEMMA NextWords ==
  ASSUME NEW o \in Nat, NEW k \in Nat, o <= k, Wd(o) + (k - o) < BSIZE
  PROVE  Bn(k) = Bn(o) /\ Wd(k) = Wd(o) + (k - o)
<1>1. /\ BSIZE \in Nat \ {0} /\ Bn(o) \in Nat /\ Bn(k) \in Nat
      /\ Wd(k) \in 0 .. BSIZE - 1 /\ Wd(o) \in Nat
  BY ByteAt, DataSizes DEF Words
<1>2. PICK r \in 0 .. BSIZE - 1 : r = Wd(o) + (k - o)
  BY <1>1
<1>3. PICK x \in Int, y \in Int : /\ x = Mul(BSIZE, Bn(k))
                               /\ y = Mul(BSIZE, Bn(o))
  <2>1. Bn(k) \in Int /\ Bn(o) \in Int /\ BSIZE \in Int
    BY <1>1
  <2>2. Mul(BSIZE, Bn(k)) \in Int /\ Mul(BSIZE, Bn(o)) \in Int
    BY <2>1, MulType
  <2> QED
    BY <2>2
<1>4. k = x + Wd(k) /\ o = y + Wd(o)
  BY <1>3, ByteAt
<1>5. x + Wd(k) = y + r
  BY <1>1, <1>2, <1>4
<1>6. Mul(BSIZE, Bn(k)) + Wd(k) = Mul(BSIZE, Bn(o)) + r
  BY <1>3, <1>5
<1>7. Bn(k) = Bn(o) /\ Wd(k) = r
  BY <1>1, <1>2, <1>6, DivSame
<1> QED
  BY <1>2, <1>7

\* The entries of a block list.
LEMMA SlotIs ==
  /\ NDIRECT \in Slots /\ Slots \subseteq Nat
  /\ \A b \in 0 .. MAXFILE - 1 : Slot(b) \in Slots /\ Slot(b) # NDIRECT
  /\ \A b, c \in 0 .. MAXFILE - 1 : Slot(b) = Slot(c) => b = c
  /\ \A q \in Slots : q > NDIRECT => q - NDIRECT - 1 \in Words
  BY DataSizes DEF Slots, Slot, Words

Untouched(i) == \A p \in Users : ~Truncates(p, i)

\* Whoever truncates an inode has its lock, and the inode has no bytes left.
LEMMA NotTruncated ==
  ASSUME DataInv, NEW i \in Inos,
         \/ ilk[i] = NoUser \/ len[i] > 0
         \/ \E p \in Users : ilk[i] = p /\ io[p].pc # "itrunc"
  PROVE  Untouched(i)
<1>1. ASSUME NEW p \in Users, Truncates(p, i) PROVE FALSE
  <2>1. ilk[i] = p /\ len[i] = 0 /\ io[p].pc = "itrunc" /\ p # NoUser
    BY <1>1, FileDataAssumption DEF DataInv, InCall, InCallOf, Truncates
  <2> QED
    BY <2>1
<1> QED
  BY <1>1 DEF Untouched

LEMMA NothingFreed ==
  ASSUME NEW i \in Inos, Untouched(i)
  PROVE  \A q : ~IsFreed(i, q)
  BY DEF Untouched, IsFreed

\* The indirect block is owned, also while its inode is truncated.
LEMMA Indirect ==
  ASSUME DataInv, NEW i \in Inos, addrs[i][NDIRECT] # 0
  PROVE  /\ OwnsAt(i, NDIRECT) /\ AddrOf(i, NDIRECT) = addrs[i][NDIRECT]
         /\ addrs[i][NDIRECT] \in used /\ addrs[i][NDIRECT] \in Blocks
<1>1. NDIRECT \in Slots /\ NDIRECT \in Nat
  BY SlotIs, DataSizes
<1>2. AddrOf(i, NDIRECT) = addrs[i][NDIRECT] /\ ~IsFreed(i, NDIRECT)
  BY <1>1 DEF AddrOf, IsFreed
<1>3. OwnsAt(i, NDIRECT)
  BY <1>2 DEF OwnsAt
<1>4. addrs[i][NDIRECT] \in used
  BY <1>1, <1>2, <1>3 DEF DataInv, Lists, Marked
<1> QED
  BY <1>2, <1>3, <1>4 DEF DataInv, DataTypes

\* The block of a byte is no indirect block, and nobody else's.
LEMMA ByteOwned ==
  ASSUME DataInv, NEW i \in Inos, Untouched(i), NEW k \in Nat, k < MaxBytes,
         NEW q, q = Slot(Bn(k)), BlockOf(i, k) # 0
  PROVE  /\ q \in Slots /\ q # NDIRECT /\ OwnsAt(i, q)
         /\ AddrOf(i, q) = BlockOf(i, k)
         /\ BlockOf(i, k) \in used /\ BlockOf(i, k) \in Blocks
<1>1. Bn(k) \in 0 .. MAXFILE - 1
  BY ByteAt, DataSizes
<1>2. q \in Slots /\ q # NDIRECT
  BY <1>1, SlotIs
<1>3. AddrOf(i, q) = BlockOf(i, k) /\ OwnsAt(i, q)
  BY NothingFreed DEF BlockOf, OwnsAt
<1>4. BlockOf(i, k) \in used
  BY <1>2, <1>3 DEF DataInv, Lists, Marked
<1> QED
  BY <1>2, <1>3, <1>4 DEF DataInv, DataTypes

\* balloc() for entry s of inode i.
Allocates(i, s, b) ==
  /\ Balloc(i, s, b) /\ AddrOf(i, s) = 0 /\ Untouched(i)
  /\ s > NDIRECT => addrs[i][NDIRECT] # 0
  /\ UNCHANGED <<made, ilk, off, io, held, len>>

LEMMA AllocEntry ==
  ASSUME DataInv, NEW i \in Inos, NEW s \in Slots, NEW b, Allocates(i, s, b),
         NEW j \in Inos, NEW q \in Slots
  PROVE  AddrOf(j, q)' = IF j = i /\ q = s THEN b ELSE AddrOf(j, q)
<1>0. /\ b \in Blocks /\ b \notin used /\ NDIRECT \in Nat /\ NDIRECT \in Slots
      /\ s \in Nat /\ q \in Nat /\ b # 0
      /\ addrs \in [Inos -> [0 .. NDIRECT -> 0 .. NBLOCKS]]
      /\ data \in [Blocks -> [Words -> Values]]
  <2>1. b \in Blocks /\ b \notin used
    BY DEF Allocates, Balloc
  <2>2. /\ NDIRECT \in Nat /\ NDIRECT \in Slots /\ s \in Nat /\ q \in Nat
        /\ 0 \notin Blocks
    BY SlotIs, DataSizes DEF Blocks
  <2> QED
    BY <2>1, <2>2 DEF DataInv, DataTypes
<1>1. /\ addrs' = IF s <= NDIRECT THEN [addrs EXCEPT ![i][s] = b] ELSE addrs
      /\ \A c \in Blocks : data'[c] =
           IF c = b THEN Zero
           ELSE IF s > NDIRECT /\ c = addrs[i][NDIRECT]
             THEN [data[c] EXCEPT ![s - NDIRECT - 1] = b]
           ELSE data[c]
  BY DEF Allocates, Balloc
<1>2. CASE q <= NDIRECT
  <2>1. AddrOf(j, q)' = addrs'[j][q] /\ AddrOf(j, q) = addrs[j][q]
    BY <1>2 DEF AddrOf
  <2>2. addrs'[j][q] = IF j = i /\ q = s THEN b ELSE addrs[j][q]
    BY <1>0, <1>1, <1>2
  <2> QED
    BY <2>1, <2>2
<1>3. CASE q > NDIRECT
  <2>0. q - NDIRECT - 1 \in Words /\ ~(q <= NDIRECT)
    BY <1>0, <1>3, SlotIs
  <2>1. CASE j = i /\ s = NDIRECT
    <3>1. addrs[j][NDIRECT] = 0
      BY <1>0, <2>1 DEF Allocates, AddrOf
    <3>2. addrs'[j][NDIRECT] = b
      BY <1>0, <1>1, <2>1
    <3>3. data'[b][q - NDIRECT - 1] = 0
      BY <1>0, <1>1, <2>0 DEF Zero
    <3> QED
      BY <1>0, <1>3, <2>0, <2>1, <3>1, <3>2, <3>3 DEF AddrOf
  <2>2. CASE ~(j = i /\ s = NDIRECT)
    <3>1. addrs'[j][NDIRECT] = addrs[j][NDIRECT]
      BY <1>0, <1>1, <2>2
    <3>2. CASE addrs[j][NDIRECT] = 0
      <4>1. ~(j = i /\ q = s)
        BY <1>0, <1>3, <3>2 DEF Allocates
      <4> QED
        BY <2>0, <3>1, <3>2, <4>1 DEF AddrOf
    <3>3. CASE addrs[j][NDIRECT] # 0
      <4>1. PICK c \in Blocks : c = addrs[j][NDIRECT] /\ c \in used /\ c # b
        BY <1>0, <3>3, Indirect
      <4>2. /\ AddrOf(j, q)' = data'[c][q - NDIRECT - 1]
            /\ AddrOf(j, q) = data[c][q - NDIRECT - 1]
        BY <2>0, <3>1, <3>3, <4>1 DEF AddrOf
      <4>3. CASE s > NDIRECT /\ c = addrs[i][NDIRECT]
        <5>1. j = i
          <6>1. /\ OwnsAt(j, NDIRECT) /\ OwnsAt(i, NDIRECT)
                /\ AddrOf(j, NDIRECT) = AddrOf(i, NDIRECT)
            BY <3>3, <4>1, <4>3, Indirect
          <6> QED
            BY <1>0, <6>1 DEF DataInv, Lists, Apart
        <5>2. s - NDIRECT - 1 \in Words
          BY <1>0, <4>3, SlotIs
        <5>3. data'[c] = [data[c] EXCEPT ![s - NDIRECT - 1] = b]
          BY <1>1, <4>1, <4>3
        <5>4. data'[c][q - NDIRECT - 1] = IF q = s THEN b
                                          ELSE data[c][q - NDIRECT - 1]
          <6>1. PICK x \in Words, y \in Words : /\ x = s - NDIRECT - 1
                                                /\ y = q - NDIRECT - 1
            BY <2>0, <5>2
          <6>2. x = y <=> q = s
            BY <1>0, <6>1
          <6>3. data'[c] = [data[c] EXCEPT ![x] = b]
            BY <5>3, <6>1
          <6>4. data'[c][y] = IF x = y THEN b ELSE data[c][y]
            BY <1>0, <6>3
          <6> QED
            BY <6>1, <6>2, <6>4
        <5> QED
          BY <4>2, <5>1, <5>4
      <4>4. CASE ~(s > NDIRECT /\ c = addrs[i][NDIRECT])
        <5>1. data'[c] = data[c]
          BY <1>1, <4>1, <4>4
        <5>2. ~(j = i /\ q = s)
          BY <1>3, <4>1, <4>4
        <5> QED
          BY <4>2, <5>1, <5>2
      <4> QED
        BY <4>3, <4>4
    <3> QED
      BY <3>2, <3>3
  <2> QED
    BY <2>1, <2>2
<1> QED
  BY <1>0, <1>2, <1>3

LEMMA AllocLists ==
  ASSUME DataInv, NEW i \in Inos, NEW s \in Slots, NEW b, Allocates(i, s, b)
  PROVE  Lists'
<1>0. b \in Blocks /\ b \notin used /\ b # 0 /\ used' = used \cup {b}
  BY DEF Allocates, Balloc, Blocks
<1>1. \A j \in Inos, q \in Slots :
        AddrOf(j, q)' = IF j = i /\ q = s THEN b ELSE AddrOf(j, q)
  BY AllocEntry
<1>2. \A j \in Inos, q \in Slots : IsFreed(j, q)' <=> IsFreed(j, q)
  BY DEF Allocates, IsFreed, Truncates, Ino
<1>3. ~IsFreed(i, s) /\ ~OwnsAt(i, s)
  BY NothingFreed DEF Allocates, OwnsAt
<1>4. \A j \in Inos, q \in Slots :
        OwnsAt(j, q)' <=> OwnsAt(j, q) \/ (j = i /\ q = s)
  BY <1>0, <1>1, <1>2, <1>3 DEF OwnsAt
<1>5. Listed'
  BY <1>0, <1>1 DEF Listed, DataInv, Lists, Blocks
<1>6. \A j \in Inos, q \in Slots : OwnsAt(j, q) => AddrOf(j, q) # b
  BY <1>0 DEF DataInv, Lists, Marked
<1>7. Apart'
  <2> SUFFICES ASSUME NEW j \in Inos, NEW l \in Inos, NEW q \in Slots,
                      NEW r \in Slots, OwnsAt(j, q)', OwnsAt(l, r)',
                      AddrOf(j, q)' = AddrOf(l, r)'
               PROVE  j = l /\ q = r
    BY DEF Apart
  <2> QED
    BY <1>1, <1>4, <1>6 DEF DataInv, Lists, Apart
<1>8. Marked'
  <2>1. ASSUME NEW j \in Inos, NEW q \in Slots, OwnsAt(j, q)'
        PROVE  AddrOf(j, q)' \in used'
    BY <1>0, <1>1, <1>4, <2>1 DEF DataInv, Lists, Marked
  <2>2. ASSUME NEW c \in used'
        PROVE  \E j \in Inos, q \in Slots : OwnsAt(j, q)' /\ AddrOf(j, q)' = c
    <3>1. CASE c = b
      BY <1>1, <1>4, <3>1
    <3>2. CASE c # b
      <4>1. PICK j \in Inos, q \in Slots : OwnsAt(j, q) /\ AddrOf(j, q) = c
        BY <1>0, <3>2 DEF DataInv, Lists, Marked
      <4> QED
        BY <1>1, <1>3, <1>4, <4>1
    <3> QED
      BY <3>1, <3>2
  <2> QED
    BY <2>1, <2>2 DEF Marked
<1> QED
  BY <1>5, <1>7, <1>8 DEF Lists

LEMMA AllocTypes ==
  ASSUME DataInv, NEW i \in Inos, NEW s \in Slots, NEW b, Allocates(i, s, b)
  PROVE  DataTypes'
<1>0. /\ b \in Blocks /\ NDIRECT \in Nat /\ s \in Nat
      /\ used \subseteq Blocks /\ used' = used \cup {b}
      /\ addrs \in [Inos -> [0 .. NDIRECT -> 0 .. NBLOCKS]]
      /\ data \in [Blocks -> [Words -> Values]]
  <2>1. b \in Blocks /\ used' = used \cup {b}
    BY DEF Allocates, Balloc
  <2> QED
    BY <2>1, SlotIs, DataSizes DEF DataInv, DataTypes
<1>1. addrs' \in [Inos -> [0 .. NDIRECT -> 0 .. NBLOCKS]]
  <2>1. addrs' = IF s <= NDIRECT THEN [addrs EXCEPT ![i][s] = b] ELSE addrs
    BY DEF Allocates, Balloc
  <2>2. b \in 0 .. NBLOCKS
    BY <1>0, DataSizes DEF Blocks
  <2> QED
    BY <1>0, <2>1, <2>2
<1>2. data' \in [Blocks -> [Words -> Values]]
  <2>1. data' = [c \in Blocks |->
                   IF c = b THEN Zero
                   ELSE IF s > NDIRECT /\ c = addrs[i][NDIRECT]
                     THEN [data[c] EXCEPT ![s - NDIRECT - 1] = b]
                   ELSE data[c]]
    BY DEF Allocates, Balloc
  <2>2. b \in Values /\ Zero \in [Words -> Values]
    BY <1>0 DEF Blocks, Values, Zero
  <2>3. ASSUME NEW c \in Blocks PROVE data'[c] \in [Words -> Values]
    BY <1>0, <2>1, <2>2
  <2> QED
    BY <2>1, <2>3
<1>3. /\ size' = size /\ made' = made /\ ilk' = ilk /\ off' = off /\ io' = io
      /\ held' = held /\ len' = len
  BY DEF Allocates, Balloc
<1> QED
  BY <1>0, <1>1, <1>2, <1>3 DEF DataInv, DataTypes

LEMMA AllocWritten ==
  ASSUME DataInv, NEW i \in Inos, NEW s \in Slots, NEW b, Allocates(i, s, b)
  PROVE  Written'
<1>0. /\ held' = held /\ len' = len /\ made' = made /\ b \in Blocks /\ b # 0
      /\ b \notin used /\ len \in [Inos -> Nat]
      /\ \A c \in Blocks : data'[c] =
           IF c = b THEN Zero
           ELSE IF s > NDIRECT /\ c = addrs[i][NDIRECT]
             THEN [data[c] EXCEPT ![s - NDIRECT - 1] = b]
           ELSE data[c]
  <2>1. /\ b \in Blocks /\ b \notin used
        /\ \A c \in Blocks : data'[c] =
           IF c = b THEN Zero
           ELSE IF s > NDIRECT /\ c = addrs[i][NDIRECT]
             THEN [data[c] EXCEPT ![s - NDIRECT - 1] = b]
           ELSE data[c]
    BY DEF Allocates, Balloc
  <2>2. 0 \notin Blocks
    BY DataSizes DEF Blocks
  <2> QED
    BY <2>1, <2>2 DEF Allocates, DataInv, DataTypes
<1>1. \A j \in Inos, q \in Slots :
        AddrOf(j, q)' = IF j = i /\ q = s THEN b ELSE AddrOf(j, q)
  BY AllocEntry
<1>2. ASSUME NEW j \in Inos, NEW k \in Nat, k < MaxBytes, BlockOf(j, k) # 0,
             Untouched(j)
      PROVE  BlockOf(j, k)' = BlockOf(j, k)
             /\ data'[BlockOf(j, k)] = data[BlockOf(j, k)]
  <2>1. PICK q : q = Slot(Bn(k))
    OBVIOUS
  <2>2. /\ q \in Slots /\ q # NDIRECT /\ OwnsAt(j, q)
        /\ AddrOf(j, q) = BlockOf(j, k)
        /\ BlockOf(j, k) \in used /\ BlockOf(j, k) \in Blocks
    BY <1>2, <2>1, ByteOwned
  <2>3. BlockOf(j, k)' = BlockOf(j, k)
    <3>1. ~(j = i /\ q = s)
      BY <1>2, <2>2 DEF Allocates
    <3> QED
      BY <1>1, <2>1, <2>2, <3>1 DEF BlockOf
  <2>4. ASSUME s > NDIRECT PROVE BlockOf(j, k) # addrs[i][NDIRECT]
    <3>1. addrs[i][NDIRECT] # 0
      BY <2>4 DEF Allocates
    <3>2. OwnsAt(i, NDIRECT) /\ AddrOf(i, NDIRECT) = addrs[i][NDIRECT]
      BY <3>1, Indirect
    <3> QED
      BY <2>2, <3>2, SlotIs DEF DataInv, Lists, Apart
  <2> QED
    BY <1>0, <2>2, <2>3, <2>4
<1>3. ASSUME NEW j \in Inos, NEW k \in Nat, k < len[j]
      PROVE  /\ k < MaxBytes /\ BlockOf(j, k)' # 0
             /\ data'[BlockOf(j, k)'][Wd(k)] = held[j][k]
  <2>1. k < MaxBytes /\ BlockOf(j, k) # 0
    BY <1>3 DEF DataInv, Written, Covered
  <2>2. Untouched(j)
    <3>1. len[j] > 0
      BY <1>0, <1>3
    <3> QED
      BY <3>1, NotTruncated
  <2>3. data[BlockOf(j, k)][Wd(k)] = held[j][k]
    BY <1>3 DEF DataInv, Written, Kept
  <2> QED
    BY <1>2, <2>1, <2>2, <2>3
<1>4. Covered' /\ Kept' /\ Blank'
  <2>1. Covered'
    BY <1>0, <1>3 DEF Covered
  <2>2. Kept'
    BY <1>0, <1>3 DEF Kept, Wd
  <2>3. Blank'
    BY <1>0 DEF DataInv, Written, Blank
  <2> QED
    BY <2>1, <2>2, <2>3
<1>5. ASSUME ~made, NEW j \in Inos, NEW k \in Bytes, k >= len[j],
             BlockOf(j, k)' # 0
      PROVE  data'[BlockOf(j, k)'][Wd(k)] = 0
  <2>0. k \in Nat /\ k < MaxBytes
    BY DataSizes DEF Bytes
  <2>1. Untouched(j)
    <3>1. ilk[j] = NoUser
      BY <1>5 DEF DataInv, InCall
    <3> QED
      BY <3>1, NotTruncated
  <2>2. CASE BlockOf(j, k) # 0
    <3>1. data[BlockOf(j, k)][Wd(k)] = 0
      BY <1>5, <2>2 DEF DataInv, Written, Clear
    <3> QED
      BY <1>2, <2>0, <2>1, <2>2, <3>1
  <2>3. CASE BlockOf(j, k) = 0
    <3>1. Slot(Bn(k)) \in Slots
      BY <2>0, ByteAt, SlotIs, DataSizes
    <3>2. BlockOf(j, k)' = b
      BY <1>1, <1>5, <2>3, <3>1 DEF BlockOf
    <3>3. data'[b][Wd(k)] = 0
      BY <1>0, <2>0, ByteAt DEF Zero
    <3> QED
      BY <3>2, <3>3
  <2> QED
    BY <2>2, <2>3
<1>6. Clear'
  BY <1>0, <1>5 DEF Clear, Wd
<1> QED
  BY <1>4, <1>6 DEF Written

LEMMA AllocKept ==
  ASSUME DataInv, NEW i \in Inos, NEW s \in Slots, NEW b, Allocates(i, s, b)
  PROVE  DataInv'
<1>1. InCall'
  <2>1. /\ size' = size /\ made' = made /\ ilk' = ilk /\ off' = off
        /\ io' = io /\ len' = len
    BY DEF Allocates, Balloc
  <2>2. ASSUME NEW p \in Users PROVE InCallOf(p)'
    <3>1. ASSUME io[p].pc = "itrunc" PROVE addrs'[Ino(p)] = addrs[Ino(p)]
      <4>1. Ino(p) # i /\ Ino(p) \in Inos
        BY <3>1, FileDataAssumption
           DEF Allocates, Untouched, Truncates, Ino, DataInv, InCall, InCallOf
      <4> QED
        BY <4>1 DEF Allocates, Balloc, DataInv, DataTypes
    <3>2. InCallOf(p)
      BY DEF DataInv, InCall
    <3> QED
      BY <2>1, <3>1, <3>2 DEF InCallOf, Writing, Ino, Here
  <2> QED
    BY <2>1, <2>2 DEF DataInv, InCall, Truncates, Ino
<1> QED
  BY <1>1, AllocTypes, AllocLists, AllocWritten DEF DataInv

\* What bmap() needs next is a missing entry, and one it can fill.
LEMMA MissingIs ==
  ASSUME DataInv, NEW i \in Inos, NEW k \in Nat, k < MaxBytes,
         BlockOf(i, k) = 0, NEW s, s = Missing(i, Bn(k))
  PROVE  /\ s \in Slots /\ AddrOf(i, s) = 0
         /\ s > NDIRECT => addrs[i][NDIRECT] # 0
<1>1. Bn(k) \in 0 .. MAXFILE - 1 /\ NDIRECT \in Nat
  BY ByteAt, DataSizes
<1>2. CASE Bn(k) >= NDIRECT /\ addrs[i][NDIRECT] = 0
  <2>1. s = NDIRECT
    BY <1>2 DEF Missing
  <2>2. AddrOf(i, NDIRECT) = 0
    BY <1>1, <1>2 DEF AddrOf
  <2> QED
    BY <1>1, <2>1, <2>2, SlotIs
<1>3. CASE ~(Bn(k) >= NDIRECT /\ addrs[i][NDIRECT] = 0)
  <2>1. s = Slot(Bn(k))
    BY <1>3 DEF Missing
  <2>2. s \in Slots /\ AddrOf(i, s) = 0
    BY <1>1, <2>1, SlotIs DEF BlockOf
  <2>3. s > NDIRECT => Bn(k) >= NDIRECT
    BY <1>1, <2>1 DEF Slot
  <2> QED
    BY <1>3, <2>2, <2>3
<1> QED
  BY <1>2, <1>3

\* m words of the block of byte o of inode i are set to v.
Fills(i, o, m, v) ==
  /\ Untouched(i) /\ o \in Nat /\ o < MaxBytes /\ BlockOf(i, o) # 0
  /\ m \in Nat /\ Wd(o) + m <= BSIZE /\ v \in Values
  /\ Fill(BlockOf(i, o), Wd(o), m, v) /\ addrs' = addrs

LEMMA FillTypes ==
  ASSUME DataInv, NEW i \in Inos, NEW o, NEW m, NEW v, Fills(i, o, m, v)
  PROVE  /\ data' \in [Blocks -> [Words -> Values]]
         /\ BlockOf(i, o) \in Blocks /\ OwnsAt(i, Slot(Bn(o)))
         /\ Slot(Bn(o)) \in Slots /\ Slot(Bn(o)) # NDIRECT
         /\ AddrOf(i, Slot(Bn(o))) = BlockOf(i, o)
         /\ \A c \in Blocks : c # BlockOf(i, o) => data'[c] = data[c]
         /\ \A w \in Words : data'[BlockOf(i, o)][w] =
              IF w \in Wd(o) .. Wd(o) + m - 1 THEN v
              ELSE data[BlockOf(i, o)][w]
<1>1. /\ BlockOf(i, o) \in Blocks /\ OwnsAt(i, Slot(Bn(o)))
      /\ Slot(Bn(o)) \in Slots /\ Slot(Bn(o)) # NDIRECT
      /\ AddrOf(i, Slot(Bn(o))) = BlockOf(i, o)
  BY ByteOwned DEF Fills
<1>2. PICK b \in Blocks : b = BlockOf(i, o)
  BY <1>1
<1>3. data' = [data EXCEPT ![b] = [w \in Words |->
                IF w \in Wd(o) .. Wd(o) + m - 1 THEN v ELSE data[b][w]]]
  BY <1>2 DEF Fills, Fill
<1>4. data \in [Blocks -> [Words -> Values]] /\ v \in Values
  BY DEF DataInv, DataTypes, Fills
<1>5. PICK row \in [Words -> Values] :
        row = [w \in Words |-> IF w \in Wd(o) .. Wd(o) + m - 1 THEN v
                               ELSE data[b][w]]
  BY <1>4
<1>6. data' = [data EXCEPT ![b] = row]
  BY <1>3, <1>5
<1>7. /\ data' \in [Blocks -> [Words -> Values]] /\ data'[b] = row
      /\ \A c \in Blocks : c # b => data'[c] = data[c]
  BY <1>4, <1>6
<1>8. \A w \in Words : row[w] = IF w \in Wd(o) .. Wd(o) + m - 1 THEN v
                                ELSE data[b][w]
  BY <1>5
<1> QED
  BY <1>1, <1>2, <1>7, <1>8

LEMMA FillEntry ==
  ASSUME DataInv, NEW i \in Inos, NEW o, NEW m, NEW v, Fills(i, o, m, v),
         NEW j \in Inos, NEW q \in Slots
  PROVE  AddrOf(j, q)' = AddrOf(j, q)
<1>1. addrs' = addrs
  BY DEF Fills
<1>2. CASE q <= NDIRECT \/ addrs[j][NDIRECT] = 0
  BY <1>1, <1>2 DEF AddrOf
<1>3. CASE ~(q <= NDIRECT) /\ addrs[j][NDIRECT] # 0
  <2>1. /\ OwnsAt(j, NDIRECT) /\ AddrOf(j, NDIRECT) = addrs[j][NDIRECT]
        /\ addrs[j][NDIRECT] \in Blocks
    BY <1>3, Indirect
  <2>2. addrs[j][NDIRECT] # BlockOf(i, o)
    <3>1. PICK r \in Slots : /\ r # NDIRECT /\ OwnsAt(i, r)
                             /\ AddrOf(i, r) = BlockOf(i, o)
      BY FillTypes
    <3>2. NDIRECT \in Slots
      BY SlotIs
    <3> QED
      BY <2>1, <3>1, <3>2 DEF DataInv, Lists, Apart
  <2>3. data'[addrs[j][NDIRECT]] = data[addrs[j][NDIRECT]]
    BY <2>1, <2>2, FillTypes
  <2> QED
    BY <1>1, <1>3, <2>3 DEF AddrOf
<1> QED
  BY <1>2, <1>3

LEMMA FillByte ==
  ASSUME DataInv, NEW i \in Inos, NEW o, NEW m, NEW v, Fills(i, o, m, v),
         NEW j \in Inos, NEW k \in Nat, k < MaxBytes, BlockOf(j, k) # 0,
         Untouched(j)
  PROVE  /\ BlockOf(j, k)' = BlockOf(j, k)
         /\ data'[BlockOf(j, k)][Wd(k)] =
              IF j = i /\ k >= o /\ k < o + m THEN v
              ELSE data[BlockOf(j, k)][Wd(k)]
<1>0. /\ Wd(k) \in Words /\ Wd(k) \in Nat /\ Bn(k) \in 0 .. MAXFILE - 1
      /\ o \in Nat /\ m \in Nat /\ Wd(o) \in Nat /\ Bn(o) \in 0 .. MAXFILE - 1
      /\ BSIZE \in Nat /\ Wd(o) + m <= BSIZE
  BY ByteAt, DataSizes DEF Fills
<1>1. PICK q : q = Slot(Bn(k))
  OBVIOUS
<1>2. /\ q \in Slots /\ OwnsAt(j, q) /\ AddrOf(j, q) = BlockOf(j, k)
      /\ BlockOf(j, k) \in Blocks
  BY <1>1, ByteOwned
<1>3. BlockOf(j, k)' = BlockOf(j, k)
  BY <1>1, <1>2, FillEntry DEF BlockOf
<1>4. CASE j = i /\ Bn(k) = Bn(o)
  <2>1. BlockOf(j, k) = BlockOf(i, o)
    BY <1>4 DEF BlockOf
  <2>2. k - o = Wd(k) - Wd(o)
    BY <1>0, <1>4, SameBlock
  <2>3. Wd(k) \in Wd(o) .. Wd(o) + m - 1 <=> k >= o /\ k < o + m
    BY <1>0, <2>2
  <2>4. data'[BlockOf(i, o)][Wd(k)] =
          IF Wd(k) \in Wd(o) .. Wd(o) + m - 1 THEN v
          ELSE data[BlockOf(i, o)][Wd(k)]
    BY <1>0, FillTypes
  <2> QED
    BY <1>3, <1>4, <2>1, <2>3, <2>4
<1>5. CASE ~(j = i /\ Bn(k) = Bn(o))
  <2>1. BlockOf(j, k) # BlockOf(i, o)
    <3>1. Slot(Bn(k)) = Slot(Bn(o)) => Bn(k) = Bn(o)
      BY <1>0, SlotIs
    <3> QED
      BY <1>1, <1>2, <1>5, <3>1, FillTypes DEF DataInv, Lists, Apart
  <2>2. data'[BlockOf(j, k)] = data[BlockOf(j, k)]
    BY <1>2, <2>1, FillTypes
  <2>3. ~(j = i /\ k >= o /\ k < o + m)
    <3> SUFFICES ASSUME j = i, k >= o, k < o + m PROVE FALSE
      OBVIOUS
    <3>1. Wd(o) + (k - o) < BSIZE /\ o <= k
      BY <1>0
    <3>2. Bn(k) = Bn(o)
      BY <1>0, <3>1, NextWords
    <3> QED
      BY <1>5, <3>2
  <2> QED
    BY <1>3, <2>2, <2>3
<1> QED
  BY <1>4, <1>5

\* A step that leaves the block lists alone.
LEMMA ListsKept ==
  ASSUME Lists, used' = used,
         \A j \in Inos, q \in Slots : AddrOf(j, q)' = AddrOf(j, q),
         \A j \in Inos, q \in Slots : IsFreed(j, q)' <=> IsFreed(j, q)
  PROVE  Lists'
<1>1. \A j \in Inos, q \in Slots : OwnsAt(j, q)' <=> OwnsAt(j, q)
  BY DEF OwnsAt
<1>2. Listed' /\ Marked'
  BY <1>1 DEF Lists, Listed, Marked
<1>3. Apart'
  BY <1>1 DEF Lists, Apart
<1> QED
  BY <1>2, <1>3 DEF Lists

\* A step of p, which works on inode i, leaves the other calls alone.
LEMMA OthersInCall ==
  ASSUME DataInv, NEW p \in Users, NEW i \in Inos, ilk[i] \in {p, NoUser},
         \A x \in Users : x # p => io'[x] = io[x],
         \A j \in Inos : j # i => /\ size'[j] = size[j] /\ len'[j] = len[j]
                                  /\ ilk'[j] = ilk[j] /\ addrs'[j] = addrs[j],
         \A f \in Opened : FileOf[f] # i => off'[f] = off[f],
         made' = made, made, InCallOf(p)',
         ilk'[i] = NoUser => len'[i] = size'[i],
         io[p].pc = "itrunc" => Ino(p) = i,
         size'[i] <= len'[i] \/ Truncates(p, i)'
  PROVE  InCall'
<1>1. ASSUME NEW x \in Users, x # p PROVE InCallOf(x)'
  <2>1. InCallOf(x) /\ io'[x] = io[x] /\ Ino(x)' = Ino(x)
    BY <1>1 DEF DataInv, InCall, Ino
  <2>2. CASE io[x].pc \in {"writei", "writen", "itrunc"}
    <3>1. io[x].f \in Opened /\ Ino(x) \in Inos /\ ilk[Ino(x)] = x
      BY <2>1, <2>2, FileDataAssumption DEF InCallOf, Ino
    <3>2. Ino(x) # i /\ FileOf[io[x].f] # i
      BY <1>1, <3>1, FileDataAssumption DEF Ino
    <3>3. /\ size'[Ino(x)] = size[Ino(x)] /\ len'[Ino(x)] = len[Ino(x)]
          /\ ilk'[Ino(x)] = x /\ addrs'[Ino(x)] = addrs[Ino(x)]
          /\ off'[io[x].f] = off[io[x].f]
      BY <3>1, <3>2
    <3> QED
      BY <2>1, <3>1, <3>3 DEF InCallOf, Writing, Here
  <2>3. CASE io[x].pc \notin {"writei", "writen", "itrunc"}
    BY <2>1, <2>3 DEF InCallOf
  <2> QED
    BY <2>2, <2>3
<1>2. ASSUME NEW j \in Inos, ilk'[j] = NoUser PROVE len'[j] = size'[j]
  BY <1>2 DEF DataInv, InCall
<1>3. ASSUME NEW j \in Inos
      PROVE  size'[j] <= len'[j] \/ \E x \in Users : Truncates(x, j)'
  <2>1. CASE j = i
    BY <2>1
  <2>2. CASE j # i
    <3>1. CASE size[j] <= len[j]
      BY <2>2, <3>1
    <3>2. CASE ~(size[j] <= len[j])
      <4>1. PICK x \in Users : Truncates(x, j)
        BY <3>2 DEF DataInv, InCall
      <4>2. x # p
        BY <2>2, <4>1 DEF Truncates
      <4>3. Truncates(x, j)'
        BY <4>1, <4>2 DEF Truncates, Ino
      <4> QED
        BY <4>3
    <3> QED
      BY <3>1, <3>2
  <2> QED
    BY <2>1, <2>2
<1> QED
  BY <1>1, <1>2, <1>3 DEF InCall

\* The record of p changes, and neither the old nor the new one truncates.
LEMMA FreedKept ==
  ASSUME NEW p \in Users, \A x \in Users : x # p => io'[x] = io[x],
         io[p].pc # "itrunc", io'[p].pc # "itrunc"
  PROVE  \A j, q : IsFreed(j, q)' <=> IsFreed(j, q)
<1>1. \A x \in Users : \A j : Truncates(x, j)' <=> Truncates(x, j)
  BY DEF Truncates, Ino
<1>2. \A x \in Users : \A j : Truncates(x, j) => io'[x] = io[x]
  BY DEF Truncates
<1> QED
  BY <1>1, <1>2 DEF IsFreed

\* A step that changes neither block lists nor blocks.
LEMMA SameEntries ==
  ASSUME data' = data, addrs' = addrs
  PROVE  /\ \A j, q : AddrOf(j, q)' = AddrOf(j, q)
         /\ \A j, k : BlockOf(j, k)' = BlockOf(j, k)
  BY DEF AddrOf, BlockOf, Slot, Bn

LEMMA SameWritten ==
  ASSUME Written, data' = data, addrs' = addrs, made' = made, held' = held,
         len' = len
  PROVE  Written'
<1>1. \A j, k : BlockOf(j, k)' = BlockOf(j, k)
  BY SameEntries
<1>2. Covered' /\ Kept' /\ Blank' /\ Clear'
  BY <1>1 DEF Written, Covered, Kept, Blank, Clear, Wd
<1> QED
  BY <1>2 DEF Written

LEMMA WriteChunkKept ==
  ASSUME DataInv, NEW p \in Users, NEW f \in Opened,
         NEW n \in Lengths \cup {io[p].n}, WriteChunk(p, f, n)
  PROVE  DataInv'
<1>0. PICK i \in Inos : i = FileOf[f]
  BY FileDataAssumption
<1>1. PICK n1 \in Nat : n1 = Least(n, MaxWrite) /\ n1 > 0
  <2>1. CASE n \in Lengths
    BY <2>1, FileDataAssumption, DataSizes DEF Least
  <2>2. CASE n \notin Lengths
    <3>1. n = io[p].n /\ io[p].pc = "write"
      BY <2>2 DEF WriteChunk
    <3>2. n \in Nat /\ n > 0
      BY <3>1 DEF DataInv, DataTypes, IoRecords, InCall, InCallOf
    <3> QED
      BY <3>2, DataSizes DEF Least
  <2> QED
    BY <2>1, <2>2
<1>2. /\ made /\ io[p].pc \in {"idle", "write"} /\ ilk[i] = NoUser
      /\ used' = used /\ data' = data /\ size' = size /\ addrs' = addrs
      /\ made' = made /\ off' = off /\ held' = held /\ len' = len /\ n \in Nat
  BY <1>0, FileDataAssumption
     DEF WriteChunk, diskVars, history, DataInv, DataTypes, IoRecords
<1>3. /\ io \in [Users -> IoRecords]
      /\ ilk \in [Inos -> Users \cup {NoUser}] /\ off[f] \in Nat
      /\ size[i] \in Nat /\ len[i] = size[i]
  BY <1>2 DEF DataInv, DataTypes, InCall
<1>4. PICK r : /\ io' = [io EXCEPT ![p] = r]
               /\ \/ r = NoIo /\ ilk' = ilk
                  \/ /\ r = [pc |-> "writei", f |-> f, n |-> n, n1 |-> n1,
                             tot |-> 0]
                     /\ ilk' = [ilk EXCEPT ![i] = p]
                     /\ off[f] <= size[i] /\ off[f] + n1 <= MaxBytes
  <2>1. CASE off[f] > size[i] \/ off[f] + n1 > MaxBytes
    <3>1. io' = [io EXCEPT ![p] = NoIo] /\ ilk' = ilk
      BY <1>0, <1>1, <2>1 DEF WriteChunk
    <3> QED
      BY <3>1
  <2>2. CASE ~(off[f] > size[i] \/ off[f] + n1 > MaxBytes)
    <3>1. /\ io' = [io EXCEPT ![p] = [pc |-> "writei", f |-> f, n |-> n,
                                      n1 |-> n1, tot |-> 0]]
          /\ ilk' = [ilk EXCEPT ![i] = p]
      BY <1>0, <1>1, <2>2 DEF WriteChunk, GoTo
    <3>2. off[f] <= size[i] /\ off[f] + n1 <= MaxBytes
      BY <1>3, <2>2, DataSizes
    <3> QED
      BY <3>1, <3>2
  <2> QED
    BY <2>1, <2>2
<1>5. /\ r \in IoRecords
      /\ r.pc # "itrunc"
  BY <1>2, <1>4 DEF NoIo, IoRecords
<1>6. io'[p] = r /\ \A x \in Users : x # p => io'[x] = io[x]
  BY <1>3, <1>4
<1>7. DataTypes'
  <2>1. ilk' \in [Inos -> Users \cup {NoUser}]
    BY <1>3, <1>4
  <2>2. io' \in [Users -> IoRecords]
    BY <1>3, <1>4, <1>5
  <2> QED
    BY <1>2, <2>1, <2>2 DEF DataInv, DataTypes
<1>8. InCallOf(p)'
  <2>1. CASE r = NoIo
    BY <1>6, <2>1 DEF InCallOf, NoIo
  <2>2. CASE r # NoIo
    <3>1. /\ r.pc = "writei" /\ r.f = f /\ r.n1 = n1 /\ r.tot = 0
          /\ off[f] <= size[i] /\ off[f] + n1 <= MaxBytes
          /\ ilk' = [ilk EXCEPT ![i] = p]
      BY <1>4, <2>2
    <3>2. Ino(p)' = i /\ Here(p)' = off[f] /\ ilk'[i] = p
      BY <1>0, <1>2, <1>3, <1>6, <3>1 DEF Ino, Here
    <3>3. Writing(p)'
      BY <1>1, <1>2, <1>3, <1>6, <3>1, <3>2 DEF Writing
    <3> QED
      BY <1>1, <1>2, <1>6, <3>1, <3>2, <3>3 DEF InCallOf
  <2> QED
    BY <2>1, <2>2
<1>9. InCall'
  <2>1. \A j \in Inos : j # i => ilk'[j] = ilk[j]
    BY <1>3, <1>4
  <2>2. size'[i] <= len'[i] /\ io[p].pc # "itrunc"
    BY <1>2, <1>3
  <2> QED
    BY <1>2, <1>3, <1>6, <1>8, <2>1, <2>2, OthersInCall
<1>10. Lists'
  BY <1>2, <1>5, <1>6, FreedKept, SameEntries, ListsKept DEF DataInv
<1>11. Written'
  BY <1>2, SameWritten DEF DataInv
<1> QED
  BY <1>7, <1>9, <1>10, <1>11 DEF DataInv

LEMMA BmapKept ==
  ASSUME DataInv, NEW p \in Users, Bmap(p)
  PROVE  DataInv'
<1>0. /\ io[p].pc = "writei" /\ io[p].f \in Opened /\ io[p].tot < io[p].n1
      /\ ilk[Ino(p)] = p /\ Writing(p) /\ made
      /\ io[p] \in IoRecords
  BY DEF Bmap, DataInv, DataTypes, InCall, InCallOf
<1>1. PICK i \in Inos : i = Ino(p) /\ ilk[i] = p
  BY <1>0, FileDataAssumption DEF Ino
<1>2. PICK o \in Nat : o = Here(p) /\ o < MaxBytes
  <2>1. /\ off[io[p].f] \in Nat /\ io[p].tot \in Nat /\ io[p].n1 \in Nat
        /\ off[io[p].f] + io[p].n1 <= MaxBytes
    BY <1>0 DEF DataInv, DataTypes, IoRecords, Writing
  <2> QED
    BY <1>0, <2>1, DataSizes DEF Here
<1>3. Untouched(i) /\ BlockOf(i, o) = 0
  <2>1. Untouched(i)
    BY <1>0, <1>1, NotTruncated
  <2> QED
    BY <1>1, <1>2, <2>1 DEF Bmap
<1>4. CASE ~(Blocks \subseteq used)
  <2>1. PICK b \in Blocks : Balloc(i, Missing(i, Bn(o)), b)
    BY <1>1, <1>2, <1>4 DEF Bmap
  <2>2. PICK s : s = Missing(i, Bn(o))
    OBVIOUS
  <2>3. /\ s \in Slots /\ AddrOf(i, s) = 0
        /\ s > NDIRECT => addrs[i][NDIRECT] # 0
    BY <1>2, <1>3, <2>2, MissingIs
  <2>4. UNCHANGED <<made, ilk, off, io, held, len>>
    BY <1>4 DEF Bmap, history
  <2>5. Allocates(i, s, b)
    BY <1>3, <2>1, <2>2, <2>3, <2>4 DEF Allocates
  <2> QED
    BY <2>3, <2>5, AllocKept
<1>5. CASE Blocks \subseteq used
  <2>1. /\ used' = used /\ data' = data /\ size' = size /\ addrs' = addrs
        /\ made' = made /\ off' = off /\ held' = held /\ len' = len
        /\ ilk' = ilk
    BY <1>5 DEF Bmap, diskVars, history
  <2>2. PICK r : /\ io' = [io EXCEPT ![p] = r]
                 /\ r = [pc |-> "writen", f |-> io[p].f, n |-> io[p].n,
                         n1 |-> io[p].n1, tot |-> io[p].tot]
    BY <1>5 DEF Bmap, GoTo
  <2>3. io \in [Users -> IoRecords]
    BY DEF DataInv, DataTypes
  <2>4. /\ r \in IoRecords
        /\ r.pc = "writen" /\ r.f = io[p].f /\ r.n1 = io[p].n1
        /\ r.tot = io[p].tot
    BY <1>0, <2>2 DEF IoRecords
  <2>5. io'[p] = r /\ \A x \in Users : x # p => io'[x] = io[x]
    BY <2>2, <2>3
  <2>6. io' \in [Users -> IoRecords]
    BY <2>2, <2>3, <2>4
  <2>7. DataTypes'
    BY <2>1, <2>6 DEF DataInv, DataTypes
  <2>8. InCallOf(p)'
    <3>1. Ino(p)' = Ino(p) /\ Here(p)' = Here(p)
      BY <2>1, <2>4, <2>5 DEF Ino, Here
    <3>2. Writing(p)'
      BY <1>0, <2>1, <2>4, <2>5, <3>1 DEF Writing
    <3> QED
      BY <1>0, <2>1, <2>4, <2>5, <3>1, <3>2 DEF InCallOf
  <2>9. InCall'
    <3>1. ilk'[i] # NoUser
      BY <1>1, <2>1, FileDataAssumption
    <3>2. size'[i] <= len'[i] /\ io[p].pc # "itrunc"
      <4>1. size[i] \in Nat /\ len[i] = IF o > size[i] THEN o ELSE size[i]
        BY <1>0, <1>1, <1>2 DEF Writing, DataInv, DataTypes
      <4> QED
        BY <1>0, <2>1, <4>1
    <3> QED
      BY <1>0, <1>1, <2>1, <2>5, <2>8, <3>1, <3>2, OthersInCall
  <2>10. Lists'
    BY <1>0, <2>1, <2>4, <2>5, FreedKept, SameEntries, ListsKept DEF DataInv
  <2>11. Written'
    BY <2>1, SameWritten DEF DataInv
  <2> QED
    BY <2>7, <2>9, <2>10, <2>11 DEF DataInv
<1> QED
  BY <1>4, <1>5

\* What a process in the middle of writei() knows.
LEMMA InWritei ==
  ASSUME DataInv, NEW p \in Users, io[p].pc \in {"writei", "writen"}
  PROVE  /\ io[p].f \in Opened /\ Ino(p) \in Inos /\ ilk[Ino(p)] = p
         /\ Ino(p) = FileOf[io[p].f]
         /\ Writing(p) /\ made /\ Untouched(Ino(p)) /\ io[p] \in IoRecords
         /\ io[p].n \in Nat /\ io[p].n1 \in Nat /\ io[p].tot \in Nat
         /\ off[io[p].f] \in Nat /\ Here(p) \in Nat
         /\ size[Ino(p)] \in Nat /\ len[Ino(p)] \in Nat
<1>1. /\ io[p].f \in Opened /\ ilk[Ino(p)] = p /\ Writing(p) /\ made
      /\ io[p] \in IoRecords
  BY DEF DataInv, DataTypes, InCall, InCallOf
<1>2. Ino(p) \in Inos /\ Ino(p) = FileOf[io[p].f]
  BY <1>1, FileDataAssumption DEF Ino
<1>3. Untouched(Ino(p))
  BY <1>1, <1>2, NotTruncated
<1>4. /\ io[p].n \in Nat /\ io[p].n1 \in Nat /\ io[p].tot \in Nat
      /\ off[io[p].f] \in Nat /\ size[Ino(p)] \in Nat /\ len[Ino(p)] \in Nat
  BY <1>1, <1>2 DEF DataInv, DataTypes, IoRecords
<1> QED
  BY <1>1, <1>2, <1>3, <1>4 DEF Here

LEMMA WriteBlockWritten ==
  ASSUME DataInv, NEW i \in Inos, NEW o \in Nat, NEW c \in Nat, NEW m \in Nat,
         NEW v, Fills(i, o, c, v), c <= m, o + m <= MaxBytes,
         Wd(o) + m <= BSIZE, o <= len[i], made \/ c = m, made' = made,
         held' = [held EXCEPT ![i] = [k \in Bytes |->
                    IF k \in o .. o + c - 1 /\ (c = m \/ k < len[i]) THEN v
                    ELSE held[i][k]]],
         len' = [len EXCEPT ![i] = IF c = m /\ o + m > len[i] THEN o + m
                                   ELSE len[i]]
  PROVE  Written' /\ held' \in [Inos -> [Bytes -> Values]]
                  /\ len' \in [Inos -> Nat]
<1>0. /\ held \in [Inos -> [Bytes -> Values]] /\ len \in [Inos -> Nat]
      /\ v \in Values /\ MaxBytes \in Nat /\ Untouched(i)
      /\ BlockOf(i, o) # 0 /\ len[i] \in Nat
  BY DataSizes DEF DataInv, DataTypes, Fills
<1>1. /\ \A k \in Bytes : held'[i][k] =
           IF k >= o /\ k < o + c /\ (c = m \/ k < len[i]) THEN v
           ELSE held[i][k]
      /\ \A j \in Inos : j # i => held'[j] = held[j] /\ len'[j] = len[j]
      /\ len'[i] = IF c = m /\ o + m > len[i] THEN o + m ELSE len[i]
      /\ held' \in [Inos -> [Bytes -> Values]] /\ len' \in [Inos -> Nat]
  <2>1. PICK row \in [Bytes -> Values] : row = [k \in Bytes |->
                    IF k \in o .. o + c - 1 /\ (c = m \/ k < len[i]) THEN v
                    ELSE held[i][k]]
    BY <1>0
  <2>2. held' = [held EXCEPT ![i] = row]
    BY <2>1
  <2>3. ASSUME NEW k \in Bytes
        PROVE  row[k] = IF k >= o /\ k < o + c /\ (c = m \/ k < len[i]) THEN v
                        ELSE held[i][k]
    <3>1. k \in Nat
      BY DEF Bytes
    <3>2. k \in o .. o + c - 1 <=> k >= o /\ k < o + c
      BY <3>1
    <3> QED
      BY <2>1, <3>2
  <2>4. /\ held'[i] = row /\ \A j \in Inos : j # i => held'[j] = held[j]
        /\ held' \in [Inos -> [Bytes -> Values]]
    BY <1>0, <2>2
  <2>5. /\ len'[i] = IF c = m /\ o + m > len[i] THEN o + m ELSE len[i]
        /\ \A j \in Inos : j # i => len'[j] = len[j]
        /\ len' \in [Inos -> Nat]
    BY <1>0
  <2> QED
    BY <2>3, <2>4, <2>5
<1>2. ASSUME NEW j \in Inos, NEW k \in Nat, k < len'[j]
      PROVE  k < MaxBytes /\ BlockOf(j, k) # 0 /\ Untouched(j)
  <2>1. CASE k < len[j]
    <3>1. len[j] > 0
      BY <1>0, <2>1
    <3> QED
      BY <2>1, <3>1, NotTruncated DEF DataInv, Written, Covered
  <2>2. CASE ~(k < len[j])
    <3>1. j = i /\ k < o + m /\ o <= k
      BY <1>0, <1>1, <1>2, <2>2
    <3>2. k < MaxBytes
      BY <1>0, <3>1
    <3>3. Wd(o) + (k - o) < BSIZE
      BY <3>1, ByteAt, DataSizes
    <3>4. Bn(k) = Bn(o)
      BY <3>1, <3>3, NextWords
    <3>5. BlockOf(j, k) = BlockOf(i, o)
      BY <3>1, <3>4 DEF BlockOf
    <3> QED
      BY <1>0, <3>1, <3>2, <3>5
  <2> QED
    BY <2>1, <2>2
<1>3. ASSUME NEW j \in Inos, NEW k \in Nat, k < len'[j]
      PROVE  BlockOf(j, k)' # 0 /\ data'[BlockOf(j, k)'][Wd(k)] = held'[j][k]
  <2>0. /\ k < MaxBytes /\ BlockOf(j, k) # 0 /\ Untouched(j) /\ k \in Bytes
    BY <1>2, <1>3, DataSizes DEF Bytes
  <2>1. /\ BlockOf(j, k)' = BlockOf(j, k)
        /\ data'[BlockOf(j, k)][Wd(k)] =
              IF j = i /\ k >= o /\ k < o + c THEN v
              ELSE data[BlockOf(j, k)][Wd(k)]
    BY <2>0, FillByte
  <2>2. k < len[j] => data[BlockOf(j, k)][Wd(k)] = held[j][k]
    BY DEF DataInv, Written, Kept
  <2>3. CASE j # i
    BY <1>1, <1>3, <2>0, <2>1, <2>2, <2>3
  <2>4. CASE j = i
    <3>1. k < len[i] \/ (c = m /\ k >= o /\ k < o + c)
      BY <1>0, <1>1, <1>3, <2>4
    <3> QED
      BY <1>1, <2>0, <2>1, <2>2, <2>4, <3>1
  <2> QED
    BY <2>3, <2>4
<1>4. Covered'
  BY <1>2, <1>3 DEF Covered
<1>5. Kept'
  BY <1>3 DEF Kept, Wd
<1>6. Blank'
  <2> SUFFICES ASSUME NEW j \in Inos, NEW k \in Bytes, k >= len'[j]
               PROVE  held'[j][k] = 0
    BY DEF Blank
  <2>0. k \in Nat
    BY DEF Bytes
  <2>1. k >= len[j] => held[j][k] = 0
    BY DEF DataInv, Written, Blank
  <2>2. CASE j # i
    BY <1>1, <2>1, <2>2
  <2>3. CASE j = i
    <3>1. k >= len[i] /\ ~(k >= o /\ k < o + c /\ (c = m \/ k < len[i]))
      BY <1>0, <1>1, <2>0, <2>3
    <3> QED
      BY <1>1, <2>1, <2>3, <3>1
  <2> QED
    BY <2>2, <2>3
<1>7. Clear'
  <2> SUFFICES ASSUME ~made, NEW j \in Inos, NEW k \in Bytes,
                      k >= len'[j], BlockOf(j, k)' # 0
               PROVE  data'[BlockOf(j, k)'][Wd(k)] = 0
    BY DEF Clear, Wd
  <2>0. k \in Nat /\ k < MaxBytes
    BY <1>0 DEF Bytes
  <2>1. Untouched(j)
    <3>1. ilk[j] = NoUser
      BY DEF DataInv, InCall
    <3> QED
      BY <3>1, NotTruncated
  <2>2. BlockOf(j, k) # 0
    <3>1. Slot(Bn(k)) \in Slots
      BY <2>0, ByteAt, SlotIs, DataSizes
    <3> QED
      BY <3>1, FillEntry DEF BlockOf
  <2>3. /\ BlockOf(j, k)' = BlockOf(j, k)
        /\ data'[BlockOf(j, k)][Wd(k)] =
              IF j = i /\ k >= o /\ k < o + c THEN v
              ELSE data[BlockOf(j, k)][Wd(k)]
    BY <2>0, <2>1, <2>2, FillByte
  <2>4. k >= len[j] /\ ~(j = i /\ k >= o /\ k < o + c)
    BY <1>0, <1>1, <2>0
  <2>5. data[BlockOf(j, k)][Wd(k)] = 0
    BY <2>2, <2>4 DEF DataInv, Written, Clear
  <2> QED
    BY <2>3, <2>4, <2>5
<1> QED
  BY <1>1, <1>4, <1>5, <1>6, <1>7 DEF Written

LEMMA WriteBlockKept ==
  ASSUME DataInv, NEW p \in Users, NEW c \in 0 .. BSIZE, WriteBlock(p, c)
  PROVE  DataInv'
<1>0. /\ io[p].pc = "writei" /\ io[p].tot < io[p].n1
      /\ Writing(p) /\ made /\ io[p] \in IoRecords
      /\ io[p].f \in Opened /\ ilk[Ino(p)] = p
      /\ io[p].n \in Nat /\ io[p].n1 \in Nat /\ io[p].tot \in Nat
      /\ off[io[p].f] \in Nat /\ Here(p) \in Nat
  <2>1. io[p].pc = "writei"
    BY DEF WriteBlock
  <2> QED
    BY <2>1, InWritei DEF DataInv, InCall, InCallOf
<1>1. PICK i \in Inos : /\ i = Ino(p) /\ ilk[i] = p /\ Untouched(i)
                        /\ size[i] \in Nat /\ len[i] \in Nat
                        /\ i = FileOf[io[p].f]
  BY <1>0, InWritei
<1>2. PICK o \in Nat : o = Here(p) /\ o = off[io[p].f] + io[p].tot
  BY <1>0 DEF Here
<1>3. PICK m \in Nat : /\ m = Least(io[p].n1 - io[p].tot, BSIZE - Wd(o))
                       /\ m <= io[p].n1 - io[p].tot /\ Wd(o) + m <= BSIZE
  BY <1>0, ByteAt, DataSizes DEF Least
<1>4. PICK tot \in Nat : /\ tot = IF c = m THEN io[p].tot + m ELSE io[p].tot
                         /\ tot <= io[p].n1
  BY <1>0, <1>3
<1>5. PICK pc : /\ pc = IF c = m /\ tot < io[p].n1 THEN "writei" ELSE "writen"
                /\ pc \in {"writei", "writen"}
  OBVIOUS
<1>6. /\ BlockOf(i, o) # 0 /\ c \in 0 .. m
      /\ Fill(BlockOf(i, o), Wd(o), c, p)
      /\ held' = [held EXCEPT ![i] = [k \in Bytes |->
                    IF k \in o .. o + c - 1 /\ (c = m \/ k < len[i]) THEN p
                    ELSE held[i][k]]]
      /\ len' = [len EXCEPT ![i] = IF c = m /\ o + m > len[i] THEN o + m
                                   ELSE len[i]]
      /\ io' = [io EXCEPT ![p] = [pc |-> pc, f |-> io[p].f, n |-> io[p].n,
                                  n1 |-> io[p].n1, tot |-> tot]]
      /\ used' = used /\ size' = size /\ addrs' = addrs /\ made' = made
      /\ ilk' = ilk /\ off' = off
  BY <1>1, <1>2, <1>3, <1>4, <1>5 DEF WriteBlock, GoTo
<1>7. PICK r : /\ r = [pc |-> pc, f |-> io[p].f, n |-> io[p].n,
                       n1 |-> io[p].n1, tot |-> tot]
               /\ io' = [io EXCEPT ![p] = r]
  BY <1>6
<1>8. /\ io'[p] = r /\ \A x \in Users : x # p => io'[x] = io[x]
      /\ io' \in [Users -> IoRecords]
      /\ r.pc = pc /\ r.f = io[p].f /\ r.n1 = io[p].n1 /\ r.tot = tot
  <2>1. r \in IoRecords
    BY <1>0, <1>5, <1>7 DEF IoRecords
  <2>2. io \in [Users -> IoRecords]
    BY DEF DataInv, DataTypes
  <2>3. /\ r.pc = pc /\ r.f = io[p].f /\ r.n1 = io[p].n1 /\ r.tot = tot
    BY <1>7
  <2> QED
    BY <1>7, <2>1, <2>2, <2>3
<1>9. o <= len[i] /\ o < MaxBytes /\ o + m <= MaxBytes
  BY <1>0, <1>1, <1>2, <1>3, DataSizes DEF Writing
<1>10. Fills(i, o, c, p) /\ c \in Nat /\ c <= m
  <2>1. c \in Nat /\ c <= m
    BY <1>6
  <2>2. Wd(o) + c <= BSIZE
    <3>1. Wd(o) \in Nat /\ BSIZE \in Nat
      BY ByteAt, DataSizes
    <3> QED
      BY <1>3, <2>1, <3>1
  <2>3. p \in Values
    BY DEF Values
  <2> QED
    BY <1>1, <1>6, <1>9, <2>1, <2>2, <2>3 DEF Fills
<1>11. /\ Written' /\ held' \in [Inos -> [Bytes -> Values]]
       /\ len' \in [Inos -> Nat]
  BY <1>0, <1>3, <1>6, <1>9, <1>10, WriteBlockWritten
<1>12. DataTypes'
  BY <1>6, <1>8, <1>10, <1>11, FillTypes DEF DataInv, DataTypes
<1>13. Lists'
  <2>1. \A j \in Inos, q \in Slots : AddrOf(j, q)' = AddrOf(j, q)
    BY <1>10, FillEntry
  <2>2. \A j, q : IsFreed(j, q)' <=> IsFreed(j, q)
    BY <1>0, <1>5, <1>8, FreedKept
  <2> QED
    BY <1>6, <2>1, <2>2, ListsKept DEF DataInv
<1>14. InCallOf(p)'
  <2>1. Ino(p)' = i /\ Here(p)' = off[io[p].f] + tot
    BY <1>1, <1>6, <1>8 DEF Ino, Here
  <2>2. len'[i] = IF c = m /\ o + m > len[i] THEN o + m ELSE len[i]
    BY <1>1, <1>6 DEF DataInv, DataTypes
  <2>3. /\ off[io[p].f] <= size[i] /\ off[io[p].f] + io[p].n1 <= MaxBytes
        /\ len[i] = IF o > size[i] THEN o ELSE size[i]
    BY <1>0, <1>1, <1>2 DEF Writing
  <2>4. len'[i] = IF off[io[p].f] + tot > size[i] THEN off[io[p].f] + tot
                  ELSE size[i]
    <3>1. CASE c = m
      <4>1. off[io[p].f] + tot = o + m
        BY <1>0, <1>2, <1>4, <3>1
      <4> QED
        BY <1>1, <2>2, <2>3, <3>1, <4>1
    <3>2. CASE c # m
      <4>1. off[io[p].f] + tot = o
        BY <1>0, <1>2, <1>4, <3>2
      <4> QED
        BY <1>1, <2>2, <2>3, <3>2, <4>1
    <3> QED
      BY <3>1, <3>2
  <2>5. Writing(p)'
    BY <1>4, <1>6, <1>8, <2>1, <2>3, <2>4 DEF Writing
  <2>6. pc = "writei" => tot < io[p].n1
    BY <1>5
  <2> QED
    BY <1>0, <1>1, <1>5, <1>6, <1>8, <2>1, <2>5, <2>6 DEF InCallOf
<1>15. InCall'
  <2>1. ilk'[i] # NoUser
    BY <1>1, <1>6, FileDataAssumption
  <2>2. \A j \in Inos : j # i => len'[j] = len[j]
    BY <1>6 DEF DataInv, DataTypes
  <2>3. size'[i] <= len'[i] /\ io[p].pc # "itrunc"
    <3>1. len'[i] = IF c = m /\ o + m > len[i] THEN o + m ELSE len[i]
      BY <1>1, <1>6 DEF DataInv, DataTypes
    <3>2. size[i] <= len[i]
      BY <1>0, <1>1, <1>2 DEF Writing
    <3> QED
      BY <1>0, <1>1, <1>6, <3>1, <3>2
  <2> QED
    BY <1>0, <1>1, <1>6, <1>8, <1>14, <2>1, <2>2, <2>3, OthersInCall
<1> QED
  BY <1>11, <1>12, <1>13, <1>15 DEF DataInv

LEMMA WriteEndKept ==
  ASSUME DataInv, NEW p \in Users, WriteEnd(p)
  PROVE  DataInv'
<1>0. io[p].pc = "writen"
  BY DEF WriteEnd
<1>1. PICK i \in Inos : /\ i = Ino(p) /\ ilk[i] = p /\ i = FileOf[io[p].f]
                        /\ size[i] \in Nat /\ len[i] \in Nat
  BY <1>0, InWritei
<1>2. /\ made /\ Writing(p) /\ Here(p) \in Nat /\ io[p].f \in Opened
      /\ io[p].n \in Nat /\ io[p].n1 \in Nat
  BY <1>0, InWritei
<1>3. /\ used' = used /\ data' = data /\ addrs' = addrs /\ made' = made
      /\ held' = held /\ len' = len /\ ilk' = [ilk EXCEPT ![i] = NoUser]
      /\ off' = [off EXCEPT ![io[p].f] = Here(p)]
      /\ size' = IF Here(p) > size[i] THEN [size EXCEPT ![i] = Here(p)]
                 ELSE size
  BY <1>1 DEF WriteEnd, Unlock, history
<1>4. /\ size \in [Inos -> Nat] /\ off \in [Opened -> Nat]
      /\ ilk \in [Inos -> Users \cup {NoUser}] /\ io \in [Users -> IoRecords]
  BY DEF DataInv, DataTypes
<1>5. PICK r : /\ io' = [io EXCEPT ![p] = r]
               /\ \/ r = NoIo
                  \/ /\ io[p].n > io[p].n1
                     /\ r = [pc |-> "write", f |-> io[p].f,
                             n |-> io[p].n - io[p].n1, n1 |-> 0, tot |-> 0]
  BY DEF WriteEnd, GoTo
<1>6. /\ r \in IoRecords /\ r.pc \in {"idle", "write"}
      /\ r.pc = "write" => r.f \in Opened /\ r.n > 0
  <2>1. CASE r = NoIo
    BY <2>1 DEF NoIo, IoRecords
  <2>2. CASE r # NoIo
    <3>1. io[p].n - io[p].n1 \in Nat /\ io[p].n - io[p].n1 > 0
      BY <1>2, <1>5, <2>2
    <3> QED
      BY <1>2, <1>5, <2>2, <3>1 DEF IoRecords
  <2> QED
    BY <2>1, <2>2
<1>7. /\ io'[p] = r /\ \A x \in Users : x # p => io'[x] = io[x]
      /\ io' \in [Users -> IoRecords]
  BY <1>4, <1>5, <1>6
<1>8. /\ size' \in [Inos -> Nat] /\ size'[i] = len[i]
      /\ \A j \in Inos : j # i => size'[j] = size[j]
  <2>1. len[i] = IF Here(p) > size[i] THEN Here(p) ELSE size[i]
    BY <1>1, <1>2 DEF Writing
  <2> QED
    BY <1>2, <1>3, <1>4, <2>1
<1>9. /\ off' \in [Opened -> Nat] /\ ilk' \in [Inos -> Users \cup {NoUser}]
      /\ \A f \in Opened : FileOf[f] # i => off'[f] = off[f]
      /\ \A j \in Inos : j # i => ilk'[j] = ilk[j]
  BY <1>1, <1>2, <1>3, <1>4
<1>10. DataTypes'
  BY <1>3, <1>7, <1>8, <1>9 DEF DataInv, DataTypes
<1>11. InCallOf(p)'
  BY <1>2, <1>3, <1>6, <1>7 DEF InCallOf
<1>12. InCall'
  <2>1. size'[i] <= len'[i] /\ io[p].pc # "itrunc"
    BY <1>0, <1>1, <1>3, <1>8
  <2> QED
    BY <2>1, <1>1, <1>2, <1>3, <1>7, <1>8, <1>9, <1>11, OthersInCall
<1>13. Lists'
  BY <1>0, <1>3, <1>6, <1>7, FreedKept, SameEntries, ListsKept DEF DataInv
<1>14. Written'
  BY <1>3, SameWritten DEF DataInv
<1> QED
  BY <1>10, <1>12, <1>13, <1>14 DEF DataInv

\* A read finds no hole.
LEMMA FilereadKept ==
  ASSUME DataInv, NEW p \in Users, NEW f \in Opened, NEW n \in Lengths,
         NEW fails \in BOOLEAN, Fileread(p, f, n, fails)
  PROVE  DataInv'
<1>0. PICK i \in Inos : i = FileOf[f]
  BY FileDataAssumption
<1>1. /\ made /\ io[p].pc = "idle" /\ ilk[i] = NoUser
      /\ used' = used /\ data' = data /\ size' = size /\ addrs' = addrs
      /\ made' = made /\ held' = held /\ len' = len /\ ilk' = ilk
  BY <1>0 DEF Fileread, diskVars, history
<1>2. /\ off \in [Opened -> Nat] /\ off[f] \in Nat /\ size[i] \in Nat
      /\ len[i] = size[i] /\ n \in Nat
  BY <1>1, FileDataAssumption DEF DataInv, DataTypes, InCall
<1>3. PICK m \in Nat : /\ m = ReadLen(i, off[f], n)
                       /\ m > 0 => off[f] + m <= size[i]
  BY <1>2 DEF ReadLen, Least
<1>4. ~ \E k \in off[f] .. off[f] + m - 1 : BlockOf(i, k) = 0
  <2> SUFFICES ASSUME NEW k \in off[f] .. off[f] + m - 1
               PROVE  BlockOf(i, k) # 0
    OBVIOUS
  <2>1. k \in Nat /\ k < len[i]
    BY <1>2, <1>3
  <2> QED
    BY <2>1 DEF DataInv, Written, Covered
<1>5. /\ off' = [off EXCEPT ![f] = IF fails THEN off[f] ELSE off[f] + m]
      /\ io' = io
  BY <1>0, <1>3, <1>4 DEF Fileread
<1>6. /\ off' \in [Opened -> Nat]
      /\ \A g \in Opened : FileOf[g] # i => off'[g] = off[g]
  BY <1>0, <1>2, <1>3, <1>5
<1>7. DataTypes'
  BY <1>1, <1>5, <1>6 DEF DataInv, DataTypes
<1>8. InCall'
  <2>1. InCallOf(p)'
    BY <1>1, <1>5 DEF InCallOf
  <2>2. size'[i] <= len'[i] /\ io[p].pc # "itrunc"
    BY <1>1, <1>2
  <2> QED
    BY <1>1, <1>2, <1>5, <1>6, <2>1, <2>2, OthersInCall
<1>9. Lists'
  BY <1>1, <1>5, FreedKept, SameEntries, ListsKept DEF DataInv
<1>10. Written'
  BY <1>1, SameWritten DEF DataInv
<1> QED
  BY <1>7, <1>8, <1>9, <1>10 DEF DataInv

LEMMA OpenKept ==
  ASSUME DataInv, NEW p \in Users, NEW f \in Opened, Open(p, f)
  PROVE  DataInv'
<1>0. PICK i \in Inos : i = FileOf[f]
  BY FileDataAssumption
<1>1. /\ made /\ io[p].pc = "idle" /\ ilk[i] = NoUser
      /\ used' = used /\ data' = data /\ size' = size /\ addrs' = addrs
      /\ made' = made /\ ilk' = [ilk EXCEPT ![i] = p]
      /\ held' = [held EXCEPT ![i] = Nothing]
      /\ len' = [len EXCEPT ![i] = 0] /\ off' = [off EXCEPT ![f] = 0]
  BY <1>0 DEF Open, diskVars
<1>2. PICK r : /\ io' = [io EXCEPT ![p] = r]
               /\ r = [pc |-> "itrunc", f |-> f, n |-> 0, n1 |-> 0, tot |-> 0]
  BY DEF Open, GoTo
<1>3. /\ off \in [Opened -> Nat] /\ len \in [Inos -> Nat]
      /\ ilk \in [Inos -> Users \cup {NoUser}] /\ io \in [Users -> IoRecords]
      /\ held \in [Inos -> [Bytes -> Values]]
  BY DEF DataInv, DataTypes
<1>4. /\ r \in IoRecords /\ r.pc = "itrunc" /\ r.f = f /\ r.tot = 0
  BY <1>2 DEF IoRecords
<1>5. /\ io'[p] = r /\ \A x \in Users : x # p => io'[x] = io[x]
      /\ io' \in [Users -> IoRecords]
  BY <1>2, <1>3, <1>4
<1>6. /\ len' \in [Inos -> Nat] /\ len'[i] = 0
      /\ ilk' \in [Inos -> Users \cup {NoUser}] /\ ilk'[i] = p
      /\ off' \in [Opened -> Nat]
      /\ \A j \in Inos : j # i => len'[j] = len[j] /\ ilk'[j] = ilk[j]
      /\ \A g \in Opened : FileOf[g] # i => off'[g] = off[g]
  BY <1>0, <1>1, <1>3
<1>7. /\ held' \in [Inos -> [Bytes -> Values]] /\ held'[i] = Nothing
      /\ \A j \in Inos : j # i => held'[j] = held[j]
  <2>1. Nothing \in [Bytes -> Values]
    BY DEF Nothing, Values
  <2> QED
    BY <1>1, <1>3, <2>1
<1>8. DataTypes'
  BY <1>1, <1>5, <1>6, <1>7 DEF DataInv, DataTypes
<1>9. InCall'
  <2>1. Ino(p)' = i
    BY <1>0, <1>4, <1>5 DEF Ino
  <2>2. ~(r.tot > MAXFILE)
    BY <1>4, DataSizes
  <2>3. InCallOf(p)'
    BY <1>1, <1>4, <1>5, <1>6, <2>1, <2>2 DEF InCallOf
  <2>4. ilk'[i] # NoUser
    BY <1>6, FileDataAssumption
  <2>5. Truncates(p, i)' /\ io[p].pc # "itrunc"
    BY <1>1, <1>4, <1>5, <2>1 DEF Truncates
  <2> QED
    BY <1>1, <1>5, <1>6, <2>3, <2>4, <2>5, OthersInCall
<1>10. Lists'
  <2>1. ASSUME NEW j \in Inos, NEW q \in Slots
        PROVE  IsFreed(j, q)' <=> IsFreed(j, q)
    <3>1. \A x \in Users : x # p => (Truncates(x, j)' <=> Truncates(x, j))
      BY <1>5 DEF Truncates, Ino
    <3>2. ~Truncates(p, j)
      BY <1>1 DEF Truncates
    <3>3. ~(q > NDIRECT /\ q <= io'[p].tot)
      BY <1>4, <1>5, SlotIs, DataSizes
    <3> QED
      BY <1>5, <3>1, <3>2, <3>3 DEF IsFreed
  <2> QED
    BY <1>1, <2>1, SameEntries, ListsKept DEF DataInv
<1>11. Written'
  <2>0. \A j, k : BlockOf(j, k)' = BlockOf(j, k)
    BY <1>1, SameEntries
  <2>1. ASSUME NEW j \in Inos, NEW k \in Nat, k < len'[j]
        PROVE  j # i /\ k < len[j] /\ held'[j] = held[j]
    BY <1>6, <1>7, <2>1
  <2>2. Covered'
    BY <2>0, <2>1 DEF DataInv, Written, Covered
  <2>3. Kept'
    BY <1>1, <2>0, <2>1 DEF DataInv, Written, Kept, Wd
  <2>4. Blank'
    BY <1>6, <1>7 DEF DataInv, Written, Blank, Nothing
  <2>5. Clear'
    BY <1>1 DEF Clear
  <2> QED
    BY <2>2, <2>3, <2>4, <2>5 DEF Written
<1> QED
  BY <1>8, <1>9, <1>10, <1>11 DEF DataInv

\* What a process in the middle of itrunc() knows.
LEMMA InItrunc ==
  ASSUME DataInv, NEW p \in Users, io[p].pc = "itrunc"
  PROVE  /\ io[p].f \in Opened /\ Ino(p) \in Inos /\ ilk[Ino(p)] = p
         /\ Ino(p) = FileOf[io[p].f] /\ made /\ len[Ino(p)] = 0
         /\ io[p].tot \in Nat /\ Truncates(p, Ino(p))
         /\ io[p].tot > MAXFILE => addrs[Ino(p)][NDIRECT] = 0
         /\ \A x \in Users : Truncates(x, Ino(p)) => x = p
<1>1. /\ io[p].f \in Opened /\ ilk[Ino(p)] = p /\ made /\ len[Ino(p)] = 0
      /\ io[p].tot > MAXFILE => addrs[Ino(p)][NDIRECT] = 0
      /\ io[p] \in IoRecords
  BY DEF DataInv, DataTypes, InCall, InCallOf
<1>2. Ino(p) \in Inos /\ Ino(p) = FileOf[io[p].f] /\ io[p].tot \in Nat
  BY <1>1, FileDataAssumption DEF Ino, IoRecords
<1>3. ASSUME NEW x \in Users, Truncates(x, Ino(p)) PROVE x = p
  BY <1>1, <1>3 DEF DataInv, InCall, InCallOf, Truncates
<1> QED
  BY <1>1, <1>2, <1>3 DEF Truncates

\* The block that itrunc() comes to is marked: bfree() does not panic.
LEMMA TruncOwned ==
  ASSUME DataInv, NEW p \in Users, NEW i \in Inos, io[p].pc = "itrunc",
         i = Ino(p), io[p].tot <= MAXFILE, NEW q, q = Turn(io[p].tot)
  PROVE  /\ q \in Slots /\ (AddrOf(i, q) # 0 => OwnsAt(i, q))
         /\ AddrOf(i, q) # 0 => AddrOf(i, q) \in used
<1>0. /\ NDIRECT \in Nat /\ MAXFILE \in Nat /\ MAXFILE > NDIRECT
      /\ io[p].tot \in Nat
  BY DataSizes, InItrunc
<1>1. q \in Slots
  BY <1>0, SlotIs DEF Turn
<1>2. ~(q > NDIRECT /\ q <= io[p].tot)
  BY <1>0 DEF Turn, Slot
<1>3. ~IsFreed(i, q)
  BY <1>2, InItrunc DEF IsFreed
<1> QED
  BY <1>1, <1>3 DEF OwnsAt, DataInv, Lists, Marked

\* bfree() of the block of entry q of inode i, in itrunc() of p.
Truncs(p, i, q) ==
  /\ io[p].pc = "itrunc" /\ i = Ino(p) /\ io[p].tot <= MAXFILE
  /\ q = Turn(io[p].tot) /\ data' = data
  /\ addrs' = [addrs EXCEPT ![i] = ClearAddr(addrs[i], q)]
  /\ \A x \in Users : x # p => io'[x] = io[x]
  /\ io'[p].pc = "itrunc" /\ io'[p].f = io[p].f
  /\ io'[p].tot = io[p].tot + 1

\* The entries that own a block afterwards.
LEMMA TruncOwns ==
  ASSUME DataInv, NEW p \in Users, NEW i \in Inos, NEW q, Truncs(p, i, q),
         NEW j \in Inos, NEW s \in Slots
  PROVE  /\ OwnsAt(j, s)' <=> OwnsAt(j, s) /\ ~(j = i /\ s = q)
         /\ AddrOf(j, s)' = AddrOf(j, s) \/ AddrOf(j, s)' = 0
<1> USE DEF Truncs
<1>0. /\ NDIRECT \in Nat /\ MAXFILE \in Nat /\ MAXFILE > NDIRECT
      /\ s \in Nat /\ s <= MAXFILE
      /\ addrs \in [Inos -> [0 .. NDIRECT -> 0 .. NBLOCKS]]
      /\ io[p].tot \in Nat
  <2>1. NDIRECT \in Nat /\ MAXFILE \in Nat /\ MAXFILE > NDIRECT
    BY DataSizes
  <2>2. s \in Nat /\ s <= MAXFILE
    BY <2>1 DEF Slots
  <2> QED
    BY <2>1, <2>2, InItrunc DEF DataInv, DataTypes
<1>1. PICK t \in Nat : t = io[p].tot /\ t <= MAXFILE /\ io'[p].tot = t + 1
  BY <1>0
<1>2. /\ t < NDIRECT => q = t
      /\ t >= NDIRECT /\ t < MAXFILE => q = t + 1
      /\ t = MAXFILE => q = NDIRECT
  BY <1>0, <1>1 DEF Turn, Slot
<1>3. CASE j # i
  <2>1. addrs'[j] = addrs[j]
    BY <1>0, <1>3
  <2>2. AddrOf(j, s)' = AddrOf(j, s)
    BY <2>1 DEF AddrOf
  <2>3. IsFreed(j, s)' <=> IsFreed(j, s)
    <3>1. ~Truncates(p, j) /\ ~Truncates(p, j)'
      BY <1>3 DEF Truncates, Ino
    <3>2. \A x \in Users : x # p => (Truncates(x, j)' <=> Truncates(x, j))
      BY DEF Truncates, Ino
    <3> QED
      BY <3>1, <3>2 DEF IsFreed
  <2> QED
    BY <1>3, <2>2, <2>3 DEF OwnsAt
<1>4. CASE j = i
  <2>1. \A x \in Users : Truncates(x, i) <=> x = p
    BY InItrunc
  <2>2. \A x \in Users : Truncates(x, i)' <=> x = p
    <3>1. Truncates(p, i)'
      BY DEF Truncates, Ino
    <3>2. \A x \in Users : x # p => (Truncates(x, i)' <=> Truncates(x, i))
      BY DEF Truncates, Ino
    <3> QED
      BY <2>1, <3>1, <3>2
  <2>3. /\ IsFreed(i, s) <=> s > NDIRECT /\ s <= t
        /\ IsFreed(i, s)' <=> s > NDIRECT /\ s <= t + 1
    BY <1>1, <2>1, <2>2 DEF IsFreed
  <2>4. PICK a \in [0 .. NDIRECT -> 0 .. NBLOCKS] : a = addrs[i]
    BY <1>0
  <2>5. addrs'[i] = ClearAddr(a, q)
    BY <1>0, <2>4
  <2>6. CASE q > NDIRECT
    <3>1. addrs'[i] = addrs[i]
      BY <1>0, <1>2, <2>4, <2>5, <2>6 DEF ClearAddr
    <3>2. AddrOf(i, s)' = AddrOf(i, s)
      BY <3>1 DEF AddrOf
    <3>3. q = t + 1
      BY <1>0, <1>1, <1>2, <2>6
    <3>4. IsFreed(i, s)' <=> IsFreed(i, s) \/ s = q
      BY <1>0, <2>3, <2>6, <3>3
    <3> QED
      BY <1>4, <3>2, <3>4 DEF OwnsAt
  <2>7. CASE q <= NDIRECT
    <3>1. addrs'[i] = [a EXCEPT ![q] = 0] /\ q \in 0 .. NDIRECT
      BY <1>0, <1>1, <1>2, <2>5, <2>7 DEF ClearAddr
    <3>2. CASE s <= NDIRECT
      <4>1. AddrOf(i, s) = a[s] /\ AddrOf(i, s)' = addrs'[i][s]
        BY <2>4, <3>2 DEF AddrOf
      <4>2. AddrOf(i, s)' = IF s = q THEN 0 ELSE AddrOf(i, s)
        BY <1>0, <2>4, <3>1, <3>2, <4>1
      <4>3. ~IsFreed(i, s) /\ ~IsFreed(i, s)'
        BY <1>0, <2>3, <3>2
      <4> QED
        BY <1>4, <4>2, <4>3 DEF OwnsAt
    <3>3. CASE s > NDIRECT
      <4>1. CASE q = NDIRECT
        <5>1. addrs'[i][NDIRECT] = 0 /\ t = MAXFILE
          BY <1>0, <1>1, <1>2, <2>4, <3>1, <4>1
        <5>2. AddrOf(i, s)' = 0 /\ IsFreed(i, s)
          BY <1>0, <2>3, <3>3, <5>1 DEF AddrOf
        <5> QED
          BY <1>4, <5>2 DEF OwnsAt
      <4>2. CASE q # NDIRECT
        <5>0. t < NDIRECT
          BY <1>0, <1>1, <1>2, <2>7, <4>2
        <5>1. addrs'[i][NDIRECT] = addrs[i][NDIRECT]
          <6>1. NDIRECT \in 0 .. NDIRECT
            BY <1>0
          <6>2. addrs'[i][NDIRECT] = a[NDIRECT]
            BY <3>1, <4>2, <6>1
          <6> QED
            BY <2>4, <6>2
        <5>2. AddrOf(i, s)' = AddrOf(i, s)
          BY <1>0, <3>3, <5>1 DEF AddrOf
        <5>3. ~IsFreed(i, s) /\ ~IsFreed(i, s)'
          BY <1>0, <2>3, <3>3, <5>0
        <5>4. s # q
          BY <1>0, <2>7, <3>1, <3>3
        <5> QED
          BY <1>4, <5>2, <5>3, <5>4 DEF OwnsAt
      <4> QED
        BY <4>1, <4>2
    <3> QED
      BY <1>0, <3>2, <3>3
  <2>8. q > NDIRECT \/ q <= NDIRECT
    <3>1. q \in Nat
      BY TruncOwned, SlotIs
    <3> QED
      BY <1>0, <3>1
  <2> QED
    BY <2>6, <2>7, <2>8
<1> QED
  BY <1>3, <1>4

LEMMA TruncBlockKept ==
  ASSUME DataInv, NEW p \in Users, TruncBlock(p)
  PROVE  DataInv'
<1>0. /\ io[p].pc = "itrunc" /\ io[p].tot <= MAXFILE
      /\ io[p].f \in Opened /\ made /\ io[p].tot \in Nat
  <2>1. io[p].pc = "itrunc" /\ io[p].tot <= MAXFILE
    BY DEF TruncBlock
  <2> QED
    BY <2>1, InItrunc
<1>1. PICK i \in Inos : /\ i = Ino(p) /\ ilk[i] = p /\ i = FileOf[io[p].f]
                        /\ len[i] = 0
  BY <1>0, InItrunc
<1>2. PICK q \in Slots : /\ q = Turn(io[p].tot)
                         /\ AddrOf(i, q) # 0 => OwnsAt(i, q)
                         /\ AddrOf(i, q) # 0 => AddrOf(i, q) \in used
  BY <1>0, <1>1, TruncOwned
<1>3. /\ used' = used \ {AddrOf(i, q)} /\ data' = data /\ size' = size
      /\ addrs' = [addrs EXCEPT ![i] = ClearAddr(addrs[i], q)]
      /\ io' = [io EXCEPT ![p] = [pc |-> "itrunc", f |-> io[p].f, n |-> 0,
                                  n1 |-> 0, tot |-> io[p].tot + 1]]
      /\ made' = made /\ ilk' = ilk /\ off' = off /\ held' = held
      /\ len' = len
  BY <1>1, <1>2 DEF TruncBlock, GoTo, history
<1>4. PICK r : /\ r = [pc |-> "itrunc", f |-> io[p].f, n |-> 0, n1 |-> 0,
                       tot |-> io[p].tot + 1]
               /\ io' = [io EXCEPT ![p] = r]
  BY <1>3
<1>5. /\ r \in IoRecords /\ r.pc = "itrunc" /\ r.f = io[p].f
      /\ r.tot = io[p].tot + 1
  BY <1>0, <1>4 DEF IoRecords
<1>6. /\ io'[p] = r /\ \A x \in Users : x # p => io'[x] = io[x]
      /\ io' \in [Users -> IoRecords]
  <2>1. io \in [Users -> IoRecords]
    BY DEF DataInv, DataTypes
  <2> QED
    BY <1>4, <1>5, <2>1
<1>7. /\ addrs' \in [Inos -> [0 .. NDIRECT -> 0 .. NBLOCKS]]
      /\ \A j \in Inos : j # i => addrs'[j] = addrs[j]
      /\ addrs'[i] = ClearAddr(addrs[i], q)
  <2>1. addrs \in [Inos -> [0 .. NDIRECT -> 0 .. NBLOCKS]]
    BY DEF DataInv, DataTypes
  <2>2. PICK a \in [0 .. NDIRECT -> 0 .. NBLOCKS] : a = ClearAddr(addrs[i], q)
    <3>1. 0 \in 0 .. NBLOCKS
      BY DataSizes
    <3> QED
      BY <2>1, <3>1 DEF ClearAddr
  <2>3. addrs' = [addrs EXCEPT ![i] = a]
    BY <1>3, <2>2
  <2> QED
    BY <2>1, <2>2, <2>3
<1>8. DataTypes'
  BY <1>3, <1>6, <1>7 DEF DataInv, DataTypes
<1>9. InCall'
  <2>1. Ino(p)' = i
    BY <1>1, <1>5, <1>6 DEF Ino
  <2>2. r.tot > MAXFILE => addrs'[i][NDIRECT] = 0
    <3> SUFFICES ASSUME r.tot > MAXFILE PROVE addrs'[i][NDIRECT] = 0
      OBVIOUS
    <3>1. io[p].tot = MAXFILE /\ NDIRECT \in Nat
      BY <1>0, <1>5, DataSizes
    <3>2. q = NDIRECT
      BY <1>2, <3>1, DataSizes DEF Turn
    <3>3. NDIRECT \in DOMAIN addrs[i]
      BY <3>1 DEF DataInv, DataTypes
    <3> QED
      BY <1>7, <3>1, <3>2, <3>3 DEF ClearAddr
  <2>3. InCallOf(p)'
    BY <1>0, <1>1, <1>3, <1>5, <1>6, <2>1, <2>2 DEF InCallOf
  <2>4. ilk'[i] # NoUser
    BY <1>1, <1>3, FileDataAssumption
  <2>5. Truncates(p, i)' /\ Ino(p) = i
    BY <1>1, <1>5, <1>6, <2>1 DEF Truncates
  <2> QED
    BY <1>0, <1>1, <1>3, <1>6, <1>7, <2>3, <2>4, <2>5, OthersInCall
<1>10. Lists'
  <2>0. /\ io'[p].pc = "itrunc" /\ io'[p].f = io[p].f
        /\ io'[p].tot = io[p].tot + 1
    BY <1>5, <1>6
  <2>6. Truncs(p, i, q)
    BY <1>0, <1>1, <1>2, <1>3, <1>6, <2>0 DEF Truncs
  <2>1. \A j \in Inos, s \in Slots :
          /\ OwnsAt(j, s)' <=> OwnsAt(j, s) /\ ~(j = i /\ s = q)
          /\ AddrOf(j, s)' = AddrOf(j, s) \/ AddrOf(j, s)' = 0
    BY <2>6, TruncOwns
  <2>2. \A j \in Inos, s \in Slots : OwnsAt(j, s)' => AddrOf(j, s)' = AddrOf(j, s)
    BY <2>1 DEF OwnsAt
  <2>3. Listed'
    <3>1. 0 \in 0 .. NBLOCKS
      BY DataSizes
    <3> QED
      BY <2>1, <3>1 DEF Listed, DataInv, Lists
  <2>4. Apart'
    BY <2>1, <2>2 DEF Apart, DataInv, Lists
  <2>5. Marked'
    <3>1. ASSUME NEW j \in Inos, NEW s \in Slots, OwnsAt(j, s)'
          PROVE  AddrOf(j, s)' \in used'
      <4>1. OwnsAt(j, s) /\ ~(j = i /\ s = q) /\ AddrOf(j, s)' = AddrOf(j, s)
        BY <2>1, <2>2, <3>1
      <4>2. AddrOf(j, s) \in used /\ AddrOf(j, s) # 0
        BY <4>1 DEF DataInv, Lists, Marked, OwnsAt
      <4>3. AddrOf(j, s) # AddrOf(i, q)
        BY <1>2, <4>1, <4>2 DEF DataInv, Lists, Apart
      <4> QED
        BY <1>3, <4>1, <4>2, <4>3
    <3>2. ASSUME NEW c \in used'
          PROVE  \E j \in Inos, s \in Slots : OwnsAt(j, s)' /\ AddrOf(j, s)' = c
      <4>1. c \in used /\ c # AddrOf(i, q)
        BY <1>3
      <4>2. PICK j \in Inos, s \in Slots : OwnsAt(j, s) /\ AddrOf(j, s) = c
        BY <4>1 DEF DataInv, Lists, Marked
      <4>3. OwnsAt(j, s)'
        BY <2>1, <4>1, <4>2
      <4> QED
        BY <2>2, <4>2, <4>3
    <3> QED
      BY <3>1, <3>2 DEF Marked
  <2> QED
    BY <2>3, <2>4, <2>5 DEF Lists
<1>11. Written'
  <2>0. ASSUME NEW j \in Inos, NEW k \in Nat, k < len[j]
        PROVE  BlockOf(j, k)' = BlockOf(j, k)
    <3>1. j # i
      BY <1>1, <2>0
    <3>2. addrs'[j] = addrs[j]
      BY <1>7, <3>1
    <3> QED
      BY <1>3, <3>2 DEF BlockOf, AddrOf, Slot, Bn
  <2>1. Covered'
    BY <1>3, <2>0 DEF DataInv, Written, Covered
  <2>2. Kept'
    BY <1>3, <2>0 DEF DataInv, Written, Kept, Wd
  <2>3. Blank' /\ Clear'
    BY <1>0, <1>3 DEF DataInv, Written, Blank, Clear
  <2> QED
    BY <2>1, <2>2, <2>3 DEF Written
<1> QED
  BY <1>8, <1>9, <1>10, <1>11 DEF DataInv

LEMMA TruncEndKept ==
  ASSUME DataInv, NEW p \in Users, TruncEnd(p)
  PROVE  DataInv'
<1>0. /\ io[p].pc = "itrunc" /\ io[p].tot > MAXFILE
      /\ io[p].f \in Opened /\ made /\ io[p].tot \in Nat
  <2>1. io[p].pc = "itrunc" /\ io[p].tot > MAXFILE
    BY DEF TruncEnd
  <2> QED
    BY <2>1, InItrunc
<1>1. PICK i \in Inos : /\ i = Ino(p) /\ ilk[i] = p /\ i = FileOf[io[p].f]
                        /\ len[i] = 0 /\ addrs[i][NDIRECT] = 0
  BY <1>0, InItrunc
<1>2. /\ used' = used /\ data' = data /\ addrs' = addrs /\ made' = made
      /\ off' = off /\ held' = held /\ len' = len
      /\ size' = [size EXCEPT ![i] = 0] /\ ilk' = [ilk EXCEPT ![i] = NoUser]
      /\ io' = [io EXCEPT ![p] = NoIo]
  BY <1>1 DEF TruncEnd, Unlock, history
<1>3. /\ size \in [Inos -> Nat] /\ io \in [Users -> IoRecords]
      /\ ilk \in [Inos -> Users \cup {NoUser}]
      /\ NoIo \in IoRecords /\ NoIo.pc = "idle"
  BY DEF DataInv, DataTypes, NoIo, IoRecords
<1>4. /\ size' \in [Inos -> Nat] /\ size'[i] = 0
      /\ ilk' \in [Inos -> Users \cup {NoUser}]
      /\ io' \in [Users -> IoRecords]
      /\ \A j \in Inos : j # i => size'[j] = size[j] /\ ilk'[j] = ilk[j]
      /\ io'[p] = NoIo /\ \A x \in Users : x # p => io'[x] = io[x]
  BY <1>2, <1>3
<1>5. DataTypes'
  BY <1>2, <1>4 DEF DataInv, DataTypes
<1>6. InCall'
  <2>1. InCallOf(p)'
    BY <1>3, <1>4 DEF InCallOf
  <2>2. size'[i] <= len'[i] /\ Ino(p) = i
    BY <1>1, <1>2, <1>4
  <2> QED
    BY <1>0, <1>1, <1>2, <1>4, <2>1, <2>2, OthersInCall
<1>7. Lists'
  <2>0. \A j, s : AddrOf(j, s)' = AddrOf(j, s)
    BY <1>2, SameEntries
  <2>1. ASSUME NEW j \in Inos, NEW s \in Slots
        PROVE  OwnsAt(j, s)' <=> OwnsAt(j, s)
    <3>1. CASE j # i
      <4>1. ~Truncates(p, j) /\ ~Truncates(p, j)'
        BY <1>1, <1>3, <1>4, <3>1 DEF Truncates
      <4>2. \A x \in Users : x # p => (Truncates(x, j)' <=> Truncates(x, j))
        BY <1>4 DEF Truncates, Ino
      <4>3. IsFreed(j, s)' <=> IsFreed(j, s)
        BY <1>4, <4>1, <4>2 DEF IsFreed
      <4> QED
        BY <2>0, <4>3 DEF OwnsAt
    <3>2. CASE j = i
      <4>1. CASE s <= NDIRECT
        <5>1. ~IsFreed(j, s) /\ ~IsFreed(j, s)'
          BY <4>1, SlotIs, DataSizes DEF IsFreed
        <5> QED
          BY <2>0, <5>1 DEF OwnsAt
      <4>2. CASE ~(s <= NDIRECT)
        <5>1. AddrOf(j, s) = 0
          BY <1>1, <3>2, <4>2 DEF AddrOf
        <5> QED
          BY <2>0, <5>1 DEF OwnsAt
      <4> QED
        BY <4>1, <4>2
    <3> QED
      BY <3>1, <3>2
  <2>2. Listed' /\ Marked'
    BY <1>2, <2>0, <2>1 DEF DataInv, Lists, Listed, Marked
  <2>3. Apart'
    BY <2>0, <2>1 DEF DataInv, Lists, Apart
  <2> QED
    BY <2>2, <2>3 DEF Lists
<1>8. Written'
  BY <1>2, SameWritten DEF DataInv
<1> QED
  BY <1>5, <1>6, <1>7, <1>8 DEF DataInv

\* While mkfs runs nobody is in a call.
LEMMA Making ==
  ASSUME DataInv, ~made
  PROVE  /\ \A p \in Users : io[p].pc = "idle"
         /\ \A i \in Inos : ilk[i] = NoUser /\ len[i] = size[i] /\ Untouched(i)
<1>1. \A p \in Users : io[p].pc = "idle"
  BY DEF DataInv, InCall, InCallOf
<1>2. \A i \in Inos : ilk[i] = NoUser /\ len[i] = size[i]
  BY DEF DataInv, InCall
<1> QED
  BY <1>1, <1>2 DEF Untouched, Truncates

LEMMA MakingInCall ==
  ASSUME DataInv, ~made, io' = io, ilk' = ilk,
         \A i \in Inos : len'[i] = size'[i] /\ size'[i] \in Nat
  PROVE  InCall'
<1>1. \A p \in Users : InCallOf(p)'
  BY Making DEF InCallOf
<1>2. \A i \in Inos : ilk'[i] = NoUser
  BY Making
<1>3. \A i \in Inos : size'[i] <= len'[i]
  OBVIOUS
<1> QED
  BY <1>1, <1>2, <1>3 DEF InCall

LEMMA IappendKept ==
  ASSUME DataInv, NEW i \in Inos, Iappend(i)
  PROVE  DataInv'
<1>0. /\ ~made /\ made' = made /\ ilk' = ilk /\ off' = off /\ io' = io
      /\ Bn(size[i]) < MAXFILE
  BY DEF Iappend
<1>1. PICK k \in Nat : k = size[i] /\ k = len[i] /\ k < MaxBytes
  <2>1. size[i] \in Nat /\ len[i] = size[i]
    BY <1>0, Making DEF DataInv, DataTypes
  <2> QED
    BY <1>0, <2>1, ByteAt
<1>2. Untouched(i)
  BY <1>0, Making
<1>3. CASE BlockOf(i, k) = 0
  <2>1. PICK b \in Blocks : Balloc(i, Missing(i, Bn(k)), b)
    BY <1>1, <1>3 DEF Iappend
  <2>2. PICK s : s = Missing(i, Bn(k))
    OBVIOUS
  <2>3. /\ s \in Slots /\ AddrOf(i, s) = 0
        /\ s > NDIRECT => addrs[i][NDIRECT] # 0
    BY <1>1, <1>3, <2>2, MissingIs
  <2>4. UNCHANGED <<made, ilk, off, io, held, len>>
    BY <1>1, <1>3 DEF Iappend, history
  <2>5. Allocates(i, s, b)
    BY <1>2, <2>1, <2>2, <2>3, <2>4 DEF Allocates
  <2> QED
    BY <2>3, <2>5, AllocKept
<1>4. CASE BlockOf(i, k) # 0
  <2>1. /\ Fill(BlockOf(i, k), Wd(k), 1, 1) /\ used' = used /\ addrs' = addrs
        /\ size' = [size EXCEPT ![i] = size[i] + 1]
        /\ held' = [held EXCEPT ![i][k] = 1]
        /\ len' = [len EXCEPT ![i] = len[i] + 1]
    BY <1>1, <1>4 DEF Iappend
  <2>2. /\ size \in [Inos -> Nat] /\ len \in [Inos -> Nat]
        /\ held \in [Inos -> [Bytes -> Values]] /\ MaxBytes \in Nat
    BY DataSizes DEF DataInv, DataTypes
  <2>3. Fills(i, k, 1, 1)
    <3>1. Wd(k) + 1 <= BSIZE
      BY ByteAt, DataSizes
    <3>2. 1 \in Values
      BY DEF Values
    <3> QED
      BY <1>1, <1>2, <1>4, <2>1, <3>1, <3>2 DEF Fills
  <2>4. PICK u \in Nat : u = 1
    OBVIOUS
  <2>5. held' = [held EXCEPT ![i] = [x \in Bytes |->
                   IF x \in k .. k + u - 1 /\ (u = u \/ x < len[i]) THEN u
                   ELSE held[i][x]]]
    <3>1. PICK old \in [Bytes -> Values] : old = held[i]
      BY <2>2
    <3>2. PICK new : new = [old EXCEPT ![k] = u]
      OBVIOUS
    <3>3. \A x \in Bytes : x \in k .. k + u - 1 <=> x = k
      BY <1>1, <2>4 DEF Bytes
    <3>4. new = [x \in Bytes |->
                   IF x \in k .. k + u - 1 /\ (u = u \/ x < len[i]) THEN u
                   ELSE old[x]]
      BY <3>2, <3>3
    <3>5. held' = [held EXCEPT ![i] = new]
      BY <2>1, <2>4, <3>1, <3>2
    <3> QED
      BY <3>1, <3>4, <3>5
  <2>6. len' = [len EXCEPT ![i] = IF u = u /\ k + u > len[i] THEN k + u
                                  ELSE len[i]]
    <3>1. (IF u = u /\ k + u > len[i] THEN k + u ELSE len[i]) = len[i] + 1
      BY <1>1, <2>4
    <3> QED
      BY <2>1, <3>1
  <2>7. /\ Written' /\ held' \in [Inos -> [Bytes -> Values]]
        /\ len' \in [Inos -> Nat]
    <3>1. Fills(i, k, u, u)
      BY <2>3, <2>4
    <3>2. k + u <= MaxBytes /\ Wd(k) + u <= BSIZE /\ k <= len[i] /\ u <= u
      BY <1>1, <2>2, <2>4, <3>1 DEF Fills
    <3> QED
      BY <1>0, <2>5, <2>6, <3>1, <3>2, WriteBlockWritten
  <2>8. /\ size' \in [Inos -> Nat]
        /\ \A j \in Inos : len'[j] = size'[j] /\ size'[j] \in Nat
    <3>1. \A j \in Inos : len[j] = size[j]
      BY <1>0, Making
    <3> QED
      BY <2>1, <2>2, <3>1
  <2>9. DataTypes'
    BY <1>0, <2>1, <2>3, <2>7, <2>8, FillTypes DEF DataInv, DataTypes
  <2>10. InCall'
    BY <1>0, <2>8, MakingInCall
  <2>11. Lists'
    <3>1. \A j \in Inos, q \in Slots : AddrOf(j, q)' = AddrOf(j, q)
      BY <2>3, FillEntry
    <3>2. \A j, q : IsFreed(j, q)' <=> IsFreed(j, q)
      BY <1>0 DEF IsFreed, Truncates, Ino
    <3> QED
      BY <2>1, <3>1, <3>2, ListsKept DEF DataInv
  <2> QED
    BY <2>7, <2>9, <2>10, <2>11 DEF DataInv
<1> QED
  BY <1>3, <1>4

\* Rounding s up to a whole block stays in the block of the last byte.
LEMMA Rounded ==
  ASSUME NEW s \in Nat, Wd(s) # 0, NEW e, e = (s \div BSIZE + 1) * BSIZE
  PROVE  /\ e \in Nat /\ s > 0 /\ e > s
         /\ \A k \in Nat : k >= s /\ k < e => Bn(k) = Bn(s - 1)
<1>1. /\ Bn(s) \in Nat /\ Wd(s) \in Nat /\ Wd(s) < BSIZE
      /\ s = Mul(BSIZE, Bn(s)) + Wd(s) /\ BSIZE \in Nat \ {0}
  BY ByteAt, DataSizes
<1>2. PICK x \in Nat : x = Mul(BSIZE, Bn(s))
  <2>1. Mul(BSIZE, Bn(s)) \in Nat
    BY <1>1 DEF Mul
  <2> QED
    BY <2>1
<1>3. e = x + BSIZE
  <2>1. PICK d \in Nat : d = Bn(s)
    BY <1>1
  <2>2. e = (d + 1) * BSIZE
    BY <2>1 DEF Bn
  <2>3. (d + 1) * BSIZE = Mul(BSIZE, d + 1)
    BY <1>1 DEF Mul
  <2>4. Mul(BSIZE, d + 1) = Mul(BSIZE, d) + Mul(BSIZE, 1)
    BY <1>1, MulAdd
  <2>5. Mul(BSIZE, 1) = BSIZE
    BY <1>1, MulOne
  <2> QED
    BY <1>2, <2>1, <2>2, <2>3, <2>4, <2>5
<1>4. e \in Nat /\ s > 0 /\ e > s
  BY <1>1, <1>2, <1>3
<1>5. Bn(s - 1) = Bn(s)
  <2>1. PICK t \in Nat, m \in 0 .. BSIZE - 1 : t = s - 1 /\ m = Wd(s) - 1
    BY <1>1, <1>4
  <2>2. /\ Bn(t) \in Nat /\ Wd(t) \in 0 .. BSIZE - 1
        /\ t = Mul(BSIZE, Bn(t)) + Wd(t)
    BY ByteAt DEF Words
  <2>3. PICK y \in Nat : y = Mul(BSIZE, Bn(t))
    <3>1. Mul(BSIZE, Bn(t)) \in Nat
      BY <1>1, <2>2 DEF Mul
    <3> QED
      BY <3>1
  <2>4. y + Wd(t) = x + m
    BY <1>1, <1>2, <2>1, <2>2, <2>3
  <2>5. Mul(BSIZE, Bn(t)) + Wd(t) = Mul(BSIZE, Bn(s)) + m
    BY <1>2, <2>3, <2>4
  <2>6. Bn(t) = Bn(s)
    BY <1>1, <2>2, <2>5, DivSame
  <2> QED
    BY <2>1, <2>6
<1>6. ASSUME NEW k \in Nat, k >= s, k < e PROVE Bn(k) = Bn(s)
  <2>1. Wd(s) + (k - s) < BSIZE
    BY <1>1, <1>2, <1>3, <1>6
  <2> QED
    BY <1>6, <2>1, NextWords
<1> QED
  BY <1>4, <1>5, <1>6

LEMMA MkfsDoneKept ==
  ASSUME DataInv, MkfsDone
  PROVE  DataInv'
<1>0. /\ ~made /\ made' = TRUE /\ used' = used /\ data' = data
      /\ addrs' = addrs /\ ilk' = ilk /\ off' = off /\ io' = io
      /\ held' = held /\ size = MkfsSize
  BY DEF MkfsDone
<1>1. PICK i \in Inos : i = RootIno
  BY FileDataAssumption
<1>2. /\ size \in [Inos -> Nat] /\ len \in [Inos -> Nat]
      /\ \A j \in Inos : len[j] = size[j] /\ Untouched(j)
  BY <1>0, Making DEF DataInv, DataTypes
<1>3. PICK s \in Nat : s = size[i] /\ s = len[i] /\ Wd(s) # 0
  BY <1>0, <1>1, <1>2, FileDataAssumption DEF Wd
<1>4. PICK e : e = (s \div BSIZE + 1) * BSIZE
  OBVIOUS
<1>5. /\ e \in Nat /\ s > 0 /\ e > s
      /\ \A k \in Nat : k >= s /\ k < e => Bn(k) = Bn(s - 1)
  BY <1>3, <1>4, Rounded
<1>6. size' = [size EXCEPT ![i] = e] /\ len' = [len EXCEPT ![i] = e]
  BY <1>1, <1>3, <1>4 DEF MkfsDone
<1>7. /\ size' \in [Inos -> Nat] /\ len' \in [Inos -> Nat] /\ len'[i] = e
      /\ \A j \in Inos : j # i => len'[j] = len[j]
      /\ \A j \in Inos : len'[j] = size'[j]
  BY <1>2, <1>5, <1>6
<1>8. DataTypes'
  BY <1>0, <1>7 DEF DataInv, DataTypes
<1>9. InCall'
  BY <1>0, <1>7, MakingInCall
<1>10. Lists'
  <2>1. \A j, q : IsFreed(j, q)' <=> IsFreed(j, q)
    BY <1>0 DEF IsFreed, Truncates, Ino
  <2> QED
    BY <1>0, <2>1, SameEntries, ListsKept DEF DataInv
<1>11. ASSUME NEW j \in Inos, NEW k \in Nat, k < len'[j]
       PROVE  /\ k < MaxBytes /\ BlockOf(j, k) # 0
              /\ data[BlockOf(j, k)][Wd(k)] = held[j][k]
  <2>1. CASE k < len[j]
    BY <2>1 DEF DataInv, Written, Covered, Kept
  <2>2. CASE ~(k < len[j])
    <3>1. j = i /\ k >= s /\ k < e
      BY <1>2, <1>3, <1>7, <1>11, <2>2
    <3>2. PICK t \in Nat : t = s - 1 /\ t < len[i] /\ Bn(k) = Bn(t)
      BY <1>3, <1>5, <3>1
    <3>3. t < MaxBytes /\ BlockOf(i, t) # 0
      BY <3>2 DEF DataInv, Written, Covered
    <3>4. k < MaxBytes /\ BlockOf(i, k) # 0
      <4>1. BlockOf(i, k) = BlockOf(i, t)
        BY <3>2 DEF BlockOf
      <4> QED
        BY <3>2, <3>3, <4>1, ByteAt
    <3>5. k \in Bytes /\ k >= len[i]
      BY <1>3, <3>1, <3>4, DataSizes DEF Bytes
    <3>6. held[i][k] = 0 /\ data[BlockOf(i, k)][Wd(k)] = 0
      BY <1>0, <3>4, <3>5 DEF DataInv, Written, Blank, Clear
    <3> QED
      BY <3>1, <3>4, <3>6
  <2> QED
    BY <2>1, <2>2
<1>12. Written'
  <2>0. \A j, k : BlockOf(j, k)' = BlockOf(j, k)
    BY <1>0, SameEntries
  <2>1. Covered'
    BY <1>11, <2>0 DEF Covered
  <2>2. Kept'
    BY <1>0, <1>11, <2>0 DEF Kept, Wd
  <2>3. Blank'
    <3> SUFFICES ASSUME NEW j \in Inos, NEW k \in Bytes, k >= len'[j]
                 PROVE  held'[j][k] = 0
      BY DEF Blank
    <3>1. k >= len[j]
      <4>1. k \in Nat
        BY DEF Bytes
      <4> QED
        BY <1>2, <1>3, <1>5, <1>7, <4>1
    <3> QED
      BY <1>0, <3>1 DEF DataInv, Written, Blank
  <2>4. Clear'
    BY <1>0 DEF Clear
  <2> QED
    BY <2>1, <2>2, <2>3, <2>4 DEF Written
<1> QED
  BY <1>8, <1>9, <1>10, <1>12 DEF DataInv

LEMMA DataInitial == DataInit => DataInv
<1> SUFFICES ASSUME DataInit PROVE DataInv
  OBVIOUS
<1> USE DEF DataInit
<1>1. /\ NDIRECT \in Nat /\ NBLOCKS \in Nat /\ 0 \in 0 .. NBLOCKS
      /\ NDIRECT \in 0 .. NDIRECT
  BY DataSizes
<1>2. \A i \in Inos, q \in Slots : AddrOf(i, q) = 0
  <2>1. \A q \in Slots : q <= NDIRECT => q \in 0 .. NDIRECT
    BY <1>1, SlotIs
  <2> QED
    BY <1>1, <2>1 DEF AddrOf
<1>3. DataTypes
  <2>1. Zero \in [Words -> Values] /\ Nothing \in [Bytes -> Values]
    BY DEF Zero, Nothing, Values
  <2>2. NoIo \in IoRecords
    BY DEF NoIo, IoRecords
  <2> QED
    BY <1>1, <2>1, <2>2 DEF DataTypes
<1>4. InCall
  <2>1. \A p \in Users : InCallOf(p)
    BY DEF InCallOf, NoIo
  <2> QED
    BY <2>1 DEF InCall
<1>5. Lists
  BY <1>1, <1>2 DEF Lists, Listed, Apart, Marked, OwnsAt
<1>6. Written
  <2>1. \A i \in Inos, k \in Bytes : BlockOf(i, k) = 0
    <3>1. \A k \in Bytes : Slot(Bn(k)) \in Slots
      BY ByteAt, SlotIs, DataSizes DEF Bytes
    <3> QED
      BY <1>2, <3>1 DEF BlockOf
  <2>2. Covered /\ Kept
    BY DEF Covered, Kept
  <2>3. Blank /\ Clear
    BY <2>1 DEF Blank, Clear, Nothing
  <2> QED
    BY <2>2, <2>3 DEF Written
<1> QED
  BY <1>3, <1>4, <1>5, <1>6 DEF DataInv

LEMMA DataStutters ==
  ASSUME DataInv, UNCHANGED dataVars
  PROVE  DataInv'
<1>0. /\ used' = used /\ data' = data /\ size' = size /\ addrs' = addrs
      /\ made' = made /\ ilk' = ilk /\ off' = off /\ io' = io
      /\ held' = held /\ len' = len
  BY DEF dataVars
<1>1. DataTypes'
  BY <1>0 DEF DataInv, DataTypes
<1>2. InCall'
  <2>1. \A p \in Users : InCallOf(p)'
    BY <1>0 DEF DataInv, InCall, InCallOf, Writing, Ino, Here
  <2> QED
    BY <1>0, <2>1 DEF DataInv, InCall, Truncates, Ino
<1>3. Lists'
  <2>1. \A j, q : IsFreed(j, q)' <=> IsFreed(j, q)
    BY <1>0 DEF IsFreed, Truncates, Ino
  <2> QED
    BY <1>0, <2>1, SameEntries, ListsKept DEF DataInv
<1>4. Written'
  BY <1>0, SameWritten DEF DataInv
<1> QED
  BY <1>1, <1>2, <1>3, <1>4 DEF DataInv

LEMMA DataStepKept ==
  ASSUME DataInv, DataNext
  PROVE  DataInv'
<1>1. ASSUME NEW p \in Users, DataStep(p) PROVE DataInv'
  BY <1>1, WriteChunkKept, BmapKept, WriteBlockKept, WriteEndKept,
     FilereadKept, OpenKept, TruncBlockKept, TruncEndKept DEF DataStep
<1> QED
  BY <1>1, IappendKept, MkfsDoneKept DEF DataNext

LEMMA DataAlways == DataSpec => []DataInv
<1>1. DataInit => DataInv
  BY DataInitial
<1>2. DataInv /\ [DataNext]_dataVars => DataInv'
  BY DataStepKept, DataStutters
<1> QED
  BY <1>1, <1>2, PTL DEF DataSpec

\* The inductive invariant gives the two properties.
LEMMA DataInvExact == DataInv => BlocksExact
<1> SUFFICES ASSUME DataInv PROVE BlocksExact
  OBVIOUS
<1>1. \A i \in Inos : \A q : q \in Owned(i) <=> q \in Slots /\ OwnsAt(i, q)
  BY DEF Owned, OwnsAt
<1>2. \A i, j \in Inos : \A q \in Owned(i), r \in Owned(j) :
        AddrOf(i, q) = AddrOf(j, r) => i = j /\ q = r
  BY <1>1 DEF DataInv, Lists, Apart
<1>3. used = UNION {{AddrOf(i, q) : q \in Owned(i)} : i \in Inos}
  <2>1. ASSUME NEW b \in used
        PROVE  b \in UNION {{AddrOf(i, q) : q \in Owned(i)} : i \in Inos}
    <3>1. PICK i \in Inos, q \in Slots : OwnsAt(i, q) /\ AddrOf(i, q) = b
      BY DEF DataInv, Lists, Marked
    <3>2. q \in Owned(i)
      BY <1>1, <3>1
    <3> QED
      BY <3>1, <3>2
  <2>2. ASSUME NEW b \in UNION {{AddrOf(i, q) : q \in Owned(i)} : i \in Inos}
        PROVE  b \in used
    <3>1. PICK i \in Inos : \E q \in Owned(i) : b = AddrOf(i, q)
      OBVIOUS
    <3>2. PICK q \in Owned(i) : b = AddrOf(i, q)
      BY <3>1
    <3>3. q \in Slots /\ OwnsAt(i, q)
      BY <1>1
    <3> QED
      BY <3>2, <3>3 DEF DataInv, Lists, Marked
  <2> QED
    BY <2>1, <2>2
<1>4. ASSUME NEW i \in Inos, ~ \E p \in Users : Truncates(p, i),
             NEW k \in 0 .. size[i] - 1
      PROVE  BlockOf(i, k) # 0
  <2>1. size[i] <= len[i] /\ size[i] \in Nat /\ len[i] \in Nat
    BY <1>4 DEF DataInv, DataTypes, InCall
  <2>2. k \in Nat /\ k < len[i]
    BY <2>1
  <2> QED
    BY <2>2 DEF DataInv, Written, Covered
<1>5. \A p \in Users : io[p].pc # "panic"
  BY DEF DataInv, DataTypes, IoRecords
<1> QED
  BY <1>2, <1>3, <1>4, <1>5 DEF BlocksExact

LEMMA DataInvKept == DataInv => DataKept
<1> SUFFICES ASSUME DataInv, NEW i \in Inos, ilk[i] = NoUser
             PROVE  /\ size[i] = len[i]
                    /\ \A k \in 0 .. size[i] - 1 :
                         data[BlockOf(i, k)][Wd(k)] = held[i][k]
  BY DEF DataKept
<1>1. size[i] = len[i] /\ size[i] \in Nat
  BY DEF DataInv, DataTypes, InCall
<1>2. ASSUME NEW k \in 0 .. size[i] - 1
      PROVE  data[BlockOf(i, k)][Wd(k)] = held[i][k]
  <2>1. k \in Nat /\ k < len[i]
    BY <1>1
  <2> QED
    BY <2>1 DEF DataInv, Written, Kept
<1> QED
  BY <1>1, <1>2

(* balloc() and bfree() with bmap(), itrunc(), writei() and readi(): the    *)
(* bitmap marks exactly the blocks of the inodes, none twice; no file that  *)
(* is not being truncated has a hole; neither bfree() nor the log_write()   *)
(* under a read panics.  For any number of processes, files, blocks and     *)
(* direct blocks, any block size and any image mkfs writes.                 *)
THEOREM BlocksAreExact == DataSpec => []BlocksExact
  BY DataAlways, DataInvExact, PTL

(* filewrite() and open() with O_TRUNC: a file nobody has locked holds      *)
(* byte by byte what the calls have written to it, and its size is theirs.  *)
THEOREM DataIsKept == DataSpec => []DataKept
  BY DataAlways, DataInvKept, PTL
=============================================================================
