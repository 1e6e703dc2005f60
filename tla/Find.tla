-------------------------------- MODULE Find --------------------------------
(***************************************************************************)
(* find, user/find.c: a search of a directory tree that does not change    *)
(* meanwhile.  The path of a directory is the sequence of its names and    *)
(* the length of its string; names are sequences of characters, since the  *)
(* buffer dest has room for the path, a slash and as many characters as    *)
(* the wanted name has, and concatenar_cadenas() cuts off the rest.        *)
(* Descriptors are never closed.                                           *)
(***************************************************************************)
EXTENDS Naturals, Sequences, FiniteSets, SequencesExt

CONSTANTS Trees,      \* directory number -> its entries [name, inum]; 1 is the
                      \* current directory, a number that is no directory a file
          Starts,     \* the paths given as argv[1]: [names, len]
          Wanted,     \* the names given as argv[2]
          OpenLimit   \* descriptors left to the program: NOFILE less 0, 1, 2

VARIABLES tree,       \* the directories
          start,      \* argv[1]
          archivo,    \* argv[2], archivo_a_buscar
          llamadas,   \* the calls of buscar_archivo() that have not returned
          abiertos,   \* how many descriptors are open
          impresas    \* the paths printed

vars == <<tree, start, archivo, llamadas, abiertos, impresas>>

Dot == <<".">>
DotDot == <<".", ".">>

-----------------------------------------------------------------------------
(* Path lookup: open() and stat() as find uses them, 0 when they fail.      *)

Entry(d, name) ==
    LET S == {i \in DOMAIN tree[d] : tree[d][i].name = name /\ tree[d][i].inum # 0}
    IN  IF S = {} THEN 0 ELSE tree[d][CHOOSE i \in S : TRUE].inum

Lookup(names) ==
    FoldLeft(LAMBDA d, name : IF d \in DOMAIN tree THEN Entry(d, name) ELSE 0,
             1, names)

(* A call of buscar_archivo(ruta): it opens the directory, if a descriptor  *)
(* is left; otherwise read() fails at once.                                 *)
Call(ruta) ==
    [ruta |-> ruta, len |-> ruta.len, i |-> 1,
     dir |-> IF abiertos < OpenLimit THEN Lookup(ruta.names) ELSE 0]

Opened(c) == IF c.dir # 0 THEN 1 ELSE 0

Init ==
    /\ tree \in Trees /\ start \in Starts /\ archivo \in Wanted
    /\ llamadas = <<[ruta |-> start, len |-> start.len, i |-> 1,
                     dir |-> Lookup(start.names)]>>
    /\ abiertos = IF Lookup(start.names) # 0 THEN 1 ELSE 0
    /\ impresas = <<>>

(* ruta_actual in an iteration: a path of two characters becomes ".".       *)
Ruta(c) == IF c.ruta.len = 2 THEN [names |-> <<Dot>>, len |-> 1] ELSE c.ruta

(* dest: the path, a slash and what there is room for of the name; its size *)
(* is taken from the length the path had when the call began.               *)
concatenar_cadenas(c, name) ==
    LET r    == Ruta(c)
        room == c.len + Len(archivo) - r.len
        cut  == SubSeq(name, 1, IF Len(name) < room THEN Len(name) ELSE room)
    IN  [names |-> Append(r.names, cut), len |-> r.len + 1 + Len(cut)]

\* Wrong on purpose: without the test of "." and "..", which a comment calls unnecessary.
NoSkip(e) == e.inum = 0

Skip(e) == e.inum = 0 \/ e.name \in {Dot, DotDot}

(* One iteration of the loop, up to the call for a subdirectory.            *)
buscar_archivo ==
    /\ llamadas # <<>>
    /\ LET c    == Last(llamadas)
           e    == tree[c.dir][c.i]
           dest == concatenar_cadenas(c, e.name)
           next == Append(Front(llamadas), [c EXCEPT !.i = @ + 1, !.ruta = Ruta(c)])
           sub  == Call(dest)
       IN  /\ c.dir \in DOMAIN tree
           /\ c.i <= Len(tree[c.dir])
           /\ impresas' = IF ~Skip(e) /\ e.name = archivo
                          THEN Append(impresas, dest.names) ELSE impresas
           /\ \/ /\ ~Skip(e) /\ Lookup(dest.names) \in DOMAIN tree
                 /\ llamadas' = Append(next, sub)
                 /\ abiertos' = abiertos + Opened(sub)
              \/ /\ Skip(e) \/ Lookup(dest.names) \notin DOMAIN tree
                 /\ llamadas' = next
                 /\ UNCHANGED abiertos
    /\ UNCHANGED <<tree, start, archivo>>

(* read() has no entry left, or failed: return, the directory stays open.   *)
Return ==
    /\ llamadas # <<>>
    /\ LET c == Last(llamadas)
       IN  c.dir \in DOMAIN tree => c.i > Len(tree[c.dir])
    /\ llamadas' = Front(llamadas)
    /\ UNCHANGED <<tree, start, archivo, abiertos, impresas>>

Next == buscar_archivo \/ Return

Spec == Init /\ [][Next]_vars

-----------------------------------------------------------------------------
(* The reference: the paths of the entries with the wanted name, below a    *)
(* directory and the path that leads to it.                                 *)
Real(d) == {i \in DOMAIN tree[d] : tree[d][i].inum # 0 /\ tree[d][i].name \notin {Dot, DotDot}}

RECURSIVE Occurrences(_, _)
Occurrences(d, path) ==
    IF d \notin DOMAIN tree THEN {}
    ELSE UNION {LET e == tree[d][i]
                    p == Append(path, e.name)
                IN  (IF e.name = archivo THEN {p} ELSE {}) \cup Occurrences(e.inum, p)
                : i \in Real(d)}

(* find's own conditions: no directory's name is longer than the wanted     *)
(* one, every directory can have a descriptor of its own, and a path of two *)
(* characters is "./".                                                      *)
InReach ==
    /\ \A d \in DOMAIN tree : \A i \in Real(d) :
          tree[d][i].inum \in DOMAIN tree => Len(tree[d][i].name) <= Len(archivo)
    /\ Cardinality(DOMAIN tree) <= OpenLimit
    /\ start.len = 2 => start.names = <<Dot>>

(* When find ends it has printed the path of every entry with the wanted    *)
(* name once and nothing else, as long as the names, the descriptors and    *)
(* the start are within the limits above; beyond them it may miss some or   *)
(* print some twice, but what it prints still exists unless the start is    *)
(* another path of two characters.                                          *)
FoundExactly ==
    llamadas = <<>> =>
        /\ InReach => /\ ToSet(impresas) = Occurrences(Lookup(start.names), start.names)
                      /\ IsInjective(impresas)
        /\ (start.len = 2 => start.names = <<Dot>>) =>
              \A p \in ToSet(impresas) : Last(p) = archivo /\ Lookup(p) # 0
=============================================================================
