-------------------------------- MODULE Heap --------------------------------
(***************************************************************************)
(* The allocator of user programs, user/umalloc.c: a circular list of free *)
(* blocks in the order of their addresses, next fit, neighbours merged by  *)
(* free().  Addresses and sizes count headers (16 bytes); a block's size   *)
(* includes its own header.  The static block base lies below the heap.    *)
(* A step is one turn of a search loop, or what follows it.                *)
(***************************************************************************)
EXTENDS Naturals

CONSTANTS Requests,   \* the nunits asked for: a header and the bytes rounded up
          MoreUnits,  \* the least that morecore() asks for (4096)
          HeapLimit   \* bound: sbrk() fails beyond this address

ASSUME HeapAssumption ==
    Requests \subseteq Nat \ {0} /\ MoreUnits \in Nat /\ HeapLimit \in Nat

VARIABLES list,       \* the free blocks and base: address -> [ptr, size]
          freep,      \* where the last search ended
          used,       \* the blocks handed out: address -> size
          brk,        \* the end of the heap
          call        \* the loop that runs, its p or prevp, and its argument

heapVars == <<list, freep, used, brk, call>>

Base == 0
HeapStart == 2        \* some address above base, not adjacent to it

NoCall == [loop |-> "none", p |-> Base, nunits |-> 0, bp |-> Base]

(* After the first malloc() has set up base; the heap is empty.             *)
HeapInit ==
    /\ list = [a \in {Base} |-> [ptr |-> Base, size |-> 0]]
    /\ freep = Base
    /\ used = [a \in {} |-> 0]
    /\ brk = HeapStart
    /\ call = NoCall

Removed(f, S) == [x \in DOMAIN f \ S |-> f[x]]
Added(f, x, v) == [y \in DOMAIN f \cup {x} |-> IF y = x THEN v ELSE f[y]]
-----------------------------------------------------------------------------
malloc(n) ==
    /\ call.loop = "none"
    /\ call' = [NoCall EXCEPT !.loop = "fit", !.p = freep, !.nunits = n]
    /\ UNCHANGED <<list, freep, used, brk>>

\* The block after prevp is looked at.
Seen == list[call.p].ptr
Fits == list[Seen].size >= call.nunits

\* malloc() goes on to the next block.
FitNext ==
    /\ call.loop = "fit" /\ ~Fits /\ Seen # freep
    /\ call' = [call EXCEPT !.p = Seen]
    /\ UNCHANGED <<list, freep, used, brk>>

\* Wrong on purpose: the block that is split keeps its size.
TakeKeepsSize ==
    /\ call.loop = "fit" /\ Fits
    /\ list' = IF list[Seen].size = call.nunits
               THEN Removed([list EXCEPT ![call.p].ptr = list[Seen].ptr], {Seen})
               ELSE list
    /\ used' = Added(used, Seen + (list[Seen].size - call.nunits), call.nunits)
    /\ freep' = call.p
    /\ call' = NoCall
    /\ UNCHANGED brk

\* The block is taken out of the list, or its tail is cut off; malloc()
\* returns.
Take ==
    /\ call.loop = "fit" /\ Fits
    /\ list' = IF list[Seen].size = call.nunits
               THEN Removed([list EXCEPT ![call.p].ptr = list[Seen].ptr], {Seen})
               ELSE [list EXCEPT ![Seen].size = @ - call.nunits]
    /\ used' = Added(used, Seen + (list[Seen].size - call.nunits), call.nunits)
    /\ freep' = call.p
    /\ call' = NoCall
    /\ UNCHANGED brk

\* Once around the list: morecore() gets a block from sbrk() and begins to
\* free() it.
MoreCore ==
    LET nu == IF call.nunits < MoreUnits THEN MoreUnits ELSE call.nunits
    IN  /\ call.loop = "fit" /\ ~Fits /\ Seen = freep
        /\ brk + nu <= HeapLimit
        /\ brk' = brk + nu
        /\ used' = Added(used, brk, nu)
        /\ call' = [call EXCEPT !.loop = "place", !.p = freep, !.bp = brk]
        /\ UNCHANGED <<list, freep>>

\* sbrk() fails: malloc() returns 0.
MallocFails ==
    /\ call.loop = "fit" /\ ~Fits /\ Seen = freep
    /\ call' = NoCall
    /\ UNCHANGED <<list, freep, used, brk>>
-----------------------------------------------------------------------------
free(a) ==
    /\ call.loop = "none"
    /\ call' = [NoCall EXCEPT !.loop = "place", !.p = freep, !.bp = a]
    /\ UNCHANGED <<list, freep, used, brk>>

\* bp belongs after p: between p and the next block, or at either end.
Belongs ==
    \/ call.bp > call.p /\ call.bp < Seen
    \/ call.p >= Seen /\ (call.bp > call.p \/ call.bp < Seen)

\* free() goes on to the next block.
PlaceNext ==
    /\ call.loop = "place" /\ ~Belongs
    /\ call' = [call EXCEPT !.p = Seen]
    /\ UNCHANGED <<list, freep, used, brk>>

\* The block is merged with the next one and with the one before when they
\* touch, or put in the list between them.  Then free() returns, or the
\* search of malloc() goes on from the new freep.
Link ==
    LET bp    == call.bp
        p     == call.p
        up    == bp + used[bp] = Seen
        node  == IF up THEN [ptr  |-> list[Seen].ptr,
                             size |-> used[bp] + list[Seen].size]
                 ELSE [ptr |-> Seen, size |-> used[bp]]
        below == Removed(list, IF up THEN {Seen} ELSE {})
    IN  /\ call.loop = "place" /\ Belongs
        /\ list' = IF p + list[p].size = bp
                   THEN [below EXCEPT ![p] = [ptr  |-> node.ptr,
                                              size |-> @.size + node.size]]
                   ELSE Added([below EXCEPT ![p].ptr = bp], bp, node)
        /\ used' = Removed(used, {bp})
        /\ freep' = p
        /\ call' = IF call.nunits > 0
                   THEN [call EXCEPT !.loop = "fit", !.bp = Base] ELSE NoCall
        /\ UNCHANGED brk
-----------------------------------------------------------------------------
\* A call goes on until it returns.
Loop == FitNext \/ Take \/ MoreCore \/ MallocFails \/ PlaceNext \/ Link

HeapNext ==
    \/ \E n \in Requests : malloc(n)
    \/ \E a \in DOMAIN used : free(a)
    \/ Loop

HeapSpec == HeapInit /\ [][HeapNext]_heapVars /\ WF_heapVars(Loop)
-----------------------------------------------------------------------------
Free == DOMAIN list \ {Base}
Units(a) == a .. a + (IF a \in Free THEN list[a].size ELSE used[a]) - 1

(* The blocks handed out and the free ones tile the heap: every header is   *)
(* in exactly one of them.  The list is one cycle through base in the order *)
(* of addresses, freep is on it, and no two free blocks touch, so memory    *)
(* that comes back is always whole again.                                   *)
HeapTiled ==
    /\ Free \cap DOMAIN used = {}
    /\ \A u \in HeapStart .. brk - 1 :
         \E a \in Free \cup DOMAIN used : u \in Units(a)
    /\ \A a, b \in Free \cup DOMAIN used : a # b => Units(a) \cap Units(b) = {}
    /\ \A a \in Free \cup DOMAIN used : Units(a) \subseteq HeapStart .. brk - 1
    /\ freep \in DOMAIN list
    /\ \A a \in DOMAIN list :
         LET above == {b \in DOMAIN list : b > a}
         IN  /\ IF above = {} THEN list[a].ptr = Base
                ELSE list[a].ptr \in above /\ \A b \in above : list[a].ptr <= b
             /\ a + list[a].size \notin Free

(* A call returns: the search of malloc() comes back to where it began, and *)
(* that of free() to the place of the block.                                *)
CallsReturn == []<>(call.loop = "none")
=============================================================================
