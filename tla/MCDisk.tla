------------------------------- MODULE MCDisk -------------------------------
(***************************************************************************)
(* The disk driver and the buffer cache above it, each on its own          *)
(* instance: a behaviour runs one of them and leaves the state of the      *)
(* other alone.  The processes are interchangeable, and so are the blocks  *)
(* of the file system.                                                     *)
(***************************************************************************)
EXTENDS VirtioDisk, BufCache, TLC

CONSTANTS l0, l1, l2, l3      \* the log's header and its blocks

\* The blocks of the file system share their names with the processes of the
\* driver.  No behaviour uses both, and TLC has fewer permutations to try.
\* The three buffers are the fewest for which bget() never panics.
MCLogArea == <<l0, l1, l2, l3>>

VARIABLE which                \* what runs

driverVars == vars

DiskInit == which \in {"driver", "cache"} /\ Init /\ CacheInit

DiskNext ==
  \/ which = "driver" /\ Next /\ UNCHANGED <<which, cacheVars>>
  \/ which = "cache" /\ CacheNext /\ UNCHANGED <<which, driverVars>>

DiskSpec == DiskInit /\ [][DiskNext]_<<which, driverVars, cacheVars>>

-----------------------------------------------------------------------------
Symmetry == Permutations(Procs) \cup Permutations(Users)

(* What nobody reads again is left out of the states TLC tells apart: the  *)
(* entries of a ring that have been consumed, and the status of a free     *)
(* descriptor.                                                             *)
Entries(r, i, j) ==
  [k \in 0 .. Distance(i, j) - 1 |-> r[(i + k) % NUM]]

View ==
  <<which, cacheVars, free, next, b, [d \in Descs \ free |-> status[d]], disk,
    head, avail_idx, seen, Entries(avail, seen, avail_idx),
    used_ring_idx, used_idx, Entries(used, used_idx, used_ring_idx),
    intr, irq, busy, raise, sched>>
=============================================================================
