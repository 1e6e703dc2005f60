----------------------------- MODULE VirtioDisk -----------------------------
(***************************************************************************)
(* The disk driver (kernel/virtio_disk.c) against a device that takes      *)
(* requests from the available ring and completes them in any order.       *)
(*                                                                         *)
(* A process transfers one buffer at a time, which it holds the lock of,   *)
(* so a request is named by its process.  A step of the driver is one      *)
(* critical section of vdisk_lock; the interrupt handler's is split into   *)
(* its iterations, between which the device goes on.  idx of both rings is *)
(* 16 bits wide; 2^16 is the constant IdxMod, so that it wraps.            *)
(***************************************************************************)
EXTENDS Integers, FiniteSets, FiniteSetsExt

CONSTANTS Procs,   \* the processes, each with its buffer
          NUM,     \* the descriptors, and the size of the rings
          IdxMod,  \* 2^16, the modulus of the ring indices
          None     \* a null pointer

ASSUME VirtioAssumption ==
  /\ NUM \in Nat /\ NUM >= 3
  /\ IdxMod \in Nat /\ IdxMod > NUM /\ IdxMod % NUM = 0
  /\ None \notin Procs /\ None \notin Nat

VARIABLES
  free,       \* disk.free[]
  next,       \* disk.desc[].next, None where the chain ends
  b, status,  \* disk.info[]
  disk,       \* the processes whose b->disk is 1
  head,       \* idx[0] of the request of each process
  avail, avail_idx,  \* the available ring, written by the driver
  used, used_ring_idx,  \* the used ring, written by the device
  used_idx,   \* how far the driver has looked into it
  intr,       \* virtio_disk_intr() is running and holds vdisk_lock
  irq,        \* the device has an interrupt pending
  seen,       \* how far the device has looked into the available ring
  busy,       \* the requests the device is working on
  raise,      \* the device has yet to raise the interrupt of a completion
  chan, state, pc   \* p->chan, p->state and where each process is

ring == <<avail, avail_idx, used, used_ring_idx, used_idx>>
device == <<irq, seen, busy, raise>>
sched == <<chan, state, pc>>
vars == <<free, next, b, status, disk, head, ring, intr, device, sched>>

Descs == 0 .. NUM - 1
Indices == 0 .. IdxMod - 1

TypeOK ==
  /\ free \subseteq Descs
  /\ next \in [Descs -> Descs \cup {None}]
  /\ b \in [Descs -> Procs \cup {None}]
  /\ status \in [Descs -> {0, 255}]
  /\ disk \subseteq Procs
  /\ head \in [Procs -> Descs \cup {None}]
  /\ avail \in [Descs -> Descs] /\ avail_idx \in Indices
  /\ used \in [Descs -> Descs] /\ used_ring_idx \in Indices
  /\ used_idx \in Indices
  /\ intr \in BOOLEAN /\ irq \in BOOLEAN /\ raise \in BOOLEAN
  /\ seen \in Indices /\ busy \subseteq Descs
  /\ chan \in [Procs -> {"0", "free", "b"}]
  /\ state \in [Procs -> {"RUNNABLE", "SLEEPING"}]
  /\ pc \in [Procs -> {"idle", "alloc", "allocsleep", "wait", "waitsleep",
                       "panic"}]

\* virtio_disk_init()
Init ==
  /\ free = Descs
  /\ next = [d \in Descs |-> None]
  /\ b = [d \in Descs |-> None]
  /\ status = [d \in Descs |-> 0]
  /\ disk = {}
  /\ head = [p \in Procs |-> None]
  /\ avail = [d \in Descs |-> 0] /\ avail_idx = 0
  /\ used = [d \in Descs |-> 0] /\ used_ring_idx = 0
  /\ used_idx = 0
  /\ intr = FALSE /\ irq = FALSE /\ raise = FALSE
  /\ seen = 0 /\ busy = {}
  /\ chan = [p \in Procs |-> "0"]
  /\ state = [p \in Procs |-> "RUNNABLE"]
  /\ pc = [p \in Procs |-> "idle"]

\* wakeup(&disk.free[0]) and wakeup(b), for the processes W.
Wakeup(W) ==
  /\ chan' = [p \in Procs |-> IF p \in W THEN "0" ELSE chan[p]]
  /\ state' = [p \in Procs |-> IF p \in W THEN "RUNNABLE" ELSE state[p]]

OnFree == {p \in Procs : chan[p] = "free"}
-----------------------------------------------------------------------------
\* bread() or bwrite() of a buffer calls virtio_disk_rw().
Call(p) ==
  /\ pc[p] = "idle"
  /\ pc' = [pc EXCEPT ![p] = "alloc"]
  /\ UNCHANGED <<free, next, b, status, disk, head, ring, intr, device, chan,
                 state>>

\* alloc3_desc() fails: it gives back what it got, which wakes the others
\* who wait for descriptors; sleep_prepare(&disk.free[0]), release.
AllocFails(p) ==
  /\ pc[p] = "alloc" /\ state[p] = "RUNNABLE" /\ ~intr
  /\ Cardinality(free) < 3
  /\ chan' = [q \in Procs |-> CASE q = p -> "free"
                                [] q # p /\ free # {} /\ q \in OnFree -> "0"
                                [] OTHER -> chan[q]]
  /\ state' = [q \in Procs |-> IF free # {} /\ q \in OnFree THEN "RUNNABLE"
                                                            ELSE state[q]]
  /\ pc' = [pc EXCEPT ![p] = "allocsleep"]
  /\ next' = [d \in Descs |-> IF d \in free THEN None ELSE next[d]]
  /\ UNCHANGED <<free, b, status, disk, head, ring, intr, device>>

\* Wrong on purpose: the index is advanced before the ring is written.
RequestBadSlot(p) ==
  /\ pc[p] = "alloc" /\ state[p] = "RUNNABLE" /\ ~intr
  /\ Cardinality(free) >= 3
  /\ LET d0 == Min(free)
         d1 == Min(free \ {d0})
         d2 == Min(free \ {d0, d1})
     IN  /\ free' = free \ {d0, d1, d2}
         /\ next' = [next EXCEPT ![d0] = d1, ![d1] = d2, ![d2] = None]
         /\ status' = [status EXCEPT ![d0] = 255]
         /\ b' = [b EXCEPT ![d0] = p]
         /\ head' = [head EXCEPT ![p] = d0]
         /\ avail' = [avail EXCEPT ![(avail_idx + 1) % NUM] = d0]
  /\ disk' = disk \cup {p}
  /\ avail_idx' = (avail_idx + 1) % IdxMod
  /\ chan' = [chan EXCEPT ![p] = "b"]
  /\ pc' = [pc EXCEPT ![p] = "waitsleep"]
  /\ UNCHANGED <<used, used_ring_idx, used_idx, intr, device, state>>

\* Three descriptors are taken, chained and offered to the device, which is
\* notified; then sleep_prepare(b), release.
Request(p) ==
  /\ pc[p] = "alloc" /\ state[p] = "RUNNABLE" /\ ~intr
  /\ Cardinality(free) >= 3
  /\ LET d0 == Min(free)
         d1 == Min(free \ {d0})
         d2 == Min(free \ {d0, d1})
     IN  /\ free' = free \ {d0, d1, d2}
         /\ next' = [next EXCEPT ![d0] = d1, ![d1] = d2, ![d2] = None]
         /\ status' = [status EXCEPT ![d0] = 255]
         /\ b' = [b EXCEPT ![d0] = p]
         /\ head' = [head EXCEPT ![p] = d0]
         /\ avail' = [avail EXCEPT ![avail_idx % NUM] = d0]
  /\ disk' = disk \cup {p}
  /\ avail_idx' = (avail_idx + 1) % IdxMod
  /\ chan' = [chan EXCEPT ![p] = "b"]
  /\ pc' = [pc EXCEPT ![p] = "waitsleep"]
  /\ UNCHANGED <<used, used_ring_idx, used_idx, intr, device, state>>

\* sleep(), in both loops.
Sleep(p) ==
  /\ \/ pc[p] = "allocsleep" /\ pc' = [pc EXCEPT ![p] = "alloc"]
     \/ pc[p] = "waitsleep" /\ pc' = [pc EXCEPT ![p] = "wait"]
  /\ state' = [state EXCEPT ![p] = IF chan[p] # "0" THEN "SLEEPING" ELSE @]
  /\ UNCHANGED <<free, next, b, status, disk, head, ring, intr, device, chan>>

\* Awake, but b->disk is still 1: prepare to sleep again.
WaitMore(p) ==
  /\ pc[p] = "wait" /\ state[p] = "RUNNABLE" /\ ~intr
  /\ p \in disk
  /\ chan' = [chan EXCEPT ![p] = "b"]
  /\ pc' = [pc EXCEPT ![p] = "waitsleep"]
  /\ UNCHANGED <<free, next, b, status, disk, head, ring, intr, device, state>>

\* The descriptors of the request that starts with d (free_chain()).
Chain(d) == {d, next[d], next[next[d]]}

\* Wrong on purpose: the request is given up after the first wakeup.
FinishEarly(p) ==
  /\ pc[p] = "wait" /\ state[p] = "RUNNABLE" /\ ~intr
  /\ pc' = [pc EXCEPT ![p] = "idle"]
  /\ free' = free \cup Chain(head[p])
  /\ next' = [d \in Descs |-> IF d \in Chain(head[p]) THEN None ELSE next[d]]
  /\ b' = [b EXCEPT ![head[p]] = None]
  /\ head' = [head EXCEPT ![p] = None]
  /\ Wakeup(OnFree)
  /\ UNCHANGED <<status, disk, ring, intr, device>>

\* Wrong on purpose: free_desc() that does not wake up anybody.
FinishSilent(p) ==
  /\ pc[p] = "wait" /\ state[p] = "RUNNABLE" /\ ~intr
  /\ p \notin disk
  /\ pc' = [pc EXCEPT ![p] = "idle"]
  /\ free' = free \cup Chain(head[p])
  /\ next' = [d \in Descs |-> IF d \in Chain(head[p]) THEN None ELSE next[d]]
  /\ b' = [b EXCEPT ![head[p]] = None]
  /\ head' = [head EXCEPT ![p] = None]
  /\ UNCHANGED <<status, disk, ring, intr, device, chan, state>>

\* The request is done: free_chain(), whose free_desc() panics on a
\* descriptor that is free, and wakes those who wait for one.
Finish(p) ==
  /\ pc[p] = "wait" /\ state[p] = "RUNNABLE" /\ ~intr
  /\ p \notin disk
  /\ IF Chain(head[p]) \subseteq Descs \ free
       THEN /\ pc' = [pc EXCEPT ![p] = "idle"]
            /\ free' = free \cup Chain(head[p])
            /\ next' = [d \in Descs |->
                          IF d \in Chain(head[p]) THEN None ELSE next[d]]
            /\ b' = [b EXCEPT ![head[p]] = None]
            /\ head' = [head EXCEPT ![p] = None]
            /\ Wakeup(OnFree)
       ELSE /\ pc' = [pc EXCEPT ![p] = "panic"]
            /\ UNCHANGED <<free, next, b, head, chan, state>>
  /\ UNCHANGED <<status, disk, ring, intr, device>>

\* kkill() makes a sleeping process runnable.
KillWake(p) ==
  /\ state[p] = "SLEEPING"
  /\ state' = [state EXCEPT ![p] = "RUNNABLE"]
  /\ UNCHANGED <<free, next, b, status, disk, head, ring, intr, device, chan,
                 pc>>
-----------------------------------------------------------------------------
\* virtio_disk_intr(): take the lock and acknowledge the interrupt.
IntrStart ==
  /\ irq /\ ~intr
  /\ intr' = TRUE
  /\ irq' = FALSE
  /\ UNCHANGED <<free, next, b, status, disk, head, ring, seen, busy, raise,
                 sched>>

\* Wrong on purpose: one entry for each interrupt.
IntrEntryOnce ==
  /\ intr
  /\ used_idx # used_ring_idx
  /\ LET id == used[used_idx % NUM]
     IN  /\ status[id] = 0 /\ b[id] # None
         /\ disk' = disk \ {b[id]}
         /\ Wakeup({p \in {b[id]} : chan[p] = "b"})
  /\ intr' = FALSE
  /\ used_idx' = (used_idx + 1) % IdxMod
  /\ UNCHANGED <<free, next, b, status, head, avail, avail_idx, used,
                 used_ring_idx, device, pc>>

\* One entry of the used ring: the buffer is done with, wake its process.  A
\* bad status or a null b, on which the code panics or faults, is not a step:
\* NoRequestLost says that neither is found.
IntrEntry ==
  /\ intr
  /\ used_idx # used_ring_idx
  /\ LET id == used[used_idx % NUM]
     IN  /\ status[id] = 0 /\ b[id] # None
         /\ disk' = disk \ {b[id]}
         /\ Wakeup({p \in {b[id]} : chan[p] = "b"})
  /\ used_idx' = (used_idx + 1) % IdxMod
  /\ UNCHANGED <<free, next, b, status, head, avail, avail_idx, used,
                 used_ring_idx, intr, device, pc>>

\* No more entries: release.
IntrEnd ==
  /\ intr
  /\ used_idx = used_ring_idx
  /\ intr' = FALSE
  /\ UNCHANGED <<free, next, b, status, disk, head, ring, device, sched>>
-----------------------------------------------------------------------------
\* The device takes the next request from the available ring.
DeviceTakes ==
  /\ seen # avail_idx
  /\ busy' = busy \cup {avail[seen % NUM]}
  /\ seen' = (seen + 1) % IdxMod
  /\ UNCHANGED <<free, next, b, status, disk, head, ring, intr, irq, raise,
                 sched>>

\* The device has done one of its requests and adds it to the used ring.
DeviceCompletes(d) ==
  /\ d \in busy
  /\ busy' = busy \ {d}
  /\ status' = [status EXCEPT ![d] = 0]
  /\ used' = [used EXCEPT ![used_ring_idx % NUM] = d]
  /\ used_ring_idx' = (used_ring_idx + 1) % IdxMod
  /\ raise' = TRUE
  /\ UNCHANGED <<free, next, b, disk, head, avail, avail_idx, used_idx, intr,
                 irq, seen, sched>>

\* The device raises its interrupt.
DeviceRaises ==
  /\ raise
  /\ raise' = FALSE
  /\ irq' = TRUE
  /\ UNCHANGED <<free, next, b, status, disk, head, ring, intr, seen, busy,
                 sched>>
-----------------------------------------------------------------------------
Step(p) ==
  \/ AllocFails(p) \/ Request(p) \/ Sleep(p) \/ WaitMore(p) \/ Finish(p)

Handler == IntrStart \/ IntrEntry \/ IntrEnd

Device == DeviceTakes \/ (\E d \in Descs : DeviceCompletes(d)) \/ DeviceRaises

Next ==
  \/ \E p \in Procs : Call(p) \/ Step(p) \/ KillWake(p)
  \/ Handler
  \/ Device

Spec == Init /\ [][Next]_vars

-----------------------------------------------------------------------------
\* The heads of requests the device has been offered and not completed.
Distance(i, j) == (j - i) % IdxMod
Offered == {avail[(seen + k) % NUM] : k \in 0 .. Distance(seen, avail_idx) - 1}
Pending == Offered \cup busy

\* The heads the device has completed and the driver has not looked at.
Completed ==
  {used[(used_idx + k) % NUM] :
     k \in 0 .. Distance(used_idx, used_ring_idx) - 1}

(* The device works on the buffers of processes that wait for it, through  *)
(* descriptors that are not free and that no other request uses: neither a *)
(* buffer nor a descriptor is reused under the device's hands, whatever    *)
(* the order in which it completes the requests.                           *)
DmaSafe ==
  /\ \A d \in Pending :
       /\ b[d] # None /\ b[d] \in disk /\ head[b[d]] = d
       /\ Chain(d) \subseteq Descs \ free
  /\ \A p, q \in Procs :
       p # q /\ head[p] # None /\ head[q] # None
         => Chain(head[p]) \cap Chain(head[q]) = {}

(* A process whose b->disk is 1 has a request that the device has to       *)
(* complete or the driver has to see; when b->disk is 0 it is complete.    *)
(* What the driver finds in the used ring has a good status and a buffer,  *)
(* so virtio_disk_intr() does not panic.                                   *)
NoRequestLost ==
  /\ \A p \in Procs : pc[p] \in {"wait", "waitsleep"} =>
       IF p \in disk THEN head[p] \in Pending \cup Completed
                     ELSE status[head[p]] = 0 /\ head[p] \notin Pending
  /\ \A d \in Completed : status[d] = 0 /\ b[d] # None

(* An entry of the used ring that nobody has looked at will be looked at:  *)
(* the handler is running, or an interrupt is pending or about to be, even *)
(* if the acknowledgement races with a new completion.  And a process that *)
(* sleeps for its buffer, or is about to, has not been forgotten.          *)
NoCompletionMissed ==
  /\ Completed # {} => intr \/ irq \/ raise
  /\ \A p \in Procs :
       chan[p] = "b" /\ (pc[p] = "waitsleep" \/ state[p] = "SLEEPING")
         => p \in disk

(* No descriptor is lost or freed twice, which free_desc() would answer    *)
(* with a panic, and a process sleeps for descriptors only while requests  *)
(* hold them.                                                              *)
DescriptorsKept ==
  /\ free = Descs \ UNION {Chain(head[p]) : p \in {q \in Procs : head[q] # None}}
  /\ \A p \in OnFree : (pc[p] = "allocsleep" \/ state[p] = "SLEEPING")
        => Cardinality(free) < 3

=============================================================================
