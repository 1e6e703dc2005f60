------------------------------ MODULE Console ------------------------------
(***************************************************************************)
(* The console: line editing and the input buffer (kernel/console.c) and   *)
(* the UART driver (kernel/uart.c), with readers and writers, the          *)
(* interrupt handler and the device.                                       *)
(*                                                                         *)
(* cons.lock is explicit, for a read keeps it over all the characters it   *)
(* takes.  A process that has called sleep_prepare() is in chan until      *)
(* wakeup() clears it.  The handler echoes by spinning on the status       *)
(* register, without a lock that a writer would take.                      *)
(***************************************************************************)
EXTENDS Integers, Sequences

CONSTANTS Readers, Writers, NoProc,
          Victims,         \* processes that may be killed
          Handler,         \* the CPU that runs uartintr()
          INPUT_BUF_SIZE,
          IndexMod,        \* uint indices wrap around here
          Start,           \* the indices after earlier, finished lines
          Chars,           \* what the user types
          Counts,          \* the n of read()
          MaxTyped,        \* bound on the characters typed
          WriteLen         \* bytes in a write()

ASSUME ConsoleAssumption ==
  /\ NoProc \notin Readers \cup {Handler} /\ Handler \notin Readers
  /\ Readers \cap Writers = {}
  /\ INPUT_BUF_SIZE \in Nat \ {0}
  /\ IndexMod \in Nat /\ IndexMod > INPUT_BUF_SIZE
  /\ IndexMod % INPUT_BUF_SIZE = 0
  /\ Victims \subseteq Readers \cup Writers
  /\ Start \in 0 .. IndexMod - 1
  /\ MaxTyped \in Nat /\ WriteLen \in Nat
  /\ Counts \subseteq Nat \ {0}

VARIABLES cons,     \* buf and the indices r, w and e
          lock,     \* the holder of cons.lock
          rd,       \* where each reader is: pc, target and n
          wr,       \* where each writer is: pc and i
          txlock,   \* the holder of tx_lock
          chan,     \* the processes that have prepared to sleep
          killed,
          intr,     \* where uartintr() is, and its character
          uart,     \* the device: characters in, characters out, interrupt
          typed,    \* how many characters have been typed
          line      \* history: the input after editing that is not read yet

procs == <<rd, wr, txlock, chan, killed>>
vars == <<cons, lock, rd, wr, txlock, chan, killed, intr, uart, typed, line>>

Minus(a, b) == (a - b) % IndexMod
Slot(i) == i % INPUT_BUF_SIZE

Init ==
  /\ cons = [buf |-> [k \in 0 .. INPUT_BUF_SIZE - 1 |-> "nul"],
             r |-> Start, w |-> Start, e |-> Start]
  /\ lock = NoProc
  /\ rd = [p \in Readers |-> [pc |-> "idle", target |-> 0, n |-> 0]]
  /\ wr = [p \in Writers |-> [pc |-> "idle", i |-> 0]]
  /\ txlock = NoProc
  /\ chan = {} /\ killed = {}
  /\ intr = [pc |-> "idle", c |-> "nul"]
  /\ uart = [rx |-> <<>>, tx |-> <<>>, irq |-> FALSE]
  /\ typed = 0
  /\ line = <<>>

\* wakeup(): those of S that sleep run again.
Awake(f, S) == [p \in DOMAIN f |-> IF p \in S /\ f[p].pc = "asleep"
                                     THEN [f[p] EXCEPT !.pc = "woken"] ELSE f[p]]
-----------------------------------------------------------------------------
\* consoleread() of n bytes.
Read(p, n) ==
  /\ rd[p].pc = "idle" /\ p \notin killed
  /\ rd' = [rd EXCEPT ![p] = [pc |-> "acquire", target |-> n, n |-> n]]
  /\ UNCHANGED <<cons, lock, wr, txlock, chan, killed, intr, uart, typed, line>>

ReadAcquire(p) ==
  /\ rd[p].pc \in {"acquire", "woken"} /\ lock = NoProc
  /\ lock' = p
  /\ rd' = [rd EXCEPT ![p].pc = "loop"]
  /\ UNCHANGED <<cons, wr, txlock, chan, killed, intr, uart, typed, line>>

Return(p) == lock' = NoProc /\ rd' = [rd EXCEPT ![p].pc = "idle"]

\* There is no complete line: return -1 if killed, or prepare to sleep and
\* release the lock.
ReadWait(p) ==
  /\ rd[p].pc = "loop" /\ cons.r = cons.w
  /\ IF p \in killed THEN Return(p) /\ UNCHANGED chan
     ELSE /\ chan' = chan \cup {p}
          /\ lock' = NoProc
          /\ rd' = [rd EXCEPT ![p].pc = "sleep"]
  /\ UNCHANGED <<cons, wr, txlock, killed, intr, uart, typed, line>>

\* Take one character.  An end of file that does not come first stays for
\* the next read; fault: the copy to the user fails.
ReadChar(p, fault) ==
  LET c == cons.buf[Slot(cons.r)]
      keep == c = "eof" /\ rd[p].n < rd[p].target
  IN
  /\ rd[p].pc = "loop" /\ cons.r # cons.w
  /\ cons' = IF keep THEN cons ELSE [cons EXCEPT !.r = (@ + 1) % IndexMod]
  /\ line' = IF keep THEN line ELSE Tail(line)
  /\ IF c = "eof" \/ fault \/ c = "nl" \/ rd[p].n = 1
       THEN Return(p)
       ELSE rd' = [rd EXCEPT ![p].n = @ - 1] /\ UNCHANGED lock
  /\ UNCHANGED <<wr, txlock, chan, killed, intr, uart, typed>>

\* sleep(), which returns at once if a wakeup() came in between.
ReadSleep(p) ==
  /\ rd[p].pc = "sleep"
  /\ rd' = [rd EXCEPT ![p].pc = IF p \in chan THEN "asleep" ELSE "woken"]
  /\ UNCHANGED <<cons, lock, wr, txlock, chan, killed, intr, uart, typed, line>>

\* kkill(): the victim wakes up but stays in chan.
Kill(p) ==
  /\ p \notin killed
  /\ killed' = killed \cup {p}
  /\ rd' = Awake(rd, {p}) /\ wr' = Awake(wr, {p})
  /\ UNCHANGED <<cons, lock, txlock, chan, intr, uart, typed, line>>
-----------------------------------------------------------------------------
\* consolewrite(), and acquiresleep(&tx_lock) in uartwrite(); a writer makes
\* one call.
Write(p) ==
  /\ wr[p].pc = "idle" /\ txlock = NoProc
  /\ txlock' = p
  /\ wr' = [wr EXCEPT ![p].pc = "prepare"]
  /\ UNCHANGED <<cons, lock, rd, chan, killed, intr, uart, typed, line>>

\* sleep_prepare(&tx_chan) for the next byte.
WritePrepare(p) ==
  /\ wr[p].pc \in {"prepare", "woken"} /\ wr[p].i < WriteLen
  /\ chan' = chan \cup {p}
  /\ wr' = [wr EXCEPT ![p].pc = "test"]
  /\ UNCHANGED <<cons, lock, rd, txlock, killed, intr, uart, typed, line>>

\* The test of the status register.
WriteTest(p) ==
  /\ wr[p].pc = "test"
  /\ wr' = [wr EXCEPT ![p].pc = IF uart.tx = <<>> THEN "thr" ELSE "sleep"]
  /\ UNCHANGED <<cons, lock, rd, txlock, chan, killed, intr, uart, typed, line>>

\* The write of the data register; an echo may have been faster.
WriteThr(p) ==
  /\ wr[p].pc = "thr"
  /\ uart' = [uart EXCEPT !.tx = Append(@, p)]
  /\ wr' = [wr EXCEPT ![p].pc = "prepare", ![p].i = @ + 1]
  /\ UNCHANGED <<cons, lock, rd, txlock, chan, killed, intr, typed, line>>

\* Wrong on purpose: sleep() although the interrupt has come since.
WriteSleepAlways(p) ==
  /\ wr[p].pc = "sleep"
  /\ wr' = [wr EXCEPT ![p].pc = "asleep"]
  /\ UNCHANGED <<cons, lock, rd, txlock, chan, killed, intr, uart, typed, line>>

WriteSleep(p) ==
  /\ wr[p].pc = "sleep"
  /\ wr' = [wr EXCEPT ![p].pc = IF p \in chan THEN "asleep" ELSE "woken"]
  /\ UNCHANGED <<cons, lock, rd, txlock, chan, killed, intr, uart, typed, line>>

\* releasesleep(&tx_lock); p is still in chan.
WriteEnd(p) ==
  /\ wr[p].pc = "prepare" /\ wr[p].i = WriteLen
  /\ txlock' = NoProc
  /\ wr' = [wr EXCEPT ![p].pc = "done"]
  /\ UNCHANGED <<cons, lock, rd, chan, killed, intr, uart, typed, line>>
-----------------------------------------------------------------------------
\* The device: a character arrives; one is sent.  The interrupt of the
\* transmitter comes when it has nothing left to send.
Type(c) ==
  /\ typed < MaxTyped /\ uart.rx = <<>>
  /\ uart' = [uart EXCEPT !.rx = <<c>>, !.irq = TRUE]
  /\ typed' = typed + 1
  /\ UNCHANGED <<cons, lock, procs, intr, line>>

Send ==
  /\ uart.tx # <<>>
  /\ uart' = [uart EXCEPT !.tx = Tail(@), !.irq = @ \/ Len(uart.tx) = 1]
  /\ UNCHANGED <<cons, lock, procs, intr, typed, line>>

\* uartintr(): acknowledge.
IntrStart ==
  /\ intr.pc = "idle" /\ uart.irq
  /\ uart' = [uart EXCEPT !.irq = FALSE]
  /\ intr' = [intr EXCEPT !.pc = "status"]
  /\ UNCHANGED <<cons, lock, procs, typed, line>>

\* wakeup(&tx_chan) if the transmitter is idle.
IntrTx ==
  /\ intr.pc = "status"
  /\ IF uart.tx = <<>> THEN chan' = chan \ Writers /\ wr' = Awake(wr, chan)
                       ELSE UNCHANGED <<chan, wr>>
  /\ intr' = [intr EXCEPT !.pc = "getc"]
  /\ UNCHANGED <<cons, lock, rd, txlock, killed, uart, typed, line>>

\* uartgetc(); consoleintr() begins, with the lock.
IntrGetc ==
  /\ intr.pc = "getc"
  /\ IF uart.rx = <<>>
       THEN intr' = [intr EXCEPT !.pc = "idle"] /\ UNCHANGED <<uart, lock>>
       ELSE /\ lock = NoProc /\ lock' = Handler
            /\ intr' = [pc |-> "char", c |-> Head(uart.rx)]
            /\ uart' = [uart EXCEPT !.rx = Tail(@)]
  /\ UNCHANGED <<cons, procs, typed, line>>

Front(s) == SubSeq(s, 1, Len(s) - 1)

\* Wrong on purpose: one character too many.
RoomFor1 == Minus(cons.e, cons.r) <= INPUT_BUF_SIZE

Room == Minus(cons.e, cons.r) < INPUT_BUF_SIZE

\* consoleintr(): erase a character, by backspace or as part of a line.
Erases ==
  /\ intr.c \in {"kill", "bs"} /\ cons.e # cons.w
  /\ intr.c = "kill" => cons.buf[Slot(Minus(cons.e, 1))] # "nl"
Erase ==
  /\ intr.pc = "char" /\ Erases
  /\ cons' = [cons EXCEPT !.e = Minus(@, 1)]
  /\ line' = Front(line)
  /\ intr' = [intr EXCEPT !.pc = "spin"]
  /\ UNCHANGED <<lock, procs, uart, typed>>

\* A character that is stored, but echoed first.
Stores == intr.c \notin {"kill", "bs", "dump", "nul"} /\ Room
Echo ==
  /\ intr.pc = "char" /\ Stores
  /\ intr' = [intr EXCEPT !.pc = "spin"]
  /\ UNCHANGED <<cons, lock, procs, uart, typed, line>>

\* uartputc_sync(): spin on the status register, then write.
Spin ==
  /\ intr.pc = "spin" /\ uart.tx = <<>>
  /\ intr' = [intr EXCEPT !.pc = "put"]
  /\ UNCHANGED <<cons, lock, procs, uart, typed, line>>

\* The echo is out: go on with the line that is killed, or store.
Put ==
  /\ intr.pc = "put"
  /\ uart' = [uart EXCEPT !.tx = Append(@, Handler)]
  /\ intr' = [intr EXCEPT !.pc = CASE intr.c = "kill" -> "char"
                                    [] intr.c = "bs" -> "release"
                                    [] OTHER -> "store"]
  /\ UNCHANGED <<cons, lock, procs, typed, line>>

\* Store the character; a line end, an end of file or a full buffer makes
\* the input available and wakes the readers; then release().
Store ==
  LET c == IF intr.c = "cr" THEN "nl" ELSE intr.c
      e == (cons.e + 1) % IndexMod
      whole == c \in {"nl", "eof"} \/ Minus(e, cons.r) = INPUT_BUF_SIZE
  IN
  /\ intr.pc = "store"
  /\ cons' = [cons EXCEPT !.buf[Slot(cons.e)] = c, !.e = e,
                          !.w = IF whole THEN e ELSE @]
  /\ line' = Append(line, c)
  /\ IF whole THEN chan' = chan \ Readers /\ rd' = Awake(rd, chan)
              ELSE UNCHANGED <<chan, rd>>
  /\ lock' = NoProc
  /\ intr' = [pc |-> "getc", c |-> "nul"]
  /\ UNCHANGED <<wr, txlock, killed, uart, typed>>

\* release() after an erase, or for a character that does nothing
\* (procdump() changes nothing).
Release ==
  /\ intr.pc = "release" \/ (intr.pc = "char" /\ ~Erases /\ ~Stores)
  /\ lock' = NoProc
  /\ intr' = [pc |-> "getc", c |-> "nul"]
  /\ UNCHANGED <<cons, procs, uart, typed, line>>
-----------------------------------------------------------------------------
ReadStep(p) ==
  \/ ReadAcquire(p) \/ ReadWait(p) \/ ReadChar(p, FALSE) \/ ReadSleep(p)
WriteStep(p) ==
  \/ Write(p) \/ WritePrepare(p) \/ WriteTest(p) \/ WriteThr(p)
  \/ WriteSleep(p) \/ WriteEnd(p)
IntrStep ==
  \/ IntrStart \/ IntrTx \/ IntrGetc \/ Erase \/ Echo \/ Spin \/ Put \/ Store
  \/ Release

Next ==
  \/ \E p \in Readers : ReadStep(p) \/ ReadChar(p, TRUE)
                        \/ \E n \in Counts : Read(p, n)
  \/ \E p \in Writers : WriteStep(p)
  \/ \E p \in Victims : Kill(p)
  \/ (\E c \in Chars : Type(c)) \/ Send
  \/ IntrStep

\* Processes are scheduled, interrupts are taken, and the device sends.
Fairness ==
  /\ \A p \in Readers : WF_vars(ReadStep(p))
  /\ \A p \in Writers : WF_vars(WriteStep(p))
  /\ WF_vars(IntrStep) /\ WF_vars(Send)

Spec == Init /\ [][Next]_vars /\ Fairness
-----------------------------------------------------------------------------
(* The buffer holds, from r to e, the edited input that nobody has read    *)
(* yet, in order, whatever wraps around or is erased; what may be read, up *)
(* to w, is a part of it; and no reader stays in its sleep when there is   *)
(* something to read.                                                      *)
InputKept ==
  LET n == Minus(cons.e, cons.r) IN
  /\ n <= INPUT_BUF_SIZE /\ Minus(cons.w, cons.r) <= n
  /\ line = [k \in 1 .. n |-> cons.buf[Slot(cons.r + k - 1)]]
  /\ \A p \in chan \cap Readers :
       rd[p].pc \in {"sleep", "asleep"} => cons.r = cons.w

(* A write() to the console ends: the interrupt of the transmitter wakes   *)
(* the writer however it falls between sleep_prepare(), the test of the    *)
(* status register and sleep(), and whatever is echoed meanwhile.  A read  *)
(* that can be answered is: its process does not stay where it waits.      *)
CallsEnd ==
  /\ \A p \in Writers : <>(wr[p].pc = "done")
  /\ \A p \in Readers : (rd[p].pc # "idle" /\ cons.r # cons.w)
                          ~> (rd[p].pc = "idle" \/ cons.r = cons.w)
=============================================================================
