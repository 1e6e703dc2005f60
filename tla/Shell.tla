------------------------------- MODULE Shell -------------------------------
(***************************************************************************)
(* The shell, user/sh.c: the parser of a command line, the tree it builds, *)
(* and runcmd(), which walks the tree with fork, pipe, close, dup, open,   *)
(* exec and wait.  A line is a sequence of tokens (gettoken()'s words and  *)
(* symbols; white space is gone) and the parser's pointer s an index into  *)
(* it.  A word is kept as its index, as argv[] and eargv[] are, and what   *)
(* string it denotes depends on the NULs nulterminate() has written.       *)
(*                                                                         *)
(* The kernel is modelled as runcmd() uses it: descriptor tables with the  *)
(* lowest free descriptor given out, pipes that give end of file when no   *)
(* descriptor of the write end is left and refuse bytes when none of the   *)
(* read end is, fork, exit, wait.  The programs are readers (read their    *)
(* input to its end), writers (write WriteLen bytes) or both, one byte at  *)
(* a time (cat).  A read of the console or of a file meets its end.        *)
(*                                                                         *)
(* A process and a pipe are named after the place in the tree where they   *)
(* are made: <<line, branch, branch, ...>>.                                *)
(***************************************************************************)
EXTENDS Naturals, Sequences, FiniteSets, SequencesExt

CONSTANTS Inputs,      \* bound: Inputs[n] is what may be typed as the n-th line:
                       \* [line, tree] with the tree that the line means, NoTree
                       \* for one that is not a command
          Readers,     \* the programs that read their input to its end
          Writers,     \* the programs that write (cat is in both)
          WriteLen,    \* how much a program that only writes has to say
          PipeSize,    \* bytes a pipe holds
          MaxArgs      \* MAXARGS

VARIABLES typed,       \* the inputs read so far
          shell,       \* the shell itself: "prompt", "wait", "exited"
          procs,       \* its descendants, by name
          pipes        \* bytes in each pipe, by name

vars == <<typed, shell, procs, pipes>>

NOFILE == 6
Fds == 0..NOFILE-1
Nil == <<"closed">>
Tty == <<"console">>
NoTree == [type |-> "none"]
Init0 == <<>>          \* the name of init; the shell is <<0>>
Shell0 == <<0>>

-----------------------------------------------------------------------------
(* Constructors.  panic() ends the process, so a tree with a Panic in it is *)
(* never used: the constructors pass it on.                                 *)

Panic == [type |-> "PANIC"]

execcmd(argv) == [type |-> "EXEC", argv |-> argv]

redircmd(sub, file, fd) ==
    IF sub = Panic THEN Panic
    ELSE [type |-> "REDIR", cmd |-> sub, file |-> file, fd |-> fd]

pipecmd(l, r) ==
    IF Panic \in {l, r} THEN Panic ELSE [type |-> "PIPE", left |-> l, right |-> r]

listcmd(l, r) ==
    IF Panic \in {l, r} THEN Panic ELSE [type |-> "LIST", left |-> l, right |-> r]

backcmd(sub) == IF sub = Panic THEN Panic ELSE [type |-> "BACK", cmd |-> sub]

-----------------------------------------------------------------------------
(* The parser.  Every function returns the tree and the new s; a panic is  *)
(* the tree Panic with s at the end of the line, where every loop stops.   *)

Symbols == {"<", ">", ">>", "|", "&", ";", "(", ")"}

At(line, s) == IF s <= Len(line) THEN line[s] ELSE "NUL"
peek(line, s, toks) == At(line, s) \in toks
IsWord(line, s) == At(line, s) \notin Symbols \cup {"NUL"}
Fail(line) == [cmd |-> Panic, s |-> Len(line) + 1]

RECURSIVE parseredirs(_, _, _), parseargs(_, _, _, _), Redirected(_, _)
RECURSIVE Backs(_, _, _), parsepipe(_, _), parseline(_, _)

parseredirs(line, cmd, s) ==
    IF ~peek(line, s, {"<", ">", ">>"}) THEN [cmd |-> cmd, s |-> s]
    ELSE IF ~IsWord(line, s + 1) THEN Fail(line)
    ELSE parseredirs(line,
                     redircmd(cmd, s + 1, IF line[s] = "<" THEN 0 ELSE 1),
                     s + 2)

(* parseexec() fills argv of a node it has already wrapped in redirections: *)
(* Redirected puts the finished node in its place.                          *)
Redirected(cmd, argv) ==
    IF cmd.type = "REDIR" THEN [cmd EXCEPT !.cmd = Redirected(@, argv)]
    ELSE IF cmd = Panic THEN Panic
    ELSE execcmd(argv)

parseargs(line, ret, argv, s) ==
    IF peek(line, s, {"|", ")", "&", ";"}) \/ At(line, s) = "NUL"
    THEN [cmd |-> Redirected(ret, argv), s |-> s]
    ELSE IF ~IsWord(line, s) \/ Len(argv) + 1 >= MaxArgs THEN Fail(line)
    ELSE LET r == parseredirs(line, ret, s + 1)
         IN  parseargs(line, r.cmd, Append(argv, s), r.s)

parseblock(line, s) ==
    LET r == parseline(line, s + 1)
    IN  IF ~peek(line, r.s, {")"}) THEN Fail(line)
        ELSE parseredirs(line, r.cmd, r.s + 1)

parseexec(line, s) ==
    IF peek(line, s, {"("}) THEN parseblock(line, s)
    ELSE LET r == parseredirs(line, execcmd(<<>>), s)
         IN  parseargs(line, r.cmd, <<>>, r.s)

parsepipe(line, s) ==
    LET l == parseexec(line, s)
    IN  IF ~peek(line, l.s, {"|"}) THEN l
        ELSE LET r == parsepipe(line, l.s + 1)
             IN  [cmd |-> pipecmd(l.cmd, r.cmd), s |-> r.s]

Backs(line, cmd, s) ==
    IF peek(line, s, {"&"}) THEN Backs(line, backcmd(cmd), s + 1)
    ELSE [cmd |-> cmd, s |-> s]

parseline(line, s) ==
    LET p == parsepipe(line, s)
        l == Backs(line, p.cmd, p.s)
    IN  IF ~peek(line, l.s, {";"}) THEN l
        ELSE LET r == parseline(line, l.s + 1)
             IN  [cmd |-> listcmd(l.cmd, r.cmd), s |-> r.s]

parsecmd(line) ==
    LET r == parseline(line, 1)
    IN  IF r.s = Len(line) + 1 THEN r.cmd ELSE Panic   \* leftovers

(* The trees of the lines that may be typed.                                *)
Parsed == [line \in {in.line : in \in UNION Range(Inputs)} |-> parsecmd(line)]

(* The words behind which nulterminate() writes a NUL.                      *)
RECURSIVE nulterminate(_), NulNoFile(_)

\* Wrong on purpose: the name of the file of a redirection is not terminated.
NulNoFile(cmd) ==
    CASE cmd.type = "EXEC"  -> ToSet(cmd.argv)
      [] cmd.type \in {"REDIR", "BACK"} -> NulNoFile(cmd.cmd)
      [] cmd.type \in {"PIPE", "LIST"} -> NulNoFile(cmd.left) \cup NulNoFile(cmd.right)

nulterminate(cmd) ==
    CASE cmd.type = "EXEC"  -> ToSet(cmd.argv)
      [] cmd.type = "REDIR" -> {cmd.file} \cup nulterminate(cmd.cmd)
      [] cmd.type \in {"PIPE", "LIST"} ->
            nulterminate(cmd.left) \cup nulterminate(cmd.right)
      [] cmd.type = "BACK"  -> nulterminate(cmd.cmd)

(* The string that starts at word q: it runs to the first NUL.              *)
Str(line, nuls, q) ==
    LET last == CHOOSE e \in q..Len(line) :
                   /\ e \in nuls \cup {Len(line)}
                   /\ \A d \in q..e-1 : d \notin nuls
    IN  SubSeq(line, q, last)

-----------------------------------------------------------------------------
(* Descriptors and processes.                                               *)

Lowest(fds) == CHOOSE f \in Fds : fds[f] = Nil /\ \A g \in 0..f-1 : fds[g] # Nil
Close(fds, f) == [fds EXCEPT ![f] = Nil]
Open(fds, x) == [fds EXCEPT ![Lowest(fds)] = x]

Live(p) == procs[p].at # "zombie"
Holders(x) == {p \in DOMAIN procs : Live(p) /\ \E f \in Fds : procs[p].fds[f] = x}

Parent(p) == procs[p].parent
Kids(p) == {q \in DOMAIN procs : Parent(q) = p}

Without(f, S) == [x \in DOMAIN f \ S |-> f[x]]
With(f, x, v) == [y \in DOMAIN f \cup {x} |-> IF y = x THEN v ELSE f[y]]

(* exit(): the descriptors are closed, the children go to init, which reaps *)
(* every one that ends; p is a zombie until its parent has waited for it.   *)
Exited(p) ==
    LET gone == {q \in Kids(p) : ~Live(q)}
                  \cup (IF Parent(p) = Init0 THEN {p} ELSE {})
        all  == [q \in DOMAIN procs |->
                   IF q = p THEN [procs[p] EXCEPT !.at = "zombie",
                                                  !.fds = [f \in Fds |-> Nil]]
                   ELSE IF Parent(q) = p THEN [procs[q] EXCEPT !.parent = Init0]
                   ELSE procs[q]]
    IN  Without(all, gone)

Exit(p) == procs' = Exited(p)

(* fork1() in process p, which goes on at `at`: the child gets the subtree  *)
(* sub, the place i below p's place, and copies of p's descriptors.         *)
fork1(p, i, sub, childAt, at) ==
    \/ procs' = With([procs EXCEPT ![p].at = at], Append(procs[p].pos, i),
                     [procs[p] EXCEPT !.cmd = sub, !.at = childAt,
                                      !.pos = Append(@, i), !.parent = p])
    \/ Exit(p)                                       \* panic("fork")

-----------------------------------------------------------------------------
(* main() and getcmd().                                                     *)

ShellFds == [f \in Fds |-> IF f <= 2 THEN Tty ELSE Nil]

Init ==
    /\ typed = <<>>
    /\ shell = "prompt"
    /\ procs = <<>>
    /\ pipes = <<>>

(* The shell's child: it parses the line and runs the tree.                 *)
Child(in) ==
    [at |-> "parse", cmd |-> NoTree, pos |-> <<Len(typed) + 1>>, fds |-> ShellFds,
     parent |-> Shell0, line |-> in.line, nuls |-> {}, owes |-> 0]

(* A line is read: cd is done by the shell itself, a blank line does        *)
(* nothing, for any other the shell forks; when it cannot, it panics.  It   *)
(* has no child at that moment.                                             *)
getcmd ==
    /\ shell = "prompt" /\ Len(typed) < Len(Inputs)
    /\ \E in \in Inputs[Len(typed) + 1] :
         /\ typed' = Append(typed, in)
         /\ \/ /\ At(in.line, 1) \in {"NUL", "cd"}
               /\ UNCHANGED <<shell, procs>>
            \/ /\ At(in.line, 1) \notin {"NUL", "cd"}
               /\ procs' = With(procs, <<Len(typed) + 1>>, Child(in))
               /\ shell' = "wait"
            \/ /\ At(in.line, 1) \notin {"NUL", "cd"}
               /\ shell' = "exited"                  \* panic("fork")
               /\ UNCHANGED procs
    /\ UNCHANGED pipes

GetcmdEof ==
    /\ shell = "prompt"
    /\ shell' = "exited"
    /\ UNCHANGED <<typed, procs, pipes>>

ShellWait ==
    /\ shell = "wait"
    /\ \E q \in Kids(Shell0) : ~Live(q) /\ procs' = Without(procs, {q})
    /\ shell' = "prompt"
    /\ UNCHANGED <<typed, pipes>>

(* runcmd(parsecmd(cmd)) in the child; panic() ends it.                     *)
Parse(p) ==
    LET cmd == Parsed[procs[p].line]
    IN  /\ procs[p].at = "parse"
        /\ \/ cmd = Panic /\ Exit(p)
           \/ /\ cmd # Panic
              /\ procs' = [procs EXCEPT ![p].at = "run", ![p].cmd = cmd,
                                        ![p].nuls = nulterminate(cmd)]
        /\ UNCHANGED <<typed, shell, pipes>>

-----------------------------------------------------------------------------
(* runcmd(), one action per node type and per call that others can notice.  *)

Runs(p, type) == procs[p].at = "run" /\ procs[p].cmd.type = type

StrOf(p, q) == Str(procs[p].line, procs[p].nuls, q)
Programs == {<<w>> : w \in Readers \cup Writers}

(* An empty command, a name exec() does not find, or exec() fails: exit.    *)
RunExec(p) ==
    LET argv == [i \in DOMAIN procs[p].cmd.argv |-> StrOf(p, procs[p].cmd.argv[i])]
    IN  /\ Runs(p, "EXEC")
        /\ \/ Exit(p)
           \/ /\ argv # <<>> /\ argv[1] \in Programs
              /\ procs' = [procs EXCEPT
                    ![p].at = "program",
                    ![p].cmd = [type |-> "program", argv |-> argv],
                    ![p].owes = IF argv[1][1] \in Readers THEN 0 ELSE WriteLen]
        /\ UNCHANGED <<typed, shell, pipes>>

(* close(fd), then open() must return the same descriptor.                  *)
RunRedir(p) ==
    LET c == procs[p].cmd
    IN  /\ Runs(p, "REDIR")
        /\ \/ Exit(p)                                \* open failed
           \/ procs' = [procs EXCEPT
                 ![p].cmd = c.cmd, ![p].pos = Append(@, 1),
                 ![p].fds = Open(Close(@, c.fd), <<"file", StrOf(p, c.file)>>)]
        /\ UNCHANGED <<typed, shell, pipes>>

RunList(p) ==
    /\ Runs(p, "LIST")
    /\ fork1(p, 1, procs[p].cmd.left, "run", "list")
    /\ UNCHANGED <<typed, shell, pipes>>

(* wait(0) reaps a child that has ended; whoever waits has a child left.    *)
Wait(p, next) ==
    \E q \in Kids(p) : /\ ~Live(q)
                       /\ procs' = Without([procs EXCEPT ![p] = next], {q})

ListWait(p) ==
    /\ procs[p].at = "list"
    /\ Wait(p, [procs[p] EXCEPT !.at = "run", !.cmd = @.right,
                                !.pos = Append(@, 2)])
    /\ UNCHANGED <<typed, shell, pipes>>

RunBack(p) ==
    /\ Runs(p, "BACK")
    /\ fork1(p, 1, procs[p].cmd.cmd, "run", "exit")
    /\ UNCHANGED <<typed, shell, pipes>>

ReadEnd(p)  == <<"r", procs[p].pos>>
WriteEnd(p) == <<"w", procs[p].pos>>

(* pipe() fails when no file or page is left.                               *)
RunPipe(p) ==
    /\ Runs(p, "PIPE")
    /\ \/ Exit(p) /\ UNCHANGED pipes                 \* panic("pipe")
       \/ /\ procs' = [procs EXCEPT ![p].at = "left",
                ![p].fds = Open(Open(@, ReadEnd(p)), WriteEnd(p))]
          /\ pipes' = With(pipes, procs[p].pos, 0)
    /\ UNCHANGED <<typed, shell>>

ForkLeft(p) ==
    /\ procs[p].at = "left"
    /\ fork1(p, 1, procs[p].cmd.left, "wire", "right")
    /\ UNCHANGED <<typed, shell, pipes>>

ForkRight(p) ==
    /\ procs[p].at = "right"
    /\ fork1(p, 2, procs[p].cmd.right, "wire", "close")
    /\ UNCHANGED <<typed, shell, pipes>>

(* The descriptor of end x of a pipe above the standard ones: p[0], p[1].   *)
FdOf(fds, x) == CHOOSE f \in 3..NOFILE-1 : fds[f] = x

CloseEnds(fds, r, w) == Close(Close(fds, FdOf(fds, r)), FdOf(fds, w))

(* The child of a pipeline: close(1) and dup(p[1]), or close(0) and         *)
(* dup(p[0]), then both ends are closed.  No call blocks, and until the     *)
(* last the process only holds ends that it held before.                    *)
PipeChild(p) ==
    LET up    == Front(procs[p].pos)
        right == Last(procs[p].pos) = 2
        std   == IF right THEN 0 ELSE 1
        end   == <<IF right THEN "r" ELSE "w", up>>
    IN  /\ procs[p].at = "wire"
        /\ procs' = [procs EXCEPT ![p].at = "run",
              ![p].fds = CloseEnds(Open(Close(@, std), end), <<"r", up>>, <<"w", up>>)]
        /\ UNCHANGED <<typed, shell, pipes>>

\* Wrong on purpose: the parent of a pipeline keeps p[1].
PipeKeepsEnd(p) ==
    /\ procs[p].at = "close"
    /\ procs' = [procs EXCEPT ![p].at = "wait1",
                              ![p].fds = Close(@, FdOf(@, ReadEnd(p)))]
    /\ UNCHANGED <<typed, shell, pipes>>

PipeClose(p) ==
    /\ procs[p].at = "close"
    /\ procs' = [procs EXCEPT ![p].at = "wait1",
                              ![p].fds = CloseEnds(@, ReadEnd(p), WriteEnd(p))]
    /\ UNCHANGED <<typed, shell, pipes>>

PipeWait(p) ==
    /\ \/ procs[p].at = "wait1" /\ Wait(p, [procs[p] EXCEPT !.at = "wait2"])
       \/ procs[p].at = "wait2" /\ Wait(p, [procs[p] EXCEPT !.at = "exit"])
    /\ UNCHANGED <<typed, shell, pipes>>

(* exit(0) behind the switch.                                               *)
RunExit(p) ==
    /\ procs[p].at = "exit"
    /\ Exit(p)
    /\ UNCHANGED <<typed, shell, pipes>>

-----------------------------------------------------------------------------
(* The programs, one byte at a time, and the pipes below them.              *)

IsPipe(x) == x[1] \in {"r", "w"}
In(p)  == procs[p].fds[0]
Out(p) == procs[p].fds[1]
Word(p) == procs[p].cmd.argv[1][1]

Program(p) ==
    LET took(n) == [procs EXCEPT ![p].owes = n]
    IN  /\ procs[p].at = "program"
        /\ \/ /\ procs[p].owes > 0                          \* write
              /\ \/ /\ IsPipe(Out(p)) /\ Holders(<<"r", Out(p)[2]>>) = {}
                    /\ Exit(p) /\ UNCHANGED pipes
                 \/ /\ IsPipe(Out(p)) /\ Holders(<<"r", Out(p)[2]>>) # {}
                    /\ pipes[Out(p)[2]] < PipeSize
                    /\ pipes' = [pipes EXCEPT ![Out(p)[2]] = @ + 1]
                    /\ procs' = took(procs[p].owes - 1)
                 \/ /\ ~IsPipe(Out(p))
                    /\ procs' = took(procs[p].owes - 1) /\ UNCHANGED pipes
           \/ /\ procs[p].owes = 0 /\ Word(p) \in Readers   \* read
              /\ \/ /\ IsPipe(In(p)) /\ pipes[In(p)[2]] > 0
                    /\ pipes' = [pipes EXCEPT ![In(p)[2]] = @ - 1]
                    /\ procs' = took(IF Word(p) \in Writers THEN 1 ELSE 0)
                 \/ /\ IsPipe(In(p)) =>
                         pipes[In(p)[2]] = 0 /\ Holders(<<"w", In(p)[2]>>) = {}
                    /\ Exit(p) /\ UNCHANGED pipes
           \/ /\ procs[p].owes = 0 /\ Word(p) \notin Readers
              /\ Exit(p) /\ UNCHANGED pipes
        /\ UNCHANGED <<typed, shell>>

Run(p) ==
    \/ Parse(p) \/ RunExec(p) \/ RunRedir(p) \/ RunList(p) \/ ListWait(p)
    \/ RunBack(p) \/ RunPipe(p) \/ ForkLeft(p) \/ ForkRight(p) \/ PipeChild(p)
    \/ PipeClose(p) \/ PipeWait(p) \/ RunExit(p) \/ Program(p)

Typing == getcmd \/ GetcmdEof

System == ShellWait \/ \E p \in DOMAIN procs : Run(p)

Next == Typing \/ System

Spec == Init /\ [][Next]_vars

(* Some process that can run does: the scheduler is never idle while a      *)
(* process is runnable.  Nobody is obliged to type.                         *)
FairSpec == Spec /\ WF_vars(System)

-----------------------------------------------------------------------------
(* What a command means: each program with its arguments, its input and its *)
(* output; the pipe of a | at place pos is called pos.                      *)
RECURSIVE Meaning(_, _, _, _)
Meaning(t, pos, in, out) ==
    LET l == Append(pos, 1)
        r == Append(pos, 2)
    IN  CASE t.type = "EXEC"  ->
               {[argv |-> [i \in DOMAIN t.argv |-> <<t.argv[i]>>],
                 in |-> in, out |-> out]}
          [] t.type = "REDIR" ->
               IF t.fd = 0 THEN Meaning(t.cmd, l, <<"file", <<t.file>>>>, out)
                           ELSE Meaning(t.cmd, l, in, <<"file", <<t.file>>>>)
          [] t.type = "PIPE"  -> Meaning(t.left, l, in, <<"w", pos>>)
                                   \cup Meaning(t.right, r, <<"r", pos>>, out)
          [] t.type = "LIST"  -> Meaning(t.left, l, in, out)
                                   \cup Meaning(t.right, r, in, out)
          [] t.type = "BACK"  -> Meaning(t.cmd, l, in, out)
          [] t.type = "none"  -> {}

(* A program that starts has the arguments, the input and the output that   *)
(* its command line means, and no other descriptor than the console for its *)
(* errors: the parser has found the structure of the line, nulterminate()   *)
(* has ended every string, and the calls of runcmd() in every process above *)
(* it have left no end of a pipe behind.  A line that is no command starts  *)
(* nothing.                                                                 *)
Wired ==
    \A p \in DOMAIN procs : procs[p].at = "program" =>
        LET n == procs[p].pos[1]
        IN  /\ [argv |-> procs[p].cmd.argv, in |-> In(p), out |-> Out(p)]
                 \in Meaning(typed[n].tree, <<n>>, Tty, Tty)
            /\ procs[p].fds[2] = Tty
            /\ \A f \in 3..NOFILE-1 : procs[p].fds[f] = Nil

(* A command line in the foreground ends and the shell prompts again, as    *)
(* long as the programs do: every reader of a pipe gets its end of file and *)
(* no writer waits for a reader that is gone, since no process of the       *)
(* pipeline keeps an end open that it does not use, and every wait() finds  *)
(* the child it waits for, also when a fork, an open or an exec has failed. *)
PromptReturns == (shell = "wait") ~> (shell = "prompt")
=============================================================================
