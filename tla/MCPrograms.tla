----------------------------- MODULE MCPrograms -----------------------------
(***************************************************************************)
(* The user programs, each on its own instance: a behaviour runs one of    *)
(* them and leaves the state of the others alone.                          *)
(***************************************************************************)
EXTENDS Shell, Threads, Sieve, Heap

VARIABLES which,                                       \* the program that runs
          tree, start, archivo, llamadas, abiertos, impresas     \* find

-----------------------------------------------------------------------------
(* The shell.                                                               *)

(* Trees and how they are written: a group is put in parentheses where the  *)
(* grammar needs them.                                                      *)
RECURSIVE Show(_)
Group(t) == <<"(">> \o Show(t) \o <<")">>
Simple(t) == t.type = "EXEC" \/ (t.type = "REDIR" /\ t.cmd.type = "EXEC")
Show(t) ==
    CASE t.type = "EXEC"  -> t.argv
      [] t.type = "REDIR" ->
           (IF t.cmd.type \in {"EXEC", "REDIR"} THEN Show(t.cmd) ELSE Group(t.cmd))
             \o <<IF t.fd = 0 THEN "<" ELSE ">", t.file>>
      [] t.type = "PIPE"  ->
           (IF Simple(t.left) THEN Show(t.left) ELSE Group(t.left)) \o <<"|">>
             \o (IF Simple(t.right) \/ t.right.type = "PIPE" THEN Show(t.right)
                 ELSE Group(t.right))
      [] t.type = "LIST"  ->
           (IF t.left.type = "LIST" THEN Group(t.left) ELSE Show(t.left))
             \o <<";">> \o Show(t.right)
      [] t.type = "BACK"  ->
           (IF t.cmd.type = "LIST" THEN Group(t.cmd) ELSE Show(t.cmd)) \o <<"&">>

E(w) == execcmd(<<w>>)
Trees ==
    { execcmd(<<>>),
      execcmd(<<"echo", "x">>),
      redircmd(redircmd(E("cat"), "f", 0), "g", 1),
      pipecmd(E("echo"), E("wc")),
      pipecmd(E("echo"), pipecmd(E("cat"), redircmd(E("wc"), "g", 1))),
      backcmd(pipecmd(redircmd(E("cat"), "f", 0), E("echo"))),
      redircmd(listcmd(E("echo"), E("nosuch")), "g", 1),
      listcmd(listcmd(E("echo"), execcmd(<<>>)), E("wc")),
      listcmd(backcmd(E("echo")), pipecmd(E("cat"), E("wc"))),
      pipecmd(listcmd(E("echo"), E("cat")), redircmd(backcmd(E("wc")), "g", 1)) }

FirstLines ==
    {[line |-> Show(t), tree |-> t] : t \in Trees}
      \cup {[line |-> l, tree |-> NoTree] :
              l \in { <<"cd", "d">>, <<"echo", "&", "wc">>, <<"echo", ">", "|", "wc">>,
                      <<"(", "echo", ";", "wc">>, <<"echo", "(", "wc", ")">>,
                      <<"echo", "x", "y">>, <<"echo", "|", "cat", ")">> }}

(* The second line is typed while the first may still run in the background. *)
SecondLine == [line |-> <<"echo", "|", "wc">>, tree |-> pipecmd(E("echo"), E("wc"))]

MCInputs == <<FirstLines, {SecondLine}>>

-----------------------------------------------------------------------------
(* find.                                                                    *)

Here == <<".">>
Up == <<".", ".">>
File(name, inum) == [name |-> name, inum |-> inum]
Dir(d, up, s) == <<File(Here, d), File(Up, up)>> \o s

A == <<"a">>
B == <<"b">>
AB == <<"a", "b">>
ABC == <<"a", "b", "c">>

MCTrees ==
    { <<Dir(1, 1, <<File(A, 9), File(AB, 2), File(B, 0), File(B, 3)>>),
        Dir(2, 1, <<File(A, 8), File(AB, 7)>>),
        Dir(3, 1, <<File(A, 4), File(ABC, 6)>>),
        Dir(4, 3, <<File(AB, 9), File(A, 9)>>)>>,
      <<Dir(1, 1, <<File(ABC, 2), File(A, 3)>>),
        Dir(2, 1, <<File(A, 8)>>),
        Dir(3, 1, <<File(B, 9), File(A, 8)>>)>> }

MCStarts == { [names |-> <<Here>>, len |-> 1], [names |-> <<Here>>, len |-> 2],
              [names |-> <<B>>, len |-> 1], [names |-> <<AB>>, len |-> 2],
              [names |-> <<Here, A>>, len |-> 3] }

MCWanted == {A, AB, ABC, B}

F == INSTANCE Find WITH Trees <- MCTrees, Starts <- MCStarts, Wanted <- MCWanted,
                        OpenLimit <- 4

-----------------------------------------------------------------------------
findVars == <<tree, start, archivo, llamadas, abiertos, impresas>>

allVars == <<which, vars, threadsVars, sieveVars, heapVars, findVars>>

ProgInit ==
    /\ which \in {"sh", "threads", "primes", "malloc", "find"}
    /\ Init /\ ThreadsInit /\ SieveInit /\ HeapInit /\ F!Init
    /\ which # "find" => tree = CHOOSE t \in MCTrees : TRUE
    /\ which # "find" => start = CHOOSE s \in MCStarts : TRUE
    /\ which # "find" => archivo = A

RunsShell == /\ which = "sh"
             /\ UNCHANGED <<which, threadsVars, sieveVars, heapVars, findVars>>
RunsThreads == /\ which = "threads"
               /\ UNCHANGED <<which, vars, sieveVars, heapVars, findVars>>
RunsPrimes == /\ which = "primes"
              /\ UNCHANGED <<which, vars, threadsVars, heapVars, findVars>>
RunsMalloc == /\ which = "malloc"
              /\ UNCHANGED <<which, vars, threadsVars, sieveVars, findVars>>
RunsFind == /\ which = "find"
            /\ UNCHANGED <<which, vars, threadsVars, sieveVars, heapVars>>

ProgNext ==
    \/ RunsShell /\ Next
    \/ RunsThreads /\ ThreadsNext
    \/ RunsPrimes /\ SieveNext
    \/ RunsMalloc /\ HeapNext
    \/ RunsFind /\ F!Next

(* The fairness of Shell, of Sieve and of Heap.                             *)
ProgSpec ==
    /\ ProgInit /\ [][ProgNext]_allVars
    /\ WF_allVars(RunsShell /\ System)
    /\ \A k \in Stages : WF_allVars(RunsPrimes /\ SieveStep(k))
    /\ WF_allVars(RunsMalloc /\ Loop)

-----------------------------------------------------------------------------
(* primes.c: the chain of processes ends.  umalloc.c: every search ends.    *)
Terminates ==
    /\ (which = "primes") => SieveEnds
    /\ (which = "malloc") => CallsReturn

(* find.c: what it prints is what there is, within its limits.              *)
FoundExactly == F!FoundExactly
=============================================================================
