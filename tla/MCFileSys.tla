----------------------------- MODULE MCFileSys -----------------------------
EXTENDS FileSys, TLC

\* Paths: a name in the root directory, and one in a subdirectory.
Call(op, path) == [op |-> op, path |-> path, new |-> <<>>]
MCCalls == { Call("create", <<"a">>), Call("mkdir", <<"/", "b">>),
             Call("unlink", <<"/", "a">>), Call("unlink", <<"/", "b">>),
             Call("chdir", <<"b">>), Call("open", <<"/", "b", "a">>),
             Call("unlink", <<"/", "b", "a">>),
             [op |-> "link", path |-> <<"/", "a">>,
              new |-> <<"/", "b", "a">>] }
Symmetry == Permutations(Procs)
============================================================================
