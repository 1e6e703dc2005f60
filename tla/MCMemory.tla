------------------------------ MODULE MCMemory ------------------------------
EXTENDS Memory

\* A page of text, and one of data.
MCPrograms ==
  { <<[vaddr |-> 0, memsz |-> 1, filesz |-> 1, w |-> FALSE],
      [vaddr |-> 3, memsz |-> 2, filesz |-> 1, w |-> TRUE]>> }
MCIncrements == {-20, -4, 4}
=============================================================================
