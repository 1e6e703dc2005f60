----------------------------- MODULE MCFileData -----------------------------
EXTENDS FileData, TLC

\* Two files; mkfs has put two blocks into the first of them.
MCFileOf == <<2, 3>>
MCMkfsSize == <<1, 3, 0>>
Symmetry == Permutations(Users)

\* balloc() clears a block, so that nothing depends on what is in a free one.
View == <<used, [b \in used |-> data[b]], size, addrs, made, ilk, off, io,
          held, len>>
=============================================================================
