----------------------------- MODULE MCFileData -----------------------------
EXTENDS FileData, TLC

\* A program that fills two blocks and the indirect one, which is removed, and
\* an empty text.
ProgramAndText ==
    {<<[under |-> TRUE, name |-> "cat", bytes |-> <<1, 1, 1>>],
       [under |-> FALSE, name |-> "README", bytes |-> <<>>]>>}

\* One byte, and more than a transaction.
Strings == {<<1>>, <<1, 1, 1>>}
Perms == Permutations(Proc) \cup Permutations(File)
=============================================================================
