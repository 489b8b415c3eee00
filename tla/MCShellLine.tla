---------------------------- MODULE MCShellLine ----------------------------
EXTENDS ShellLine, TLC
\* Neither an activity nor a store is ever compared with another of its kind.
Interchangeable == Permutations(Acts) \cup Permutations(Stores)
=============================================================================
