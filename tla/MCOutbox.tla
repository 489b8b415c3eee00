------------------------------ MODULE MCOutbox ------------------------------
EXTENDS Outbox, TLC
Symmetry == Permutations(Msgs)
=============================================================================
