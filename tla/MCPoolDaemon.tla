---------------------------- MODULE MCPoolDaemon ----------------------------
EXTENDS PoolDaemon, TLC

\* Objects that the hash places in the same slot, so that one can take the
\* slot that Trim has freed of the other; one slot for a container.
MCSlotOf   == [n \in Names |-> 1]
MCSymmetry == Permutations(Names)
=============================================================================
