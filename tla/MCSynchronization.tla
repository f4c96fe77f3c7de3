------------------------- MODULE MCSynchronization -------------------------
\* Instances of Synchronization for TLC: two slots, or one, of one bit.
EXTENDS Synchronization

MCOneRun == {"r1"}
MCTwoRuns == {"r1", "r2"}

=============================================================================
