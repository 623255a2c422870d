---------------------------- MODULE MCPaidRunners -----------------------------
EXTENDS PaidRunners, TLC

MCLength == [chained |-> 3, arms |-> 2, plugin |-> 2, pilot |-> 2, block |-> 2, agent |-> 2]
MCNote   == SUBSET (Run \cup {0})
Symmetry == Permutations(Proc) \cup Permutations(Dir)
=============================================================================
