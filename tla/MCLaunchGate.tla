---------------------------- MODULE MCLaunchGate ----------------------------
\* The launch gate with a few operators' commands, receipt paths and tasks.
EXTENDS LaunchGate, TLC

MCNote == [trials : SUBSET Task, from : Path \cup {NoPath}]
Symmetry == Permutations(Proc) \cup Permutations(Task) \cup Permutations(Path)
=============================================================================
