---------------------------- MODULE MCIntakeVision ----------------------------
EXTENDS IntakeVision, TLC
CONSTANTS c1, c2
AllFaults == {"copy", "io"}
NoFaults == {}
Symmetry == Permutations(Calls)
===============================================================================
