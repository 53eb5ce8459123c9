----------------------------- MODULE MCControlTool -----------------------------
EXTENDS ControlTool, TLC

MCGiven == {Missing, [show |-> "REAL_LAST", cards |-> [c \in Chips |-> CHOOSE f \in Files : TRUE]]}
Symmetry == Permutations(Savers)
================================================================================
