-------------------------- MODULE MCDecisionTable --------------------------
(* Three runs that may overlap, two months ahead, three months of decisions.*)
EXTENDS DecisionTable, TLC

Symmetry == Permutations(Runs)
=============================================================================
