------------------------ MODULE MCAlgorithmDistribution ------------------------
(* Two users, one algorithm and two transfers.                                *)
EXTENDS AlgorithmDistribution, TLC
CONSTANTS u1, u2, yolo
MCUsers == {u1, u2}
MCAlgorithms == {yolo}
UserSymmetry == Permutations(MCUsers)
=============================================================================
