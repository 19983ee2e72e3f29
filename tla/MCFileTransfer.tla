---------------------------- MODULE MCFileTransfer ----------------------------
(* Two users and three transfers, of which at most two at a time.             *)
EXTENDS FileTransfer, TLC
CONSTANTS u1, u2
MCUsers == {u1, u2}
UserSymmetry == Permutations(MCUsers)
=============================================================================
