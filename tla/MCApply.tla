------------------------------ MODULE MCApply ------------------------------
(* Instances of RaftApply for TLC.                                          *)
EXTENDS RaftApply, TLC

CONSTANTS c1, c2, noFuture, nil, other

\* Clients are interchangeable.
ClientSymmetry == Permutations(Client)
=============================================================================
