---------------------------- MODULE MCDiskStore ----------------------------
(* Instances of DiskStore for TLC.                                          *)
EXTENDS DiskStore, TLC

CONSTANTS k1, k2

\* Keys are interchangeable.
KeySymmetry == Permutations(Key)
=============================================================================
