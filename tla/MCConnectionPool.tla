-------------------------- MODULE MCConnectionPool --------------------------
(* Instances of ConnectionPool for TLC.                                     *)
EXTENDS ConnectionPool

CONSTANTS g1, g2, g3, k1, k2, k3, noConn, noCaller
=============================================================================
