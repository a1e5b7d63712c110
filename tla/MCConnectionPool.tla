-------------------------- MODULE MCConnectionPool --------------------------
(* Small instances of ConnectionPool for TLC.                              *)
EXTENDS ConnectionPool

CONSTANTS t1, t2, t3, t4, c1, c2, c3

=============================================================================
