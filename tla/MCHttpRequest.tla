---------------------------- MODULE MCHttpRequest ----------------------------
(* Small instances of HttpRequest for TLC.                                 *)
EXTENDS HttpRequest

CONSTANTS t1, t2, c1, c2
=============================================================================
