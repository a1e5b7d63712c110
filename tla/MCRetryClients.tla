----------------------------- MODULE MCRetryClients ----------------------------
(* Small instances of RetryClients for TLC.                                *)
EXTENDS RetryClients

\* A policy that may replay anything and the default kind; in Python also
\* none, in Go one that retries until the context ends.
SmallJsPolicies == {[max |-> 2, unsafe |-> TRUE], [max |-> 3, unsafe |-> FALSE]}
SmallPolicies == SmallJsPolicies \cup {NoPolicy}
SmallGoPolicies == SmallJsPolicies \cup {[max |-> 0, unsafe |-> FALSE]}
=============================================================================
