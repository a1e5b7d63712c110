----------------------------- MODULE MCGoExecute -----------------------------
(* Small instances of GoExecute for TLC.                                   *)
EXTENDS GoExecute

\* A policy that may replay anything, the default kind, and one that retries
\* until the context ends.
SmallPolicies == {[max |-> 2, unsafe |-> TRUE], [max |-> 3, unsafe |-> FALSE],
                  [max |-> 0, unsafe |-> FALSE]}
=============================================================================
