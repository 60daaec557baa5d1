---------------------------- MODULE MCCallTypes -----------------------------
(***************************************************************************)
(* CallTypes with three call types, a secret, a meeting, two requests and a *)
(* worker: two requests overlap on the flag of a third type, and a hook     *)
(* that needs the secret runs in either.  Types and requests are alike.     *)
(***************************************************************************)
EXTENDS CallTypes, TLC
MCHooks == {Off, [mode |-> "sync", refs |-> Names], [mode |-> "async", refs |-> Names]}
Symmetry == Permutations(Types) \cup Permutations(Requests)
=============================================================================
