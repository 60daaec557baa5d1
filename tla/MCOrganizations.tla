-------------------------- MODULE MCOrganizations --------------------------
(* Instances of Organizations for TLC. *)
EXTENDS Organizations, TLC

Symmetry == Permutations(Users) \cup Permutations(Requests) \cup Permutations(Invites)
            \cup Permutations(Others)
=============================================================================
