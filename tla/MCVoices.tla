------------------------------ MODULE MCVoices ------------------------------
(***************************************************************************)
(* Voices with three identities, two names, two extensions, two requests    *)
(* and two workers: a removal, an upload, an enrolment and a spotted name    *)
(* overlap in twos, and a third identity is there when the first two are.   *)
(***************************************************************************)
EXTENDS Voices, TLC
Symmetry == Permutations(Ids) \cup Permutations(Workers) \cup Permutations(Requests)
=============================================================================
