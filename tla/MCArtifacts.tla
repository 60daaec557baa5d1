---------------------------- MODULE MCArtifacts -----------------------------
(***************************************************************************)
(* Artifacts with one document, one automatic and two manual reports, one  *)
(* copilot and one pre-call hook.                                          *)
(***************************************************************************)
EXTENDS Artifacts, TLC

CONSTANTS d1, m1, a1, r1, r2, c1, p1

MCDocs == {d1}
MCAutos == {a1}
MCManuals == {r1, r2}
MCCycles == {c1}
MCPreCalls == {p1}

(* Two manual reports differ in nothing but their name.                    *)
Symmetry == Permutations(MCManuals)

(* Nobody has worked on a row's artifacts yet.                             *)
Fresh(x) == job[x] = "none" /\ eraser[x] = "none"

(* Bound: only the meeting's side is explored, or only the document's. No  *)
(* action reads both; what they share is that a process dies once.         *)
Apart ==
    \/ Fresh(m1) /\ \A p \in Callers : at[p] = "idle"
    \/ Fresh(d1) /\ row[d1] = "none"
=============================================================================
