CONSTANTS
  Types = {t1, t2, t3}
  Secrets = {k1}
  Names = {n1}
  Meetings = {m1}
  Requests = {r1, r2}
  Workers = {w1}
  Hooks <- MCHooks
  Gone = gone
  NoType = notype
SYMMETRY Symmetry
SPECIFICATION Spec
INVARIANTS TypeOK HookInHand
PROPERTIES DefaultsFallToOverlap
CHECK_DEADLOCK FALSE
