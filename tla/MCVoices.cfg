CONSTANTS
  Ids = {i1, i2, i3}
  Names = {ann, bob}
  Extensions = {1, 2}
  Requests = {r1, r2}
  Workers = {w1, w2}
  NoId = noid
  MaxSamples = 2
SYMMETRY Symmetry
SPECIFICATION Spec
INVARIANTS TypeOK
PROPERTIES DuplicatesNeedOverlap RemovalComplete
CHECK_DEADLOCK FALSE
