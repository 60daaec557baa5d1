CONSTANTS
  Users = {u1, u2}
  Requests = {r1, r2}
  Others = {x1}
  Invites = {i1, i2}
  This = this
  Instance = {}
  MaxOwned = 1
  Nobody = nobody
SYMMETRY Symmetry
SPECIFICATION Spec
INVARIANTS TypeOK AtMostOneOwner
PROPERTIES OwnerLostToStaleRead JoinsNeedInvite LimitsFallToOverlap
CHECK_DEADLOCK FALSE
