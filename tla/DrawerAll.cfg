CONSTANTS
  r1 = r1
  r2 = r2
  r3 = r3
  r4 = r4
  r5 = r5
  u1 = u1
  u2 = u2
  s1 = s1
  s2 = s2
  Request = {r1, r2, r3, r4, r5}
  Cashier = {u1, u2}
  Shift = {s1, s2}
  Nobody = Nobody
  NoShift = NoShift
SPECIFICATION Spec
SYMMETRY MCSymmetry
INVARIANTS
  DrawersInv
  CountIsWhole
PROPERTY ClosedIsFrozen
CHECK_DEADLOCK FALSE
