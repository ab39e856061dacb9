CONSTANTS
  l1 = l1
  l2 = l2
  s1 = s1
  s2 = s2
  o1 = o1
  o2 = o2
  o3 = o3
  b1 = b1
  b2 = b2
  Table = {l1, l2}
  Session = {s1, s2}
  Order = {o1, o2}
  Bill = {b1, b2}
  MaxAway = 1
  None = None
SPECIFICATION Spec
CHECK_DEADLOCK FALSE
SYMMETRY MCSymmetry
INVARIANTS
  BillStaysWithSession
  OneOpenBillPerOrder
  KotFollowsOrder
