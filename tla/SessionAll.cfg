CONSTANTS
  b1 = b1
  b2 = b2
  c1 = c1
  c2 = c2
  Tab = {b1}
  Call = {c1, c2}
  Realms = {"staff", "platform"}
  MaxToken = 3
  MaxLoad = 3
SPECIFICATION Spec
CHECK_DEADLOCK FALSE
SYMMETRY MCSymmetry
INVARIANTS
  ReuseNeedsTwoLoads
  StoresInv
  WaitsForRefresh
