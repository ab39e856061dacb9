CONSTANTS
  o1 = o1
  o2 = o2
  b1 = b1
  b2 = b2
  p1 = p1
  p2 = p2
  Order = {o1, o2}
  Price <- MCPrice
  Bill = {b1, b2}
  Payment = {p1, p2}
  CashAmounts = {1, 2}
  Discounts = {1}
  FlatCharges = {0, 1}
  MaxDiscount = 1
  Nowhere = Nowhere
SPECIFICATION Spec
CONSTRAINT MCBound
CHECK_DEADLOCK FALSE
SYMMETRY MCSymmetry
INVARIANTS
  TypeOK
  SettlementInv
  TakingsInv
  NumberingInv
  KitchenTold
PROPERTY ClosedStays
