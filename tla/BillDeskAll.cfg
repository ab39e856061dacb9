CONSTANTS
  none = none
  None = none
  Manager = TRUE
  OthersDo = {"generate", "discount", "void", "pay", "voidBill"}
  Price = 2
  MaxOrder = 1
  MaxBill = 2
  MaxPaid = 2
  MaxTxn = 3
  MaxReq = 2
SPECIFICATION Spec
CHECK_DEADLOCK FALSE
INVARIANTS
  FreshOfferAccepted
  TillInv
PROPERTIES
  SessionsCatchUp
