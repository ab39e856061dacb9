CONSTANTS
  o1 = o1
  o2 = o2
  t1 = t1
  t2 = t2
  none = none
  None = none
  Order = {o1, o2}
  Table = {t1, t2}
  MaxStep <- Steps
  MaxOrder <- Orders
  MaxReq <- Requests
SPECIFICATION Spec
SYMMETRY Alike
CHECK_DEADLOCK FALSE
INVARIANTS
  FreshOfferLegal
  ScreenInv
PROPERTIES
  ActsOnWhatWasSeen
