CONSTANTS
  r1 = r1
  r2 = r2
  r3 = r3
  p1 = p1
  p2 = p2
  Request = {r1, r2, r3}
  Payment = {p1, p2}
  Online = {p1}
  Amount <- MCAmount
  Total = 2
  Nobody = Nobody
SPECIFICATION FairSpec
INVARIANTS
  EventAppliesOnce
  PaidIsBacked
  SuccessIsApplied
  RefundsWithinPayment
PROPERTIES
  KeepsLedger
  RequestsEnd
CHECK_DEADLOCK FALSE
