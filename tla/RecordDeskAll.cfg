CONSTANTS
  r1 = r1
  r2 = r2
  new = new
  Row = {r1, r2}
  Business = r1
  New = new
  MaxOther = 1
  MaxReq <- Requests
SPECIFICATION RecordsSpec
CHECK_DEADLOCK FALSE
INVARIANTS
  SavedWhereMeant
  ListInv
PROPERTY FormFollowsUser
