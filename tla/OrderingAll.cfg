CONSTANTS
  tea = tea
  pizza = pizza
  t1 = t1
  t2 = t2
  r1 = r1
  none = none
  None = none
  Item = {tea, pizza}
  Simple = {tea}
  Table = {t1}
  Room = {r1}
  Enabled = {"ROOM_SERVICE", "DELIVERY"}
  MaxQuantity = 1
  MaxSlot = 1
  MaxUnits = 2
  MaxSend = 2
SPECIFICATION OrderingSpec
CHECK_DEADLOCK FALSE
INVARIANTS
  PlacesInv
  OrderedAsTapped
PROPERTIES
  GuestSeesTheEnd
