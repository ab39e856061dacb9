CONSTANTS
  Module = {"HOTEL_ROOMS", "DELIVERY", "LOYALTY"}
  MaxSwitch = 1
  MaxReq = 1
SPECIFICATION ShellSpec
INVARIANTS
  NothingAskedInVain
  LinksLead
PROPERTY
  Settles
