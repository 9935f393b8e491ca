SPECIFICATION Spec
CONSTANTS
  Organization = {"jeb", "ksc", "rcs"}
  Own = "ksc"
  Shipment <- MCShipment
  Inventory <- MCInventory
  MaxPicks = 2
  MaxFailures = 1
INVARIANTS
  ReceiptTypeOK
  SettledReceiptIsSound
PROPERTIES
  AlwaysSettles
CHECK_DEADLOCK FALSE
