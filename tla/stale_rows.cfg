SPECIFICATION Spec
CONSTANTS
  Organization = {"jeb", "ksc", "rcs"}
  Own = "ksc"
  Shipment <- MCShipment
  Inventory <- MCInventory
  MaxPicks = 2
  MaxFailures = 0
INVARIANTS
  TableObeysFilter
CHECK_DEADLOCK FALSE
