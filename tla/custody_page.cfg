SPECIFICATION Spec
CONSTANTS
  Organization = {"jeb", "ksc"}
  Own = "jeb"
  Inventory <- MCInventory
  FormType <- MCFormType
  MaxPicks = 3
  MaxFailures = 1
INVARIANTS
  PageTypeOK
  SettledFormIsSound
  PageHasTheFormShown
PROPERTIES
  AlwaysSettles
CHECK_DEADLOCK FALSE
