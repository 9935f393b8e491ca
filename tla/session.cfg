SPECIFICATION Spec
CONSTANTS
  Profile = {"jeb", "gene"}
  TTL = 6
  Margin = 3
  Window = 3
  Limit = 2
  Latency = 1
  Skews <- MCSkews
  MaxNow = 8
  MaxPicks = 2
  MaxElsewhere = 2
  MaxMishaps = 1
INVARIANTS
  SessionTypeOK
  SessionKeepsWorking
  LastChoiceWins
  BurstIsBounded
CHECK_DEADLOCK FALSE
