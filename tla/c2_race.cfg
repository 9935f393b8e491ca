SPECIFICATION FairSpec
CONSTANTS
  Event <- ThreeC2Event
  Payload <- ThreeC2Payload
  Requisition = {"REQ-1", "REQ-2", "REQ-3"}
  Document = {}
  Asset = {"a1"}
  NoEvent = NoEvent
  NoDocument = NoDocument
  Pod = {"pod1"}
  MaxSequenceAttempts = 2
  MaxFaults = 0
  MaxDuplicates = 1
INVARIANTS
  TypeOK
  ChainIntact
  NoStrandedDraft
PROPERTIES
  AppendOnlyChain
  EveryMessageSettles
