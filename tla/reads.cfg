SPECIFICATION ReadSpec
CONSTANTS
  Event <- TwoC2Event
  Payload <- TwoC2Payload
  Requisition = {"REQ-1", "REQ-2"}
  Document = {}
  Asset = {"a1"}
  NoEvent = NoEvent
  NoDocument = NoDocument
  Pod = {"pod1"}
  MaxSequenceAttempts = 2
  MaxFaults = 0
  MaxDuplicates = 0
INVARIANTS
  ListMissesNothing
  VerifyIsRight
