SPECIFICATION Spec
CONSTANTS
  Event <- TwoReceiptsEvent
  Payload <- TwoReceiptsPayload
  Requisition = {"REQ-1"}
  Document = {"d1", "d2"}
  Asset = {"a1", "a2"}
  NoEvent = NoEvent
  NoDocument = NoDocument
  Pod = {"pod1"}
  MaxSequenceAttempts = 5
  MaxFaults = 0
  MaxDuplicates = 0
INVARIANTS
  LateEventsAreDeadLettered
