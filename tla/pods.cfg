SPECIFICATION FairSpec
CONSTANTS
  Event <- OneC2Event
  Payload <- OneC2Payload
  Requisition = {"REQ-1"}
  Document = {}
  Asset = {"a1"}
  NoEvent = NoEvent
  NoDocument = NoDocument
  Pod = {"pod1", "pod2"}
  MaxSequenceAttempts = 2
  MaxFaults = 1
  MaxDuplicates = 1
INVARIANTS
  AckedIsAccountedFor
  NoStrandedDraft
  ApplyNeverGivesUp
  SealedDraftHasRecord
PROPERTIES
  SealedNeverChanges
  CompleteDraftIsSealed
