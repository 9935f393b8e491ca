SPECIFICATION Spec
CONSTANTS
  MaxDrafts = 2
  MaxSignings = 3
INVARIANTS
  SigningTypeOK
  WhatYouSeeIsWhatYouSign
  OneSignatureAtATime
  SignedMeansRecorded
  RowMatchesObject
PROPERTIES
  EverySignatureEnds
