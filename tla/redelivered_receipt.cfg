SPECIFICATION Spec
CONSTANTS
  Organization = {"jeb", "ksc", "rcs"}
  Asset = {"a1", "a2"}
  Transfer = {"q1", "q2", "q3"}
  Order <- MCOrder
  SeedCustody <- MCSeed
  Document <- MCDocument
  Content <- MCContent
  MaxMishaps = 1
PROPERTIES
  RedeliveryMovesNothing
