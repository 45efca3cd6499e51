SPECIFICATION FairSpec
CONSTANTS
  b1 = b1  b2 = b2
  r1 = r1  r2 = r2
  Blobs = {b1}
  Requests = {r1, r2}
  Length <- Sizes
  Claims <- Named
  Costs <- SomeCosts
  MaxRows = 2
  MaxFaults = 2
  Faults = {"crash", "disk", "client"}
INVARIANTS TypeOK RowHasFile PaidIsServed
PROPERTIES UploadIsDurable SentIsCharged RequestEnds
CHECK_DEADLOCK FALSE
