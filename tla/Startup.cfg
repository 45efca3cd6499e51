SPECIFICATION FairSpec
CONSTANTS
  service = service  byHand = byHand
  Instances = {service, byHand}
  Service = service
  Settings = {"HOME", "TRUSTED_MINT", "OWNER_NPUB"}
  Surroundings = {"disk", "mint", "port"}
  Latest = 5
  Repeatable = {4, 5}
  MaxKeys = 2
  MaxActs = 2
  MaxFaults = 2
  Faults = {"crash", "commit"}
INVARIANTS TypeOK RunsOnWhole
PROPERTIES ComesUp
CHECK_DEADLOCK FALSE
