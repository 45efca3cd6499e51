SPECIFICATION Spec
CONSTANTS
  p1 = p1  p2 = p2  p3 = p3
  m1 = m1  m2 = m2
  Proofs = {p1, p2, p3}
  Mints = {m1, m2}
  MintOf <- MintOfProof
  MaxFaults = 1
  Faults = {"disk"}
PROPERTIES FailedWriteIsRolledBack
