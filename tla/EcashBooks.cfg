SPECIFICATION Spec
CONSTANTS
  p1 = p1  p2 = p2  p3 = p3
  r1 = r1  r2 = r2
  m1 = m1  m2 = m2
  k1 = k1  k2 = k2  k3 = k3
  Proofs = {p1, p2, p3}
  Mints = {m1, m2}
  Keysets = {k1, k2, k3}
  Requests = {r1}
  MintOf <- MCMintOf
  KeysetMint <- MCKeysetMint
  Amount <- SmallChange
  FeePpk <- LowFee
  Price <- Cheap
  BadProofs = {}
  Width = 4
  Lifetime = 1
  Margin = 1
  MaxToken = 1
  MaxTime = 1
  MaxFaults = 2
  Faults = {"crash", "commit", "mint", "answer"}
SYMMETRY SameMint
INVARIANTS SwappedOnce FreshOutputs Recoverable
PROPERTIES ImplementsLedger
CHECK_DEADLOCK FALSE
