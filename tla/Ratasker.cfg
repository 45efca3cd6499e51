SPECIFICATION RataskerSpec
CONSTANTS
  p1 = p1  p2 = p2  p3 = p3
  r1 = r1  r2 = r2
  m1 = m1  m2 = m2
  k1 = k1  k2 = k2  k3 = k3
  Proofs = {p1, p2}
  Mints = {m1}
  Keysets = {k1}
  Requests = {r1}
  MintOf <- MCMintOf
  KeysetMint <- MCKeysetMint
  Amount <- TwoSats
  FeePpk <- LowFee
  Price <- Cheap
  BadProofs = {p2}
  Width = 4
  Lifetime = 1
  Margin = 1
  MaxToken = 1
  MaxTime = 1
  MaxFaults = 1
  Faults = {"crash", "commit", "answer"}
  MaxLapses = 2
  Lapses = {"crash", "commit"}
INVARIANTS NothingLost
PROPERTIES HeldIsPaidOut RequestAnswered ImplementsPayout ImplementsEcash
CHECK_DEADLOCK FALSE
