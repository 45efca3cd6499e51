SPECIFICATION Spec
CONSTANTS
  p1 = p1  p2 = p2  p3 = p3
  r1 = r1  r2 = r2
  m1 = m1  m2 = m2
  k1 = k1  k2 = k2  k3 = k3
  Proofs = {p1, p2}
  Mints = {m1}
  Keysets = {k1}
  Requests = {r1, r2}
  MintOf <- MCMintOf
  KeysetMint <- MCKeysetMint
  Amount <- TwoSats
  FeePpk <- HighFee
  Price <- TwoPrices
  BadProofs = {}
  Width = 4
  Lifetime = 1
  Margin = 1
  MaxToken = 2
  MaxTime = 2
  MaxFaults = 1
  Faults = {"crash", "commit", "mint", "answer"}
INVARIANTS TypeOK SignableRows
PROPERTIES SeenIsRefused PaidInFull QuoteHoldsUntilDue
CHECK_DEADLOCK FALSE
