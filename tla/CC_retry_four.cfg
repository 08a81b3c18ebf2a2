SPECIFICATION RetrySpec
CONSTANTS
  b = b
  h1 = h1
  h2 = h2
  h3 = h3
  e1 = e1
  p1 = p1
  NoEnvelope = NoEnvelope
  Node = {b, h1, h2, h3}
  Byzantine = {b}
  Slot = {1}
  TxId = {e1, p1}
  Envelope = {e1}
  SeqOf <- OneSlot
  Poison <- Poisoned
  ResetTargets = {0}
  Strays <- SomeStrays
  MaxPosts = 2
  MaxRestarts = 1
CHECK_DEADLOCK FALSE
INVARIANTS
  DecisionCertified
  HonestCommitNeedsRepost
