SPECIFICATION Spec
CONSTANTS
  e1 = e1
  e2 = e2
  e3 = e3
  NoEnvelope = NoEnvelope
  Node = {n1, n2, n3, n4}
  Slot = {1}
  TxId = {e1, e2}
  Envelope = {e1, e2}
  SeqOf <- TwoProposals
  ResetTargets = {}
  Strays = {}
  MaxPosts = 1
  MaxRestarts = 0
CHECK_DEADLOCK FALSE
SYMMETRY NodeSymmetry
INVARIANT PreparedForItsRecord
