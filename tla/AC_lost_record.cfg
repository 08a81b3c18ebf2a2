SPECIFICATION Spec
CONSTANTS
  e1 = e1
  e2 = e2
  e3 = e3
  NoEnvelope = NoEnvelope
  Node = {n1, n2, n3}
  Slot = {1, 2}
  TxId = {e1, e3}
  Envelope = {e1, e3}
  SeqOf <- TwoSlots
  ResetTargets = {}
  Strays = {}
  MaxPosts = 1
  MaxRestarts = 0
CHECK_DEADLOCK FALSE
SYMMETRY NodeSymmetry
INVARIANT CommittedIsOnLedger
