SPECIFICATION UnwiredSpec
CONSTANTS
  e1 = e1
  NoEnvelope = NoEnvelope
  Node = {n1, n2}
  Slot = {1}
  TxId = {e1}
  Envelope = {e1}
  SeqOf <- OneEnvelope
  ResetTargets = {0}
  Strays = {}
  MaxPosts = 1
  MaxRestarts = 0
CHECK_DEADLOCK FALSE
INVARIANT StallGuarded
