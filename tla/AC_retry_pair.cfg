SPECIFICATION Spec
CONSTANTS
  e1 = e1
  e2 = e2
  e3 = e3
  NoEnvelope = NoEnvelope
  Node = {n1, n2}
  Slot = {1}
  TxId = {e1, e2}
  Envelope = {e1, e2}
  SeqOf <- TwoProposals
  ResetTargets = {0}
  Strays <- SomeStrays
  MaxPosts = 2
  MaxRestarts = 1
CHECK_DEADLOCK FALSE
SYMMETRY NodeSymmetry
INVARIANTS
  StallGuarded
  NoIdleQuorum
  VotesAuthentic
  DecisionCertified
  OneEntryPerPost
  CommittedRecordOnLedger
  CommitNeedsRepost
  DecisionNeedsAudience
PROPERTIES
  LifePerSlot
  CommittedNotEvicted
