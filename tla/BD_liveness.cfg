SPECIFICATION BoundedSpec
CONSTANTS
  n1 = n1
  n2 = n2
  e1 = e1
  e2 = e2
  e3 = e3
  e4 = e4
  NoEnvelope = NoEnvelope
  Node = {n1, n2}
  Slot = {1, 2}
  TxId = {e1, e2, e3, e4}
  Envelope = {e1, e2, e3, e4}
  SeqOf <- FourEnvelopes
  ResetTargets = {1, 2}
  Strays = {}
  MaxPosts = 2
  MaxRestarts = 1
  NodeOrder <- Sorted
  EnvelopeOf <- Proposal
  BatchPlans <- OneOrTwo
  Mode = "NONE"
  Faulty = {}
  OkNodes = 2
CHECK_DEADLOCK FALSE
INVARIANTS DriverTypeOK OkNeedsSecondRound OkOutvotesQuorum HeadNotAhead
PROPERTIES OpenSlotsClose BatchRunEnds DriverAdvances
