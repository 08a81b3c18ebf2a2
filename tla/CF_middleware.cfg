SPECIFICATION Spec
CONSTANTS
  p1 = p1
  p2 = p2
  p3 = p3
  p4 = p4
  stranger = stranger
  Cluster <- FourPeers
  TargetLists <- SomeTargets
  MaxRequests = 3
  MaxChanges = 4
CHECK_DEADLOCK FALSE
INVARIANTS TypeOK FullUnlessByzantine Partitioned EnoughPeers
PROPERTY ForgesUnderFault
