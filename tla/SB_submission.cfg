SPECIFICATION SubmissionSpec
CONSTANTS
  Tx <- AllBodies
  MaxAppends = 3
  MaxFaults = 2
  Slot = {2, 4}
  Keys = {1, 2, 11}
  NoRecord = NoRecord
  Limit = 10
  MaxDrift = 2
  Clock = {29, 31, 33}
CHECK_DEADLOCK FALSE
INVARIANTS
  TypeOK
  CommittedIsWritten
  IdsIdentify
  NeverMoreThanAsked
PROPERTY ImplementsLossyLog
