SPECIFICATION Spec
CONSTANTS
  t1 = t1
  t2 = t2
  Tx = {t1, t2}
  MaxAppends = 5
  MaxFaults = 3
CHECK_DEADLOCK FALSE
PROPERTY AppendOnly
