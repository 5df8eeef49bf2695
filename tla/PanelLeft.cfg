CONSTANTS
  f1 = f1
  f2 = f2
  m1 = m1
  m2 = m2
  Flows = {f1, f2}
  Machines = {m1, m2}
  None = None
  Telling = {m1}
  MaxConnections = 2
SPECIFICATION Spec
INVARIANT PanelGoesWithTheLast
CHECK_DEADLOCK FALSE
