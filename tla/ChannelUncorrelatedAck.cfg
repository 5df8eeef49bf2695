SPECIFICATION Spec
CONSTANTS
  t1 = t1
  t2 = t2
  None = None
  Tasks = {t1, t2}
  Operations = {"freestyle", "setting"}
  Sessions = 1
  InFlight = 2
SYMMETRY CallersAreAlike
CHECK_DEADLOCK FALSE
INVARIANTS ReportedMeansStarted

