SPECIFICATION Spec
CONSTANTS
  t1 = t1
  t2 = t2
  None = None
  Tasks = {t1, t2}
  Operations = {"brew", "refresh", "setting"}
  Sessions = 2
  InFlight = 1
SYMMETRY CallersAreAlike
CHECK_DEADLOCK FALSE
INVARIANTS LocksAreHeldInUse StartIsReportedTruly ReadsBelong
PROPERTY BrewsWhatWasAsked
