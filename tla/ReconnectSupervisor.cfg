CONSTANT RepairAfterFailures = 2
SPECIFICATION Spec
INVARIANTS
  LossIsPursued
  ConnectedIsServed
CHECK_DEADLOCK FALSE
