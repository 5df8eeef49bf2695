CONSTANT RepairAfterFailures = 2
SPECIFICATION Spec
INVARIANT EveryLossIsPursued
CHECK_DEADLOCK FALSE
