CONSTANT RepairAfterFailures = 2
SPECIFICATION UndisturbedSpec
PROPERTIES
  RecoversWhenReachable
  WedgeEscalates
CHECK_DEADLOCK FALSE
