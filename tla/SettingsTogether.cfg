\* The settings of a Nivona whose name tells its model.
SPECIFICATION IdentitySpec
CONSTANTS
  m1 = m1
  m2 = m2
  m3 = m3
  f1 = f1
  f2 = f2
  Models = {m1, m2, m3}
  Family <- MCFamily
  Count <- MCCount
  Table <- MCTable
  Unknown = unknown
INVARIANT SettingsGoTogether
CHECK_DEADLOCK FALSE
