SPECIFICATION Spec
CONSTANTS
  Processes = {"READY", "PRODUCT", "BUSY", "SWITCH_OFF", "unmapped"}
  Brews = 2
  Links = 1
  Pending = 1
  None = None
CHECK_DEADLOCK FALSE
INVARIANTS AnnouncedOnce CreditedOnce EndedIsOver
PROPERTY LatchIsReleased
