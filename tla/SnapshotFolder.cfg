SPECIFICATION Spec
CONSTANTS
  t1 = t1 t2 = t2 b1 = b1 b2 = b2 p1 = p1 s1 = s1 s2 = s2
  keep = keep here = here gone = gone smart = smart
  None = None
  Tasks = {t1, t2}
  Beans = {b1, b2}
  Presets = {p1}
  Sessions = {s1, s2}
  Agents = {here, gone, smart}
  Trusted = {smart}
  Entities = {here}
  MaxRows = 3
  MaxBytes = 6
  Contents <- MCContents
  Uploads <- MCUploads
  Options <- MCOptions
  Manual = {keep}
  Texts = {"espresso", "espresso_cup", "v11", "v12"}
  Keep = 1
  MaxAsked = 2
  MaxSecond = 1
  MaySetBack = FALSE
INVARIANT ImportsCanBeUndone
PROPERTIES PruningSparesThem ImportsRespectTheInstall RestoresBringBack
CHECK_DEADLOCK FALSE
