SPECIFICATION Spec
CONSTANTS
  base = base
  key = key
  x = x
  y = y
  h1 = h1
  h2 = h2
  Bases = {base}
  Keys = {key}
  Contents <- MCContents
  Tasks = {preload1}
  NoRecipe = noRecipe
  Fields = {amount}
  Amounts = {small, large}
  Default = small
  Drinks = {espresso}
  Presses = {press1, press2}
  None = none
  Soft = {moveCup}
  Hard = {fillWater, emptyTrays}
  NoPrompt = noPrompt
  NotSeen = notSeen
  AutoConfirm = TRUE
  MaxConfirms = 2
  Day = 5
  Threshold = 2
  Throttle = 3
  Daily = 4
  Syncs = {sync1, sync2}
  MaxMinutes = 6
  Never = never
  Machines = {machine1}
  Proxies = {proxy1}
  Adapters = {hci0}
  Hour = 2
  Grace = 1
  MaxReloads = 1
  MaxLosses = 2
  MaxTicks = 3
  MaxEvents = 2
  NoSource = noSource
  start = start
  end = end
  ack = ack
  reply = reply
  sub = sub
  Byte <- MCByte
  Start = start
  End = end
  FrameLength <- MCFrameLength
  Frames <- MCFrames
  BufferLimit = 8
  Limit = 1
  Wait = 3
  Lag = 1
  Mtu = 4
  MaxUnderWay = 3
  en = en
  de = de
  Languages = {en, de}
  Shipped = {en, de}
  English = en
  Files <- MCFiles
  Spoken = {en}
  Clauses = {"milk"}
  Loads = {load1}
  Nothing = nothing
  m1 = m1
  m2 = m2
  m3 = m3
  f1 = f1
  f2 = f2
  Models = {m1, m2, m3}
  Family <- MCFamily
  Count <- MCCount
  Table <- MCTable
  Unknown = unknown
INVARIANTS
  ReadersShowTheBook
  OncePerAppearance
  ReloadsAreRationed
  EntitiesFollowTheIdentity
PROPERTIES
  StartsFindTheirFields
  DriftDecides
  PromiseIsKept
  IntactAnswersGetThrough
  SentencesAreWhole
SYMMETRY Symmetry
CHECK_DEADLOCK FALSE
