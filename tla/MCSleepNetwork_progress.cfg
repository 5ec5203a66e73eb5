\* One participant: its threads, its signals and a magic packet, fair-lossy network.
SPECIFICATION FairSpec
CONSTANTS
  p1 = p1
  p2 = p2
  m1 = m1
  m2 = m2
  h1 = h1
  h2 = h2
  empty = empty
  Participants = {p1}
  Managers = {m1}
  NoManager = NoManager
  Handlers = {h1, h2}
  NameOf <- MCNameOf
  Duplicating = FALSE
  MaxStarts = 1
  MaxMagic = 1
  MaxQueue = 1
  MaxThreads = 1
PROPERTIES AbortsHaveACause AskersConnect
CHECK_DEADLOCK FALSE
