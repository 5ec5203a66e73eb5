\* Two participants of one name, restarts, a network that duplicates.
SPECIFICATION Spec
CONSTANTS
  p1 = p1
  p2 = p2
  m1 = m1
  m2 = m2
  h1 = h1
  h2 = h2
  empty = empty
  Participants = {p1, p2}
  Managers = {m1}
  NoManager = NoManager
  Handlers = {h1}
  NameOf <- MCNameOf
  Duplicating = TRUE
  MaxStarts = 2
  MaxMagic = 0
  MaxQueue = 1
  MaxThreads = 1
INVARIANTS TypeOK ConnectedIsListed AwaitersHoldTheirPorts NothingAnswersGoodbye
PROPERTIES DroppedSaidGoodbye
SYMMETRY Symmetry
CHECK_DEADLOCK FALSE
