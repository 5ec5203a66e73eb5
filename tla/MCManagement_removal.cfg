\* Violated: a removal hangs before it tells the handler.
SPECIFICATION FairSpec
CONSTANTS
  t1 = t1
  t2 = t2
  t3 = t3
  a = a
  a2 = a2
  b = b
  c = c
  k1 = k1
  k2 = k2
  Threads = {t1, t2}
  Stations = {a}
  Keys = {k1, k2}
  KeyOf <- MCKeyOf
  NoThread = NoThread
  NoStation = NoStation
  NoKey = NoKey
PROPERTIES EveryRemovalFires
CHECK_DEADLOCK FALSE
