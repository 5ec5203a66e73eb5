\* Two threads, three stations (a host that asks twice and another one), every operation, fair scheduling.
SPECIFICATION FairSpec
CONSTANTS
  t1 = t1
  t2 = t2
  t3 = t3
  a = a
  a2 = a2
  b = b
  c = c
  k1 = k1
  k2 = k2
  Threads = {t1, t2}
  Stations = {a, a2, c}
  Keys = {k1, k2}
  KeyOf <- MCKeyOf
  NoThread = NoThread
  NoStation = NoStation
  NoKey = NoKey
INVARIANTS TypeOK WriterExclusion IndicesAgree StatusLockNeverGranted
PROPERTIES TableReleased FrozenForever NotifiedWhenListed ImplementsTable
CHECK_DEADLOCK FALSE
