\* One discovery request, the monitor and the console, fair scheduling.
SPECIFICATION FairManagerSpec
CONSTANTS
  r1 = r1
  r2 = r2
  r3 = r3
  a = a
  b = b
  c = c
  k1 = k1
  k2 = k2
  k3 = k3
  Frame = Frame
  Monitor = Monitor
  Input = Input
  Responders = {r1}
  EmptyName = EmptyName
  MAX_RETRIES = 3
  MaxGoodbyes = 1
  Threads <- MCThreads
  Stations = {c}
  Keys = {EmptyName, k1, k2, k3}
  KeyOf <- MCKeyOf
  NoThread = NoThread
  NoStation = NoStation
  NoKey = NoKey
PROPERTIES EndOfInputIsObeyed ListingIsFatal
CHECK_DEADLOCK FALSE
