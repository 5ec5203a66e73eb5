\* Three discovery requests, two of them of hosts with the same name.
SPECIFICATION ManagerSpec
CONSTANTS
  r1 = r1
  r2 = r2
  r3 = r3
  a = a
  b = b
  c = c
  k1 = k1
  k2 = k2
  k3 = k3
  Frame = Frame
  Monitor = Monitor
  Input = Input
  Responders = {r1, r2, r3}
  EmptyName = EmptyName
  MAX_RETRIES = 1
  MaxGoodbyes = 1
  Threads <- MCThreads
  Stations = {a, b, c}
  Keys = {EmptyName, k1, k2, k3}
  KeyOf <- MCKeyOf
  NoThread = NoThread
  NoStation = NoStation
  NoKey = NoKey
INVARIANTS ManagerTypeOK AnsweredIsListed FirstPollIsTheLast OneLateAnswer QuietUntilAsked HandlerHasItsFrame NothingIsMissed
SYMMETRY Symmetry
CHECK_DEADLOCK FALSE
