\* Two producers, two messages each, with exits and teardown at any time, fair scheduling.
SPECIFICATION FairSpec
CONSTANTS
  p1 = p1
  p2 = p2
  frame = frame
  Producers = {p1, p2}
  Frame = frame
  NoActor = NoActor
  MaxSends = 2
INVARIANTS TypeOK NeverTakesFromEmpty NoLostWakeup OpenWhileLooping
PROPERTIES ImplementsFifo EveryMessageReceived ExitIsObeyed
CHECK_DEADLOCK FALSE
