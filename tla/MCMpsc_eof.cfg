\* Violated: the producers end and the receiver sleeps on.
SPECIFICATION FairSpec
CONSTANTS
  p1 = p1
  p2 = p2
  frame = frame
  Producers = {p1}
  Frame = frame
  NoActor = NoActor
  MaxSends = 1
PROPERTIES NoProducerEndsTheLoop
CHECK_DEADLOCK FALSE
