\* Violation run: EveryPacketFinishes (lost wakeup of a loser)
CONSTANTS
  p1 = p1
  p2 = p2
  p3 = p3
  k1 = k1
  None = None
  Packets <- MCPacketsOneKey
  Keys <- MCKeysOne
  KeyOf <- MCKeyOfOne
  NumWorkers = 2
  QueueCap = 2
SPECIFICATION Spec
PROPERTY EveryPacketFinishes
CHECK_DEADLOCK FALSE
