\* Violation run: NoDialWhileEntryInstalled
CONSTANTS
  p1 = p1
  p2 = p2
  p3 = p3
  k1 = k1
  None = None
  Packets <- MCPacketsOneKey
  Keys <- MCKeysOne
  KeyOf <- MCKeyOfOne
  NumWorkers = 2
  QueueCap = 2
SPECIFICATION Spec
INVARIANT NoDialWhileEntryInstalled
CHECK_DEADLOCK FALSE
