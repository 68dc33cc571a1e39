\* Single flight and release of the NAT lock, three packets of one flow, under
\* the fairness of Spec (no symmetry: the property is temporal).
CONSTANTS
  p1 = p1
  p2 = p2
  p3 = p3
  k1 = k1
  None = None
  Packets <- MCPacketsOneKey
  Keys <- MCKeysOne
  KeyOf <- MCKeyOfOne
  NumWorkers = 2
  QueueCap = 2
SPECIFICATION Spec
INVARIANT TypeOK
INVARIANT AtMostOneDialInFlight
PROPERTY LockEventuallyReleased
\* The server idles once the bounded packets are handled.
CHECK_DEADLOCK FALSE
