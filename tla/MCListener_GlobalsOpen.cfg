\* ReCreateMixed beside ReCreateSocks: a failed UDP bind leaves
\* mixedListener pointing at the listener it has just closed.
CONSTANTS
  a1 = a1
  a2 = a2
  z0 = z0
  Addrs <- MCAddrs
  Zero <- z0
  Kinds <- MCKindsMixed
  MaxListeners = 6
SPECIFICATION Spec
INVARIANT GlobalsOpen
\* The listeners ever created are bounded: once MaxListeners is reached
\* and no port changes hands, nothing is left to do.
CHECK_DEADLOCK FALSE
