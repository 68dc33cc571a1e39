\* Reloads of the HTTP, Shadowsocks, TProxy and Mixed listeners while other
\* processes take and release ports.
CONSTANTS
  a1 = a1
  a2 = a2
  z0 = z0
  Addrs <- MCAddrs
  Zero <- z0
  Kinds <- MCKindsAll
  MaxListeners = 6
SPECIFICATION Spec
INVARIANT TypeOK
INVARIANT GlobalsOpenPublishAfterBind
INVARIANT NoLeak
INVARIANT PairedOnSameAddr
\* The listeners ever created are bounded: once MaxListeners is reached
\* and no port changes hands, nothing is left to do.
CHECK_DEADLOCK FALSE
