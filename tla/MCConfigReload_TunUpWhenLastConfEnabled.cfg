\* Violation run: TunUpWhenLastConfEnabled
CONSTANTS
  r1 = r1
  r2 = r2
  f1 = f1
  pp1 = pp1
  rp1 = rp1
  rp2 = rp2
  ProxyProviders = {pp1}
  RuleProviders = {rp1, rp2}
  ConcurrentCount = 1
  SelectionCached = TRUE
  NoValue = NoValue
  None <- NoValue
  Configs <- MCConfigs
  Boot <- MCBoot
  Reloaders = {r1, r2}
  Flows = {f1}
SPECIFICATION Spec


\* Every ApplyConfig returns and every flow is handled once: the model ends.
CHECK_DEADLOCK FALSE
INVARIANT TunUpWhenLastConfEnabled
