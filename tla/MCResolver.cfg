\* Every resolver function on every configuration, answer and host kind.
CONSTANTS
  n1 = n1
  a4 = a4
  a6 = a6
  m6 = m6
  NoAddr = NoAddr
  None <- NoAddr
  Names = {n1}
  V4 = {a4}
  V6 = {a6, m6}
  V4in6 = {m6}
  AddrsOf <- MCAddrsOf
SPECIFICATION Spec
INVARIANT TypeOK
INVARIANT NoIPv6WhenDisabled
INVARIANT LiteralNoNetwork
