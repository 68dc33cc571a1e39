\* match() against its reference definition, rule lists of up to 3 rules.
CONSTANTS
  None_ = None_
  None <- None_
  RuleSet <- MCRuleSet
  MaxRules = 3
  Proxies <- MCProxies
  Names <- MCNames
SPECIFICATION Spec
INVARIANT TypeOK
PROPERTY MatchImplementsSpec
INVARIANT AtMostOneDNSLookup
INVARIANT ProcessLookupRepeatedOnlyAfterFailure
