SPECIFICATION WireSpec
CONSTANTS
  Specs <- MCSpecs
  Altered <- MCAltered
  MaxUint32 = 5
CHECK_DEADLOCK FALSE
INVARIANT UnknownTierFails
