SPECIFICATION Spec
CONSTANTS
  IP = {1, 2, 3}
  Holder = {n1, n2}
  Limit = {0, 1, 2}
  TTL = 2
  MaxTime = 3
INVARIANT AgeWithinTenure
PROPERTIES StrictLimit GrantWithinLimit NoPreemption
SYMMETRY Symmetry
