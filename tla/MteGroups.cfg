\* A mutually exclusive group and a reentrant one, with one subscription each.
SPECIFICATION LiveSpec
CONSTANTS
  s1 = s1
  s2 = s2
  NONE = NONE
  Subs = {s1, s2}
  Publishers = {p1, p2}
  capacity_ = 2
  Direct = FALSE
  Threads = {t1, t2}
  Group <- TwoGroups
  Exclusive <- FirstGroup
INVARIANTS
  TypeOK
  NoStranded
  ExclusiveGroups
  
PROPERTIES
  Served
