\* Two subscriptions in one mutually exclusive group: the default of a node.
SPECIFICATION ServeSpec
CONSTANTS
  s1 = s1
  s2 = s2
  NONE = NONE
  Subs = {s1, s2}
  Publishers = {p1, p2}
  capacity_ = 2
  Direct = FALSE
  Threads = {t1, t2}
  Group <- OneGroup
  Exclusive <- FirstGroup
INVARIANTS
  NoStranded
