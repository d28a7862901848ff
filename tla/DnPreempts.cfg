\* The callback tasks have priority over the publishers.
SPECIFICATION Spec
CONSTANTS
  NONE = NONE
  Subs = {s1, s2}
  Publishers = {p1, p2, p3}
  capacity_ = 2
  Direct = TRUE
  Preempts = TRUE
INVARIANTS
  TypeOK
  NoStranded
