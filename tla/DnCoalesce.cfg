\* Publishers may run before a callback task that was sent an event.
SPECIFICATION Spec
CONSTANTS
  NONE = NONE
  Subs = {s1, s2}
  Publishers = {p1, p2}
  capacity_ = 2
  Direct = TRUE
  Preempts = FALSE
INVARIANTS
  NoStranded
