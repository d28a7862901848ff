\* Two dispatchers, three threads, and addresses that are not reused too soon.
SPECIFICATION Spec
CONSTANTS
  Threads = {t1, t2, t3}
  Poppers = {p1, p2}
  Nodes = {n1, n2, n3, n4}
  NULL = NULL
  Reuse = FALSE
  s1 = s1
  m1 = m1
  m2 = m2
  Subs = {s1}
  Timers = {m1, m2}
  Group <- MCGroup
  Exclusive <- MCExclusive
  depth = 2
SYMMETRY Symmetry
INVARIANTS
  TypeOK
  
  
  
