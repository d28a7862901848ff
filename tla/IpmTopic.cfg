\* Two subscriptions that share and one that owns; one of another process.
SPECIFICATION Spec
CONSTANTS
  p1 = p1
  p2 = p2
  s1 = s1
  s2 = s2
  s3 = s3
  Publishers = {p1, p2}
  Subs = {s1, s2, s3}
  Sharing = {s1, s2}
  Remotes = {r1}
  Matches <- MCMatches
  MaxSent = 1
SYMMETRY Symmetry
INVARIANTS
  TypeOK
  OwnedAlone
  HandledOnce
PROPERTIES
  RemoteServed
  ImplementsTopic
\* Publishers and subscriptions are destroyed, and then nothing happens.
CHECK_DEADLOCK FALSE
