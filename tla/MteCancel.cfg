\* Two subscriptions in one mutually exclusive group and a timer in a reentrant
\* one, with or without priorities.  cancel() at any time is to end spin().
SPECIFICATION PicasLiveSpec
CONSTANTS
  s1 = s1
  s2 = s2
  tm = tm
  NONE = NONE
  Subs = {s1, s2}
  Publishers = {p1}
  capacity_ = 1
  Direct = FALSE
  Threads = {t1, t2}
  Timers = {tm}
  Group <- OneGroup
  Exclusive <- FirstGroup
  Priority <- SecondHighest
INVARIANTS
  ExclusiveGroups
  TimersOnce
PROPERTIES
  CancelEnds
  HighestFirst
