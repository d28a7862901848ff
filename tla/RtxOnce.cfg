\* One spin() and the destructor: how every experiment uses the executor.
\* There may be fewer RTEMS tasks than callbacks, so that a start fails,
\* and a period of less than a tick.
SPECIFICATION LiveSpec
CONSTANTS
  Channels <- MCChannels
  Subs = {s1, s2}
  Tasks = {t1, t2}
  NONE = NONE
  Spinners = {m1}
  Periods = {0, 1}
  MaxSpins = 1
INVARIANTS
  TypeOK
  TasksMatch
  TargetsLive
  
  DestroyedIsQuiet
PROPERTIES
  CancelWakesSpin
  
\* With nothing armed and no message, every task waits; so it does when the
\* executor is gone.
CHECK_DEADLOCK FALSE
