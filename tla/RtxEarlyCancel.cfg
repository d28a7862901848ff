\* A callback calls cancel() before spin() has noted its task.
SPECIFICATION LiveSpec
CONSTANTS
  Channels <- MCChannels
  Subs = {}
  Tasks = {t1, t2}
  NONE = NONE
  Spinners = {m1}
  Periods = {1}
  MaxSpins = 1
PROPERTIES
  CancelEndsSpin
\* With nothing armed and no message, every task waits; so it does when the
\* executor is gone.
CHECK_DEADLOCK FALSE
