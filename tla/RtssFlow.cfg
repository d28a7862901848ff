\* The documented order of calls, with a running clock and interrupts taken.
\* A period of 3 is truncated to one PT count.
SPECIFICATION LiveSpec
CONSTANTS
  Channels <- MCChannels
  Tasks = {t1}
  NONE = NONE
  INT64_MAX = 99
  TickNs = 2
  MaxLoad = 2
  OverflowNs = 4
  MIN_PERIOD = 2
  MAX_PERIOD = 4
  SysTickNs = 2
  SysTicks = {0}
  NsPeriods = {3}
  MaxDelay = 1
  MaxTime = 4
INVARIANTS
  IsrReturns
PROPERTIES
  IsrServesAll
  ImplementsService
  DueIsServed
