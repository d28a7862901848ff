\* Any ioctl in any order, with interrupts between any two steps.  A period of
\* 3 (one system tick) is above MAX_PERIOD and overflows the load computation.
SPECIFICATION Spec
CONSTANTS
  Channels <- MCChannels
  Tasks = {t1}
  NONE = NONE
  INT64_MAX = 99
  TickNs = 1
  MaxLoad = 2
  OverflowNs = 2
  MIN_PERIOD = 2
  MAX_PERIOD = 2
  SysTickNs = 3
  SysTicks = {0, 1}
  NsPeriods <- MCNsPeriods
  MaxDelay = 1
  MaxTime = 4
INVARIANTS
  TypeOK
  PtArmed
  NoDrift
  SkipsMissed
  ClosedQuiet
\* A zero period stored on a running channel hangs pt_isr, and the system.
CHECK_DEADLOCK FALSE
