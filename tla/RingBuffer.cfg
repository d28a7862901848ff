\* A timer, a relay and a last node, the timer faster than the chain.
SPECIFICATION LiveSpec
CONSTANTS
  Messages = {0, 1, 2}
  Null = Null
  capacity_ = 3
  CHAIN_LENGTH = 3
  TOTAL_ROUNDS = 2
  WARMUP_ROUNDS = 1
INVARIANTS
  BufferOK
PROPERTIES
  ImplementsQueue
  RoundSums
  ChainEnds
\* When all rounds are done, every task waits.
CHECK_DEADLOCK FALSE
