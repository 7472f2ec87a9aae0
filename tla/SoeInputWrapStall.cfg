SPECIFICATION PerfectSpec
CONSTANTS
  MAX_SEQUENCE = 3
  StreamLen = 6
  HeadOf <- SingleHead
  SizeOf <- SingleSize
  MaxBatch = 1
INVARIANTS
  NotExpectingProcessed
CHECK_DEADLOCK FALSE
