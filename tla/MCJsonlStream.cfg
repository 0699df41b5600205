CONSTANTS
  a = a
  b = b
  no = no
  Lines <- MCLines
  Width <- MCWidth
  Rejected <- MCRejected
  JSONL_MAX_LINE = 2
  MaxBytes = 6
  MaxFails = 1
  MaxResets = 1
SPECIFICATION FairSpec
INVARIANT ProcessedOnce
PROPERTY EventuallyProcessed
PROPERTY ImplementsLog
CHECK_DEADLOCK FALSE
