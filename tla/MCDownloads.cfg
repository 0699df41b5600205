CONSTANTS
  w1 = w1
  p1 = p1
  q = q
  Writers <- OneWriter
  Pollers <- OnePoller
  Queries <- OneQuery
  Failing <- SecondFails
  MaxRequests = 2
  MaxLines = 3
  MaxTs = 2
  MaxFaults = 1
SPECIFICATION Spec
INVARIANT ShownIsSent
INVARIANT RefetchedOnlyWhenLost
PROPERTY SentIsAnswered
CHECK_DEADLOCK FALSE
