\* Two channels with a limit each; after the answer for the other, the first is forgotten.
SPECIFICATION Spec
CONSTANTS
  Ops <- MCSends
  Limits <- MCLimits
  LimitOf <- MCLimitOfSends
  Buckets = {"a", "b"}
  BucketOf <- OwnName
  Limit = 1
  Windows = {3}
  MaxAttempts = 2
  MaxPreemptiveWait = 1
  MaxRetryWait = 1
  MaxCalls = 3
  Plans <- MCTwoChannels
  MaxFaults = 0
PROPERTY MajorParametersStay
CHECK_DEADLOCK FALSE
