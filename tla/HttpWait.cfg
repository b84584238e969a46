\* A window that is too long for the client.
SPECIFICATION Spec
CONSTANTS
  Ops <- MCOps
  Limits <- MCLimits
  LimitOf <- MCLimitOf
  Buckets = {"a", "b"}
  BucketOf <- OwnName
  Limit = 1
  Windows = {3}
  MaxAttempts = 2
  MaxPreemptiveWait = 1
  MaxRetryWait = 2
  MaxCalls = 2
  Plans <- MCPlans
  MaxFaults = 0
PROPERTY WaitIsCapped
