SPECIFICATION Spec
CONSTANTS
  Ops <- MCOps
  Limits <- MCLimits
  LimitOf <- MCLimitOf
  Buckets = {"a", "b"}
  BucketOf <- OwnName
  Limit = 1
  Windows = {3}
  MaxAttempts = 2
  MaxPreemptiveWait = 1
  MaxRetryWait = 1
  MaxCalls = 3
  Plans <- MCPlans
  MaxFaults = 2
INVARIANTS AtMostOnce SuccessIsReal ErrorsCostFaults SleepIsBounded
PROPERTIES LimitIsKept
CHECK_DEADLOCK FALSE
