SPECIFICATION FairSpec
CONSTANTS
  Nil = Nil
  n1 = n1
  n2 = n2
  Names = {n1}
  FixedName = Nil
  Specs <- RenewableSpec
  Policies <- NoPolicies
  Warnings = {1}
  CreationTimestamp = 0
  Horizon = 3
  ExtendBy = 1
  Remote = TRUE
  RemoteDrift = 2
  TargetUnavailable = 1
  CleanupRequeue = 1
  BestEffort = FALSE
  Features = {"outage", "extend", "fail"}
  MaxFaults = 1
INVARIANT NeverUnscheduled
PROPERTY ExpiredIsCleaned
CHECK_DEADLOCK FALSE
