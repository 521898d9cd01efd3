SPECIFICATION Spec
CONSTANTS
  Nil = Nil
  n1 = n1
  n2 = n2
  Names = {n1}
  FixedName = Nil
  Specs <- IdleSpec
  Policies <- NoPolicies
  Warnings = {}
  CreationTimestamp = 0
  Horizon = 3
  ExtendBy = 1
  Remote = FALSE
  RemoteDrift = 2
  TargetUnavailable = 1
  CleanupRequeue = 1
  BestEffort = FALSE
  Features = {"touch"}
  MaxFaults = 1
PROPERTY HeartbeatNotLost
CHECK_DEADLOCK FALSE
