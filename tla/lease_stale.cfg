SPECIFICATION Spec
CONSTANTS
  Nil = Nil
  n1 = n1
  n2 = n2
  Names = {n1}
  FixedName = n1
  Specs <- IdleSpec
  Policies <- NoPolicies
  Warnings = {}
  CreationTimestamp = 0
  Horizon = 3
  ExtendBy = 1
  Remote = TRUE
  RemoteDrift = 2
  TargetUnavailable = 1
  CleanupRequeue = 1
  BestEffort = FALSE
  Features = {"stale", "exhausted", "touch", "expire", "crash", "outage"}
  MaxFaults = 1
INVARIANTS
  TypeOK
  DeadlinesOrdered
PROPERTIES
  FinalizerHeldUntilNamespaceGone
  CleanupIsFinal
  TeardownJustified
CHECK_DEADLOCK FALSE
