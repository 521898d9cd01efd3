SPECIFICATION Spec
CONSTANTS
  Nil = Nil
  n1 = n1
  n2 = n2
  Names = {n1, n2}
  FixedName = Nil
  Specs <- FixedTermSpecs
  Policies <- TwoPolicies
  Warnings = {}
  CreationTimestamp = 0
  Horizon = 2
  ExtendBy = 1
  Remote = FALSE
  RemoteDrift = 2
  TargetUnavailable = 1
  CleanupRequeue = 1
  BestEffort = FALSE
  Features = {"edit", "drift", "policy", "expire", "resync"}
  MaxFaults = 1
INVARIANTS
  NoOrphan
  OneNamespace
  ReadyHasNamespace
  SettledObeysPolicy
PROPERTIES
  NonRenewableNeverLater
  ImplementsLifecycle
CHECK_DEADLOCK FALSE
