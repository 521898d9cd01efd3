SPECIFICATION FairSpec
CONSTANTS
  Nil = Nil
  a = a
  b = b
  Leases = {a}
  Targets = {1}
  MaxConcurrentReconciles = 2
  ClusterRefs <- NamedOnly
  FromPolicy = {}
  Hash <- Hashes
  MaxActiveLeases <- Capacity
  GateLimit = 1
  MinBack = 2
  MaxBack = 3
  Retry = 1
  Drift = 1
  NewTargets = {}
  Features = {"delete"}
  Handled = {a}
  Troubled = {1}
  MaxEvents = 1
PROPERTY DrainedTargetGoes
CHECK_DEADLOCK FALSE
