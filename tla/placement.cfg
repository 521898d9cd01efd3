SPECIFICATION FairSpec
CONSTANTS
  Nil = Nil
  a = a
  b = b
  Leases = {a, b}
  Targets = {1, 2, 3}
  MaxConcurrentReconciles = 2
  ClusterRefs <- Refs
  FromPolicy = {b}
  Hash <- Hashes
  MaxActiveLeases <- Capacity
  GateLimit = 1
  MinBack = 2
  MaxBack = 3
  Retry = 1
  Drift = 1
  NewTargets = {1}
  Features = {"down","badSecret","disable","relabel","delete","retarget","lag"}
  Handled = {a}
  Troubled = {1}
  MaxEvents = 1
INVARIANTS
  TypeOK
  OverrunUnseen
  EnvironmentWhereRecorded
PROPERTIES
  Converges
  CleanupConverges
CHECK_DEADLOCK FALSE
