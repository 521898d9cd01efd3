SPECIFICATION FairSpec
CONSTANTS
  Nil = Nil
  l1 = l1
  l2 = l2
  k1 = k1
  k2 = k2
  c1 = c1
  c2 = c2
  Leases = {l1, l2}
  NameOf <- SameName
  Controls = {k1, k2}
  ControlOf <- TwoControls
  Clusters = {c1, c2}
  Home = c1
  MaxFaults = 2
INVARIANTS
  TypeOK
  NoOrphanOnRecordedCluster
PROPERTIES
  DeletesOwn
  CleanupEnds
CHECK_DEADLOCK FALSE
