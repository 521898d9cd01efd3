SPECIFICATION FairSpec
CONSTANTS
  Nil = Nil
  Sources = {s1, s2}
  Handlers = {h1, h2}
  MaxEvents = 2
  MaxFaults = 1
INVARIANTS
  TypeOK
  ClosedIsHandled
PROPERTIES
  SourceKept
  ReasonKept
  ClosedIsCleaned
CHECK_DEADLOCK FALSE
