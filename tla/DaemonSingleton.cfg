SPECIFICATION FairSpec
CONSTANTS
  Daemons = {d1, d2}
  Clients = {c1, c2}
  Nobody = Nobody
  MaxRemovals = 1
  MaxKills = 1
  MaxSignals = 1
INVARIANTS
  TypeOK
  OwnerIsAdvertisedUndisturbed
  LoneResolveSucceeds
PROPERTIES
  ResolveEnds
  StrandedDaemonStops
CHECK_DEADLOCK FALSE
