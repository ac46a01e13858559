SPECIFICATION Spec
CONSTANTS
  NumSteps = 4
  Kind <- Mixed
  Ref <- MixedRefs
  Handlers = {h1, h2}
  MaxCalls = 5
  MaxEntries = 3
INVARIANTS
  TypeOK
  EffectsAreConsented
  OnceWhenSerial
  AskedOnceWhenSerial
  AuditedOnceWhenSerial
  OverIsGoneWhenSerial
CHECK_DEADLOCK FALSE
