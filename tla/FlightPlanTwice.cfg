SPECIFICATION Spec
CONSTANTS
  NumSteps = 2
  Kind <- Short
  Ref <- ShortRefs
  Handlers = {h1, h2}
  MaxCalls = 4
  MaxEntries = 2
INVARIANT ExactlyOnce
CHECK_DEADLOCK FALSE
