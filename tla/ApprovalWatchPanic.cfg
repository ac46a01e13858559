SPECIFICATION Spec
CONSTANTS
  Ids = {a1}
  Streams = {w1}
  Buffer = 1
INVARIANT NoBroadcastPanics
CHECK_DEADLOCK FALSE
