SPECIFICATION Spec
CONSTANTS
  ActionIds = {}
  PlanIds = {p1}
  CommsIds = {}
  MaxCrashes = 0
  MaxStops = 1
  MaxFaults = 0
INVARIANT NeverAutoRerun
CHECK_DEADLOCK FALSE
