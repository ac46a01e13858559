SPECIFICATION FairSpec
CONSTANTS
  ActionIds = {a1}
  PlanIds = {}
  CommsIds = {c1}
  MaxCrashes = 1
  MaxStops = 1
  MaxFaults = 0
INVARIANT CommsSentOnce
PROPERTY ApprovedIsSettled
CHECK_DEADLOCK FALSE
