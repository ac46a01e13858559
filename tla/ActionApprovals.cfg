SPECIFICATION Spec
CONSTANTS
  ActionIds = {a1}
  PlanIds = {p1}
  CommsIds = {}
  MaxCrashes = 2
  MaxStops = 1
  MaxFaults = 1
INVARIANTS
  TypeOK
  RunsOnlyWhatWasApproved
  ApprovedIsDriven
  JournalLagsOnlyByRegistration
PROPERTIES
  FinalRecordStays
  ApprovalIsSingleUse
CHECK_DEADLOCK FALSE
