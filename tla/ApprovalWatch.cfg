SPECIFICATION Spec
CONSTANTS
  Ids = {a1}
  Streams = {w1, w2}
  Buffer = 1
INVARIANTS
  TypeOK
  NoMissedApproval
  NoGhostCard
CHECK_DEADLOCK FALSE
PROPERTY ApprovalIsShown
