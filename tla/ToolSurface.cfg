SPECIFICATION FairSpec
CONSTANTS
  ab = ab
  a_b = a_b
  p = p
  p_ = p_
  q = q
  n = n
  builtin = builtin
  Actions = {ab, a_b}
  Plans = {p, p_, q}
  ToolNames = {n, builtin}
  Builtins = {builtin}
  ToolName <- MCToolName
  Rank <- MCRank
  Unknown = Unknown
  Starts <- MCStarts
  MaxChanges = 2
  MaxFailures = 1
  MaxCalls = 1
INVARIANTS
  TypeOK
  HostListIsAnnounced
PROPERTIES
  ExposedToolRuns
  HostCatchesUp
