SPECIFICATION Spec
CONSTANTS
  OAuthNames = {o1}
  KeyNames = {k1}
  Scopes = {s1}
  Handlers = {h1, h2}
  Sessions = {q1}
  MaxTokens = 2
  MaxInstalls = 1
  MaxCrashes = 1
  MaxFaults = 1
SYMMETRY HandlerSymmetry
INVARIANTS
  TypeOK
  StoredTokenIsLive
  RevokedStaysRevoked
  MarkSurvivesRefresh
CHECK_DEADLOCK FALSE
