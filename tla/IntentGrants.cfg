\* One intent and four requests: a create, two deciders and a run, or a create,
\* two runs and an evidence request or a callback, in every interleaving.
CONSTANTS
  Intents = {i1}
  WriteIntents = {i1}
  Policies = {p1}
  Priority <- MCPriority
  Requests = {h1, h2, h3, h4}
  NoGrant = NoGrant
SPECIFICATION Spec
SYMMETRY Symmetry
INVARIANTS
  TypeOK
  DecidedOnceUncontested
  SerialRecordAgrees
PROPERTIES
  GrantIsSingleUse
CHECK_DEADLOCK FALSE
