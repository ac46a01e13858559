SPECIFICATION Spec
CONSTANTS
  h1 = h1
  h2 = h2
  h3 = h3
  r1 = r1
  r2 = r2
  owner = owner
  repo = repo
  sub = sub
  c1 = c1
  c2 = c2
  act = act
  Jobs = {j1, j2}
  Clis = {k1}
  Hashes = {h1, h2, h3}
  Refs = {r1, r2}
  Scopes = {owner, repo, sub}
  NoHash = NoHash
  Unsigned = Unsigned
  Missing = Missing
  Empty = Empty
  Garbled = Garbled
  Contents = {c1, c2}
  Names = {act}
  RefOf <- MCRefOf
  FqnOf <- MCFqnOf
  OwnerOf <- MCOwnerOf
  AuthOf <- MCAuthOf
  NameOf <- MCNameOf
  Deps <- MCDeps
  Signer <- MCSigner
  Asks <- MCAsks
  Trusted = {owner}
  Stored = {h1}
  Drafts <- MCDrafts
  MaxRequests = 2
  MaxFaults = 1
  MaxEdits = 1
INVARIANTS
  TypeOK
  NoDanglingReference
  AckedConnectorIsKnown
  LoadedIsCurrent
  RevokeHolds
SYMMETRY MCSymmetry
CHECK_DEADLOCK FALSE
