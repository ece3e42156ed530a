CONSTANTS
  c1 = c1  c2 = c2  c3 = c3
  e1 = e1  e2 = e2  e3 = e3  e4 = e4
  u1 = u1  u2 = u2  u3 = u3
  Client = {c1, c2}
  Entity = {e1, e2, e3}
  Uri = {u1, u2, u3}
  Owner <- SmallOwner
  Uris <- SmallUris
  Sized = {}
  Limit = 2
  Faults = {"fork fails"}
  NoUri = NoUri
  NoEntity = NoEntity
SPECIFICATION Safety
INVARIANTS
  AbortSparesTheParent
CHECK_DEADLOCK FALSE
