CONSTANTS
  c1 = c1  c2 = c2  c3 = c3
  e1 = e1  e2 = e2  e3 = e3  e4 = e4
  u1 = u1  u2 = u2  u3 = u3
  Client = {c1, c2, c3}
  Entity = {e1, e2, e3, e4}
  Uri = {u1, u2, u3}
  Owner <- WideOwner
  Uris <- WideUris
  Sized = {e1}
  Limit = 2
  Faults = {"performer crashes"}
  NoUri = NoUri
  NoEntity = NoEntity
SPECIFICATION Safety
INVARIANTS
  TypeOK
  SlotLimit
  EveryRequestIsSomewhere
  OneWriterPerTarget
PROPERTIES
  ImplementsService
CHECK_DEADLOCK FALSE
