\* A repair pull races an edit of the element it carries
CONSTANTS
  None = None
  n1 = n1  n2 = n2
  board = board  chat = chat  file = file  element = element
  cell = cell  note = note  pin = pin  meta = meta
  Node = {n1, n2}
  Id = {board, element}
  Kind <- KindDef
  Home <- HomeDef
  Owner <- OwnerDef
  JoinedAt <- JoinedApart
  Stamp = {1, 2}
  Seeded = {board, element}
  SeedStamp = 1
  Deletes = {}
  Repairs = {n2}
  Syncs = {}
  DistinctStamps = TRUE
  MaxEdits = 1
  MaxInbox = 0
  MaxDigests = 1
  MaxFaults = 0
SPECIFICATION Spec
PROPERTIES SnapshotMonotone
CHECK_DEADLOCK FALSE
