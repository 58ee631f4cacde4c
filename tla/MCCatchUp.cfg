\* n2 catches up on, or pulls, what n1 and n2 write on one board
CONSTANTS
  None = None
  n1 = n1  n2 = n2
  board = board  chat = chat  file = file  element = element
  cell = cell  note = note  pin = pin  meta = meta
  Node = {n1, n2}
  Id = {board, element, cell, note, pin, meta}
  Kind <- KindDef
  Home <- HomeDef
  Owner <- OwnerDef
  JoinedAt <- JoinedTogether
  Stamp = {1, 2}
  Seeded = {board}
  SeedStamp = 1
  Deletes = {board, element, cell, note}
  Repairs = {}
  Syncs = {n2}
  DistinctStamps = TRUE
  MaxEdits = 2
  MaxInbox = 1
  MaxDigests = 1
  MaxFaults = 0
SPECIFICATION Spec
INVARIANTS RowsAuthored
PROPERTIES ImplementsConvergentStore
CHECK_DEADLOCK FALSE
