\* n2 missed an old row and holds a newer one
CONSTANTS
  None = None
  n1 = n1  n2 = n2
  board = board  chat = chat  file = file  element = element
  cell = cell  note = note  pin = pin  meta = meta
  Node = {n1, n2}
  Id = {board, chat, note}
  Kind <- KindDef
  Home <- HomeDef
  Owner <- OwnerDef
  JoinedAt <- JoinedTogether
  Stamp = {1, 2}
  Seeded = {board}
  SeedStamp = 1
  Deletes = {}
  Repairs = {}
  Syncs = {n2}
  DistinctStamps = TRUE
  MaxEdits = 2
  MaxInbox = 1
  MaxDigests = 1
  MaxFaults = 0
SPECIFICATION Spec
INVARIANTS CatchUpEqualsFullPull
CHECK_DEADLOCK FALSE
