\* The broadcast of a file's deletion is lost
CONSTANTS
  None = None
  n1 = n1  n2 = n2
  board = board  chat = chat  file = file  element = element
  cell = cell  note = note  pin = pin  meta = meta
  Node = {n1, n2}
  Id = {board, file}
  Kind <- KindDef
  Home <- HomeDef
  Owner <- OwnerDef
  JoinedAt <- JoinedApart
  Stamp = {1, 2}
  Seeded = {board, file}
  SeedStamp = 1
  Deletes = {file}
  Repairs = {n1, n2}
  Syncs = {}
  DistinctStamps = TRUE
  MaxEdits = 1
  MaxInbox = 0
  MaxDigests = 2
  MaxFaults = 0
SPECIFICATION FairSpec
PROPERTIES DeletionsConverge
CHECK_DEADLOCK FALSE
