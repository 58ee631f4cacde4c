\* n2 repairs from n1; the owner dissolves the board, users delete the file, leave, write
CONSTANTS
  None = None
  n1 = n1  n2 = n2
  board = board  chat = chat  file = file  element = element
  cell = cell  note = note  pin = pin  meta = meta
  Node = {n1, n2}
  Id = {board, chat, file, note}
  Kind <- KindDef
  Home <- HomeDef
  Owner <- OwnerDef
  JoinedAt <- JoinedApart
  Stamp = {1, 2}
  Seeded = {board, note}
  SeedStamp = 1
  Deletes = {board, chat, file, note}
  Repairs = {n2}
  Syncs = {}
  DistinctStamps = TRUE
  MaxEdits = 2
  MaxInbox = 1
  MaxDigests = 1
  MaxFaults = 1
SPECIFICATION Spec
INVARIANTS TypeOK Referential RepairSlot DigestSound
PROPERTIES NoRollback StructureFirst
CHECK_DEADLOCK FALSE
