\* Every delta lost: both peers repair each other from digests alone
CONSTANTS
  None = None
  n1 = n1  n2 = n2
  board = board  chat = chat  file = file  element = element
  cell = cell  note = note  pin = pin  meta = meta
  Node = {n1, n2}
  Id = {board, chat, note}
  Kind <- KindDef
  Home <- HomeDef
  Owner <- OwnerDef
  JoinedAt <- JoinedApart
  Stamp = {1, 2}
  Seeded = {board}
  SeedStamp = 1
  Deletes = {}
  Repairs = {n1, n2}
  Syncs = {}
  DistinctStamps = TRUE
  MaxEdits = 2
  MaxInbox = 0
  MaxDigests = 2
  MaxFaults = 0
SPECIFICATION FairSpec
PROPERTIES Converges
CHECK_DEADLOCK FALSE
