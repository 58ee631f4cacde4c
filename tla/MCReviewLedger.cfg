SPECIFICATION FairSpec
CONSTANTS
  a = a
  b = b
  n1 = n1
  o1 = o1
  o2 = o2
  None = None
  Device = {a, b}
  Loopers = {a, b}
  Listers = {b}
  Note = {n1}
  Op = {o1, o2}
  AgentOps = {o1}
  Edit <- MCEdit
  Sent <- MCSent
  Verdicts = {"approved", "rejected"}
  Editors = {2}
  Human = 1
  Skew <- MCSkew
  MaxRounds = 1
  MaxTime = 2
  MaxCommands = 4
  MaxDeltas = 1
CHECK_DEADLOCK FALSE
INVARIANTS TypeOK ApprovalsAreGiven DecisionsAgree GatesAreHuman
PROPERTIES RepairJoins LanesSettle
