\* Two runs of one board, a user's call, a restart: confirm is a review gate,
\* upload sends and is held for ann
CONSTANTS
  None = None
  fetch = fetch  confirm = confirm  render = render  upload = upload
  ann = ann
  Step = {confirm, upload}
  User = {ann}
  Order <- OrderDef
  Deps <- DepsDef
  Boards <- RacesBoards
  AutoAdvance = {}
  Manual = {confirm}
  ReviewGate = {confirm}
  Hold = {upload}
  WaitingOn <- WaitingOnDef
  Sends = {upload}
  NonIdempotent = {upload}
  WavePlans <- OnePlan
  AutoRetryBudget = 1
  MaxBacklog = 2
  MaxRuns = 2
  MaxVerbs = 1
  MaxRestarts = 1
  MaxFaults = 1
SPECIFICATION Spec
INVARIANTS TypeOK SendsApproved HoldByReviewer SentOnce 
CHECK_DEADLOCK FALSE
