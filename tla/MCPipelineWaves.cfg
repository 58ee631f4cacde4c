\* One run from any earlier state of the board, along every plan: fetch and render
\* advance by themselves, confirm is a gate, upload sends
CONSTANTS
  None = None
  fetch = fetch  confirm = confirm  render = render  upload = upload
  ann = ann
  Step = {fetch, confirm, render, upload}
  User = {ann}
  Order <- OrderDef
  Deps <- DepsDef
  Boards <- WavesBoards
  AutoAdvance = {fetch, render}
  Manual = {confirm}
  ReviewGate = {confirm}
  Hold = {}
  WaitingOn <- WaitingOnDef
  Sends = {upload}
  NonIdempotent = {upload}
  WavePlans <- AllPlans
  AutoRetryBudget = 1
  MaxBacklog = 2
  MaxRuns = 1
  MaxVerbs = 0
  MaxRestarts = 1
  MaxFaults = 1
SPECIFICATION Spec
INVARIANTS DependenciesDone
PROPERTIES DoneCoversBoard RunsEnd
CHECK_DEADLOCK FALSE
