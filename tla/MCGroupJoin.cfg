SPECIFICATION FairSpec
CONSTANTS
  f = f
  j = j
  k = k
  g1 = g1
  None = None
  Node <- MCNode
  Founder = f
  Grant <- MCGrant
  Invites <- MCInvites
  Trusted <- MCTrusted
  Enforcers = {f}
  Leavers = {j}
  Scanners = {j}
  Readers = {j, k}
  MaxJoins = 2
  MaxFaults = 1
  MaxPulls = 1
CHECK_DEADLOCK FALSE
INVARIANTS TypeOK OneReader AuthorizationsStand SlotHeld
PROPERTIES EntitledCatchesUp
