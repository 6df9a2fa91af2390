CONSTANTS
  r1 = r1
  r2 = r2
  r3 = r3
  Requests = {r1, r2, r3}
  HandshakeAttempts = 2
  TransientLimit = 2
  MaxRenewals = 2
  Faults <- LiveFaults
SPECIFICATION FairSpec
INVARIANTS
  OneLapseIsInvisible
PROPERTIES
  EveryRequestReturns
