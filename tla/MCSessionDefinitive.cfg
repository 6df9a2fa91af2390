CONSTANTS
  r1 = r1
  r2 = r2
  Requests = {r1, r2}
  HandshakeAttempts = 4
  TransientLimit = 3
  MaxRenewals = 3
  Faults <- AllFaults
SPECIFICATION Spec
PROPERTIES
  DefinitiveFailureRemembered
