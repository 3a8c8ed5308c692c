\* Three calls with one request; clock readings, leases, heartbeats and the
\* expiry of the request race freely, and everything may go wrong.
SPECIFICATION Spec
CONSTANTS
  a = a  b = b  c = c  r = r
  NoToken = NoToken
  Calls = {a, b, c}
  Tokens = {a, b, c}
  Keys = {r}
  RequestOf <- OneRequest
  Expiry <- ExpiresLate
  ProofExpiry <- ExpiresLate
  Lease = 2
  MaxAttempts = 2
  BeatPeriod = 1
  Stall = 0
  Timely = FALSE
  Mishaps = {"crash", "beat", "begin", "finalize", "deny"}
  MaxClock = 5
SYMMETRY SameRequest
INVARIANTS TypeOK RetryBudget RunningFenced
PROPERTY GateSpec
