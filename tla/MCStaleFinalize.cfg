\* A heartbeat thread dies, the lease is taken over, the successor completes,
\* and the first call records its failure.
SPECIFICATION Spec
CONSTANTS
  a = a  b = b  c = c  r = r
  NoToken = NoToken
  Calls = {a, b, c}
  Tokens = {a, b, c}
  Keys = {r}
  RequestOf <- OneRequest
  Expiry <- NeverExpires
  ProofExpiry <- NeverExpires
  Lease = 4
  MaxAttempts = 2
  BeatPeriod = 1
  Stall = 1
  Timely = FALSE
  Mishaps = {"beat"}
  MaxClock = 6
SYMMETRY SameRequest
PROPERTY OutcomeFenced
