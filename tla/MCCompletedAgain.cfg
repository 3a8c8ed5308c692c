\* Nothing goes wrong and everyone is on time; the request expires between
\* the validation of one call and its begin transaction.
SPECIFICATION Spec
CONSTANTS
  a = a  b = b  c = c  r = r
  NoToken = NoToken
  Calls = {a, b, c}
  Tokens = {a, b, c}
  Keys = {r}
  RequestOf <- OneRequest
  Expiry <- ExpiresSoon
  ProofExpiry <- ExpiresSoon
  Lease = 4
  MaxAttempts = 2
  BeatPeriod = 1
  Stall = 1
  Timely = TRUE
  Mishaps = {}
  MaxClock = 6
SYMMETRY SameRequest
PROPERTY CompletedSingleUse
