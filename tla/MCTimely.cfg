\* Three calls with one request, heartbeats on time, everything but a heartbeat
\* may go wrong; with the fairness of clients and threads.
SPECIFICATION FairSpec
CONSTANTS
  a = a  b = b  c = c  r = r
  NoToken = NoToken
  Calls = {a, b, c}
  Tokens = {a, b, c}
  Keys = {r}
  RequestOf <- OneRequest
  Expiry <- ExpiresLater
  ProofExpiry <- ExpiresLater
  Lease = 4
  MaxAttempts = 2
  BeatPeriod = 1
  Stall = 1
  Timely = TRUE
  Mishaps = {"crash", "begin", "finalize", "deny"}
  MaxClock = 7
INVARIANTS Exclusive CompletionRecorded SingleCompletion
PROPERTY OrphanReclaimed
