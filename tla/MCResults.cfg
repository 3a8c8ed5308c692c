\* Two coordinator processes; two nonces are the limit of the memory and old
\* ones are forgotten while the run lasts: three results in one process meet
\* the limit, and two of them may be in the queue against their times.
SPECIFICATION Spec
CONSTANTS
  u = u  v = v  w = w  x = x  y = y  p1 = p1  p2 = p2  d = d  r = r  s = s
  NoToken = NoToken
  Tokens = {}
  Lease = 1
  MaxAttempts = 1
  Keys = {d, r, s}
  Verifications = {u, v, w, x, y}
  Processes = {p1, p2}
  ProofOf <- Results
  ProcessOf <- Homes
  SignedAt <- SignedFirst
  ProofTTL = 1
  ReplayTTL = 4
  NonceTTL = 1
  MaxSeen = 2
  Delay = 1
  Timely = TRUE
  Mishaps = {"restart", "ledger"}
  MaxClock = 4
SYMMETRY Alike
INVARIANTS TypeOK AcceptedOnce MemoryAgrees RefusalJustified
