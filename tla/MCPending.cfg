\* The pending list of a worker, with no administrator at work.
SPECIFICATION Spec
CONSTANTS
  c = c  w = w  act = act  p = p  q = q
  d1 = d1  d2 = d2  w1 = w1  w2 = w2
  key = key  new = new  old = old
  None = None  Torn = Torn
  Agents = {c, w}
  Actions = {act}
  Params = {p, q}
  Delegators = {d1, d2}
  Processors = {w1, w2}
  AgentOf <- Runs
  Decisions <- Routed
  GatewayKey = key
  Context <- Contexts
  Asked <- Asks
  Policies <- Permits
  Adjusted <- Adjusts
  MaxAttempts = 2
  MaxAdmin = 0
SYMMETRY SameWork
CHECK_DEADLOCK FALSE
INVARIANT PendingSent
