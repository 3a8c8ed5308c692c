\* Calls dial over each other, the client is closed under them, connections
\* drop, are refused, or lead to an executor with another token.
SPECIFICATION Spec
CONSTANTS
  a = a  b = b  d = d  e = e  s1 = s1  s2 = s2  s3 = s3
  Calls = {a, b, d, e}
  Refused = {e}
  Sockets = {s1, s2, s3}
  NoSocket = NoSocket  NoCall = NoCall
  Overlap = TRUE
  Mishaps = {"refuse", "hangup", "token"}
  MaxHangups = 1
SYMMETRY Alike
INVARIANTS TypeOK OwnAnswer
CHECK_DEADLOCK FALSE
