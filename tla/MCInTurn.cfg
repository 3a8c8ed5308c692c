\* One call dials at a time, as the bridge does; connections drop or are
\* refused.
SPECIFICATION FairSpec
CONSTANTS
  a = a  b = b  d = d  e = e  s1 = s1  s2 = s2  s3 = s3
  Calls = {a, b, d, e}
  Refused = {e}
  Sockets = {s1, s2, s3}
  NoSocket = NoSocket  NoCall = NoCall
  Overlap = FALSE
  Mishaps = {"refuse", "hangup"}
  MaxHangups = 2
INVARIANTS NoneLeftBehind LossBounded
PROPERTY Settles
CHECK_DEADLOCK FALSE
