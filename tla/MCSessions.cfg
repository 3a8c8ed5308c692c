\* A session created, used and closed, one more call, and a second executor.
SPECIFICATION Spec
CONSTANTS
  MaxCalls = 4
  MaxSpawns = 2
  None = None
CHECK_DEADLOCK FALSE
INVARIANTS TypeOK NoUseAfterClose ToldSessionsLive UnknownMeansGone
