\* Three commits of main, and two tries of a release.
SPECIFICATION Spec
CONSTANTS
  MaxCommits = 3
  MaxRuns = 2
  None = None
CHECK_DEADLOCK FALSE
PROPERTIES InputAttested
