\* Up to five calls of one feature agent.
SPECIFICATION Spec
CONSTANTS
  a = a  b = b  c = c
  None = None
  Agents <- Ranked
  Owner = c
  Cent = 10
  Amounts = {10, 130}
  Qualities = {40, 80, 100}
  Terms = {0, 1}
  Records <- Tenants
  MaxCalls = 5
  MaxClock = 3
CHECK_DEADLOCK FALSE
INVARIANTS TypeOK KeptAsTold GrantUntilExpiry AggregateClose UsedAsStored PaidFromLastLock
PROPERTIES WinnerStable PerfectKeepsPlace
