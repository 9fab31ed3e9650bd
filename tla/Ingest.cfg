\* One monitor and one backfill task on two logs of a block, a channel of one,
\* two calls of FilterLogs, one restart, one failure.
SPECIFICATION FairSpec
CONSTANTS
  Monitors = {m}
  Listeners = {t}
  Logs = {2, 3}
  LogsPerBlock = 2
  Capacity = 1
  MaxCalls = 2
  MaxBoots = 2
  MaxFaults = 1
  None = None
INVARIANT TypeOK
INVARIANT StoredIsAccounted
INVARIANT AloneOnce
PROPERTY CallsReturn
PROPERTY ImplementsFeed
CHECK_DEADLOCK FALSE
