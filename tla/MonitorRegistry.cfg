\* Two deliveries of the contract's task, and two launches of a goroutine: by
\* Start, the checker or the tasks, in every pairing.
SPECIFICATION FairSpec
CONSTANTS
  Tasks = {t1, t2}
  Goroutines = {g1, g2}
  None = None
  Background = Background
  checker = checker
INVARIANT TypeOK
INVARIANT FlagHasOwner
INVARIANT NoDoubleMonitoring
PROPERTY PickedUp
CHECK_DEADLOCK FALSE
