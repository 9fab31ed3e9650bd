\* Two contracts on a chain of up to three blocks, fetched two by two; a task
\* registers one of them, at any time of Monitor.Start, which launches the other.
SPECIFICATION FairSpec
CONSTANTS
  Contracts = {a, b}
  Tasked = {a}
  BatchSize = 2
  MaxBlock = 3
INVARIANT ChainCovered
INVARIANT AloneExactlyOnce
PROPERTY ImplementsCursor
PROPERTY CatchesUp
CHECK_DEADLOCK FALSE
