\* Two contracts and two blocks: the cursor one of them moves hides a block
\* from the other.
SPECIFICATION FairSpec
CONSTANTS
  Contracts = {a, b}
  Tasked = {}
  BatchSize = 2
  MaxBlock = 2
PROPERTY MonitoredIndependently
CHECK_DEADLOCK FALSE
