\* Two overlapping deliveries; ranges of up to two chunks, the second cut
\* short by the head; a channel of one.
SPECIFICATION FairSpec
CONSTANTS
  Tasks = {t1, t2}
  StartBlock = 0
  ChunkSize = 2
  ChannelSize = 1
  LogBlocks = {2, 4}
  MaxBlock = 4
  None = None
INVARIANT ClosedIsCovered
INVARIANT EachLogOnce
PROPERTY ImplementsProgress
PROPERTY BothEnd
CHECK_DEADLOCK FALSE
