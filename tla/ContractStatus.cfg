\* Three blocks, two starts of the process.
SPECIFICATION StatusSpec
CONSTANTS
  StartBlock = 1
  MaxBlock = 2
  MaxBoots = 2
  None = None
INVARIANT ReportedIsCovered
INVARIANT GapOnlyAtHandOver
CHECK_DEADLOCK FALSE
