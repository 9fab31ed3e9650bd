\* Five requests about two events of one contract, two failures.
SPECIFICATION FairSpec
CONSTANTS
  Requests = {1, 2, 3, 4, 5}
  Body <- MCBody
  Chains = {1}
  MaxSignatures = 2
  MaxFaults = 2
INVARIANT OneTaskPerContract
INVARIANT AbiBeforeTask
PROPERTY OrphanStaysOrphan
PROPERTY AcceptedIsBackfilled
CHECK_DEADLOCK FALSE
