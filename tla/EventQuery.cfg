\* Two requests of a user at a limit of one, a walk through four events in pages of one.
SPECIFICATION FairSpec
CONSTANTS
  Requests = {r1, r2}
  Limit = 1
  MaxFaults = 1
  Walker = r1
  Events = {1, 2, 3, 4}
  BlockOf <- MCBlockOf
  ContractOf <- MCContractOf
  Take = 1
  NoContract = NoContract
INVARIANT QueryTypeOK
INVARIANT OvershootBound
INVARIANT MissedOnlyInTies
PROPERTY LimitIsLifted
CHECK_DEADLOCK FALSE
