\* Three streams, so that the array grows twice and its slots are used again
\* after a removal; one monitor goroutine, channels of one slot.
SPECIFICATION FairSpec
CONSTANTS
  Streams = {s1, s2, s3}
  Broadcasters = {monitor}
  Empty = Empty
  Cap = 1
INVARIANT TypeOK
INVARIANT SubscriptionExact
INVARIANT ExactAheadOfLeavers
INVARIANT PanicOnlyOnLeaver
PROPERTY BroadcastReturns
CHECK_DEADLOCK FALSE
