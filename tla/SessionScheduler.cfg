\* Two tokens, three jobs, a delay of two ticks on a clock of three; the empty
\* sleep ends beyond the clock, as 24 hours does for delays of minutes.
SPECIFICATION FairSpec
CONSTANTS
  Tokens = {t1, t2}
  Jobs = {j1, j2, j3}
  NoJob = NoJob
  Delay = 2
  LongWait = 4
  MaxTime = 3
INVARIANT MapPointsIntoHeap
INVARIANT NoOversleep
INVARIANT TrackedUnlessCancelled
PROPERTY PostponedByReschedule
PROPERTY PendingIsSettled
CHECK_DEADLOCK FALSE
