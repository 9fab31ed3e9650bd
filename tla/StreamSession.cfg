\* Two streams, the second of which may replace the first at any point of it;
\* two disconnect calls; Redis may fail, and then lets a blacklisted token in.
SPECIFICATION ConnFairSpec
CONSTANTS
  Handlers = {s1, s2}
  Calls = {d1, d2}
  NoStream = NoStream
  Bearer = FALSE
  RedisFails = TRUE
INVARIANT TrackedIsLive
INVARIANT UntrackedIsCancelled
PROPERTY ToldStreamsEnd
CHECK_DEADLOCK FALSE
