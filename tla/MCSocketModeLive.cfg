SPECIFICATION FairSpec
CONSTANTS
  Socket = {s1, s2}
  Request = {r1}
  NoSocket = NoSocket
  NoRequest = NoRequest
  BackoffMin = 1
  BackoffMax = 1
  ContentionThreshold = 1
  MaxLoop = 3
  MaxKicks = 1
  MaxForeign = 0
  Spans = {}
  Envelopes = {}
PROPERTIES Recovers GapsEndInBackfill
CHECK_DEADLOCK FALSE
