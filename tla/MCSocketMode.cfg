SPECIFICATION Spec
CONSTANTS
  Socket = {s1, s2}
  Request = {r1, r2}
  NoSocket = NoSocket
  NoRequest = NoRequest
  BackoffMin = 1
  BackoffMax = 2
  ContentionThreshold = 1
  MaxLoop = 2
  MaxKicks = 1
  MaxForeign = 0
  Spans = {"window"}
  Envelopes = {"warning", "disconnect"}
SYMMETRY Symmetry
INVARIANTS SingleFlight NeverStalled NoUnreadSocket QuietAfterStop BackfilledGaps
PROPERTIES BackoffHolds
CHECK_DEADLOCK FALSE
