SPECIFICATION FairSpec
CONSTANTS
  Request = {r1, r2, r3}
  NoRequest = NoRequest
  Noisy = {r1}
  MaxWorkers = 2
  MaxRedirects = 1
INVARIANTS TypeOK NothingAfterTheEnd TasksEnough QuietOnceGone
PROPERTIES EveryRequestEnds
CHECK_DEADLOCK FALSE
