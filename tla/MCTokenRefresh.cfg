SPECIFICATION FairSpec
CONSTANTS
  Call = {c1, c2}
  MaxToken = 2
  MaxQuits = 1
INVARIANTS AtMostTwoSends NeverStranded WaitersHaveARefresh
PROPERTIES NothingOutWhileRefreshing EveryCallAnswered
CHECK_DEADLOCK FALSE
