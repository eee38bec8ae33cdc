SPECIFICATION FairSpec
CONSTANTS
  Limit = 1
  Start = 1
  MaxPosts = 2
  MaxChanges = 1
  MaxOut = 2
  MaxFailures = 1
PROPERTIES OnlyDeletedVanish HeadAgrees
CHECK_DEADLOCK FALSE
