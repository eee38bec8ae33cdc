SPECIFICATION FairSpec
CONSTANTS
  Limit = 1
  Start = 1
  MaxPosts = 3
  MaxChanges = 0
  MaxOut = 1
  MaxFailures = 0
PROPERTIES HolesFill
CHECK_DEADLOCK FALSE
