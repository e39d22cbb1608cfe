SPECIFICATION FairSpec
CONSTANTS
  Cap = 4
  Stations <- Proper
  MaxSegments = 6
\* The stream ends.
CHECK_DEADLOCK FALSE
INVARIANTS TypeOK InOrder NoneForgotten
PROPERTIES ImplementsFeed EndsWhenCancelled
