\* --sigstat-coalesce 0, documented as "0 to disable".
\* The recursion has no end: the process stops.
CHECK_DEADLOCK FALSE
SPECIFICATION FairSpec
CONSTANTS
  Keys = {k1, k2}
  Callbacks = {c1, c2}
  NoItem = NoItem
  MaxCoalesce = 0
  CoalesceTime = 1
  PositiveCacheTime = 1
  NegativeCacheTime = 1
  CleanInterval = 1
  UpstreamTimeout = 1
  Replies = {"values", "failure"}
  ByHand = TRUE
  Slack = 0
  WaitCap = 3
PROPERTIES
  EveryLookupAnswered
