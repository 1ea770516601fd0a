\* Two lookups against a loop that may run anything one unit late, fairly scheduled.
SPECIFICATION FairSpec
CONSTANTS
  Keys = {k1, k2}
  Callbacks = {c1, c2}
  NoItem = NoItem
  MaxCoalesce = 2
  CoalesceTime = 1
  PositiveCacheTime = 1
  NegativeCacheTime = 2
  CleanInterval = 1
  UpstreamTimeout = 1
  Replies = {"values", "failure", "rpc_error"}
  ByHand = TRUE
  Slack = 1
  WaitCap = 6
INVARIANT StalenessBound
PROPERTIES
  ServicePromise
  EveryLookupSettled
