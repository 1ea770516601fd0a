\* The same with a JSON-RPC error in a 2xx reply.
SPECIFICATION FairSpec
CONSTANTS
  Keys = {k1, k2}
  Callbacks = {c1, c2}
  NoItem = NoItem
  MaxCoalesce = 2
  CoalesceTime = 1
  PositiveCacheTime = 1
  NegativeCacheTime = 1
  CleanInterval = 1
  UpstreamTimeout = 1
  Replies = {"values", "failure", "rpc_error"}
  ByHand = TRUE
  Slack = 0
  WaitCap = 3
PROPERTIES
  EveryLookupAnswered
