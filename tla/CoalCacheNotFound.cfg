\* --negative-cache-time 0, documented as never caching not-found results.
SPECIFICATION Spec
CONSTANTS
  Keys = {k1, k2}
  Callbacks = {c1, c2}
  NoItem = NoItem
  MaxCoalesce = 2
  CoalesceTime = 1
  PositiveCacheTime = 1
  NegativeCacheTime = 0
  CleanInterval = 1
  UpstreamTimeout = 1
  Replies = {"values"}
  ByHand = TRUE
  Slack = 0
  WaitCap = 3
INVARIANTS
  NotFoundNotCached
