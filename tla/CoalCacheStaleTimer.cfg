\* A timer whose batch was full before it fired.
SPECIFICATION Spec
CONSTANTS
  Keys = {k1, k2, k3}
  Callbacks = {c1, c2, c3}
  NoItem = NoItem
  MaxCoalesce = 2
  CoalesceTime = 2
  PositiveCacheTime = 1
  NegativeCacheTime = 1
  CleanInterval = 1
  UpstreamTimeout = 1
  Replies = {"values"}
  ByHand = FALSE
  Slack = 0
  WaitCap = 3
PROPERTIES
  StaleTimerSendsNothing
