\* Every order of three lookups and the loop's steps, with a punctual loop.
SPECIFICATION Spec
CONSTANTS
  Keys = {k1, k2}
  Callbacks = {c1, c2, c3}
  NoItem = NoItem
  MaxCoalesce = 2
  CoalesceTime = 2
  PositiveCacheTime = 1
  NegativeCacheTime = 2
  CleanInterval = 1
  UpstreamTimeout = 1
  Replies = {"values", "failure", "rpc_error"}
  ByHand = TRUE
  Slack = 0
  WaitCap = 4
SYMMETRY Symmetry
INVARIANTS
  TypeOK
  OneRequestPerKey
  HeldOnce
  BatchLimit
PROPERTIES
  CalledOnce
