\* Three lookups of two keys against every kind of reply, on a fairly scheduled
\* loop that may run anything one unit late.
SPECIFICATION FairSpec
CONSTANTS
  Keys = {k1, k2}
  Callbacks = {c1, c2, c3}
  NoItem = NoItem
  CacheExpiry = 1
  CleanInterval = 1
  UpstreamTimeout = 1
  Replies = {"object", "scalar", "failure"}
  Slack = 1
  WaitCap = 4
INVARIANTS
  TypeOK
  OneRequestPerKey
  HeldOnce
  StalenessBound
PROPERTIES
  ServicePromise
  EveryLookupSettled
