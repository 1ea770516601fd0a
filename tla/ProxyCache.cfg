\* Three fetches of two keys on a fairly scheduled, punctual loop.
SPECIFICATION FairSpec
CONSTANTS
  Keys = {k1, k2}
  Callbacks = {c1, c2, c3}
  NoEntry = NoEntry
  NoResponse = NoResponse
  Ttls = {0, 1}
  StaleGrace = 1
  CleanInterval = 1
  UpstreamTimeout = 1
  Slack = 0
  WaitCap = 2
INVARIANTS
  TypeOK
  OneRequestPerKey
  HeldOnce
  IdleEntriesGo
PROPERTIES
  ServicePromise
  EveryFetchAnswered
  HitsAreLatest
