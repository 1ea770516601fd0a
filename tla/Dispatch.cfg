\* Two requests of any kinds, nested routes: every interleaving of the threads.
SPECIFICATION DispatchFairSpec
CONSTRAINT InOrder
CONSTANTS
  r1 = r1
  r2 = r2
  Requests = {r1, r2}
  Messages <- MCMessages
  MaxChunks = 1
  NumKeys <- MCNumKeys
  RouteSpecs <- MCRouteSpecs
  Incoming <- MCIncoming
  Statuses = {0, 200}
  MaxDomain = 4
INVARIANTS
  DispatchTypeOK
  ForwardedRight
  RightAnswer
  KeptByPolicy
PROPERTIES
  KeepsServerRule
  EveryRequestSettled
