\* Two requests for one transaction, which may not be mined yet.
SPECIFICATION DispatchSpec
CONSTANTS
  r1 = r1
  r2 = r2
  Requests = {r1, r2}
  Messages <- MCMessages
  MaxChunks = 1
  NumKeys <- MCNumKeys
  RouteSpecs <- MCRouteSpecs
  Incoming <- KeptIncoming
  Statuses = {0, 200}
  MaxDomain = 4
INVARIANT KeptIsImmutable
