\* Requests for two signatures, for one and for none: every interleaving of the
\* two threads, neither of which stops in the middle of what it does.
SPECIFICATION FairSpec
CONSTANTS
  r1 = r1
  r2 = r2
  r3 = r3
  Requests = {r1, r2, r3}
  Messages <- MCMessages
  NumKeys <- MCNumKeys
  MaxChunks = 2
INVARIANTS
  TypeOK
  OneWholeResponse
  NoValueRace
  ResUsedWhileLive
PROPERTIES
  KeepsServerRule
  EveryRequestAnswered
  ResponseArrives
