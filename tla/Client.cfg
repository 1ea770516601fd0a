\* Two posts on a loop that may be one unit late.
SPECIFICATION FairSpec
CONSTRAINT FirstIsP1
CONSTANTS
  p1 = p1
  p2 = p2
  Posts = {p1, p2}
  Sockets = {s1, s2}
  NoSocket = NoSocket
  NoContext = NoContext
  NoTimer = NoTimer
  UpstreamTimeout = 2
  Slack = 1
  WaitCap = 6
INVARIANTS
  TypeOK
  ContextUsedWhileLive
  AnsweredInTime
PROPERTIES
  TimelyReplyKept
  ServicePromise
  EveryPostAnswered
