---------------------------- MODULE ClientProofs ----------------------------
(***************************************************************************)
(* Theorems about Client, for any posts, sockets and times: no event is     *)
(* given a curl_context that is gone, no reply that came in time is thrown *)
(* away, and every handler is called once and in time.                     *)
(***************************************************************************)
EXTENDS Client, CommonLemmas
LOCAL INSTANCE FiniteSetsExt

\* A transfer that is under way is on a socket.
RunningOnSocket == \A q \in Running : on[q] \in Sockets

\* An event that is due has its context: whatever deletes one deletes its event.
ActiveHaveContext == \A s \in active : s \in Sockets /\ watched[s] # NoContext

CtxInv ==
  /\ on \in [Posts -> Sockets \cup {NoSocket}]
  /\ stage \in [Posts -> Stages]
  /\ RunningOnSocket
  /\ ActiveHaveContext
  /\ ContextUsedWhileLive

LEMMA CtxInitially == Init => CtxInv
BY DEF Init, CtxInv, Stages, UnderWay, Running, RunningOnSocket, ActiveHaveContext, ContextUsedWhileLive

\* A call of libcurl keeps every transfer that is under way on a socket.
LEMMA SocketActionPlaces ==
  ASSUME CtxInv, NEW told \in SUBSET Posts, SocketAction(told)
  PROVE  /\ on' \in [Posts -> Sockets \cup {NoSocket}]
         /\ stage' \in [Posts -> Stages]
         /\ RunningOnSocket'
<1>1. PICK begin \in Beginnings, place \in Placements :
        /\ stage' = [q \in Posts |-> IF q \in Added THEN begin[q]
                                     ELSE IF q \in Running THEN Progress(q, q \in told)
                                     ELSE stage[q]]
        /\ on' = [q \in Posts |-> IF stage'[q] = "done" THEN NoSocket
                                  ELSE IF q \in Added THEN place[q] ELSE on[q]]
  BY DEF SocketAction
<1>2. /\ \A q \in Added : begin[q] \in {"connecting", "awaiting", "done"}
      /\ \A q \in Added : place[q] \in Sockets
  BY DEF Beginnings, Placements, FreeSockets
<1>3. \A q \in Posts : /\ q \in Added <=> stage[q] = "added"
                       /\ q \in Running <=> stage[q] \in UnderWay
  BY DEF Added, Running
<1>4. \A q \in Running : Progress(q, q \in told) \in UnderWay \cup {"done"}
  BY <1>3 DEF Progress, Running, UnderWay
<1>5. stage' \in [Posts -> Stages]
  BY <1>1, <1>2, <1>3, <1>4 DEF CtxInv, Stages, UnderWay
<1>6. on' \in [Posts -> Sockets \cup {NoSocket}]
  BY <1>1, <1>2 DEF CtxInv
<1>7. ASSUME NEW q \in Posts, stage'[q] \in UnderWay
      PROVE  on'[q] \in Sockets
  <2>1. CASE q \in Added
    BY <1>1, <1>2, <1>7, <2>1 DEF UnderWay
  <2>2. CASE q \notin Added
    <3>1. on'[q] = on[q]
      BY <1>1, <1>7, <2>2 DEF UnderWay
    <3>2. q \in Running
      BY <1>1, <1>3, <1>7, <2>2
    <3>3. QED BY <3>1, <3>2 DEF CtxInv, RunningOnSocket
  <2>3. QED BY <2>1, <2>2
<1>8. QED BY <1>5, <1>6, <1>7 DEF RunningOnSocket, Running

\* An event that is due after a call of libcurl still has its context.
LEMMA SocketActionKeepsContexts ==
  ASSUME CtxInv, NEW told \in SUBSET Posts, SocketAction(told),
         active' \subseteq EventDeleted(Gone)
  PROVE  ActiveHaveContext'
<1>1. \A s \in EventDeleted(Gone) : s \in Sockets /\ watched'[s] # NoContext
  BY DEF EventDeleted, Gone, CtxInv, ActiveHaveContext
<1>2. QED BY <1>1 DEF ActiveHaveContext

LEMMA CtxKept == CtxInv /\ [Next]_vars => CtxInv'
<1> SUFFICES ASSUME CtxInv, [Next]_vars PROVE CtxInv'
  OBVIOUS
<1>1. ASSUME NEW q \in Posts, Post(q) PROVE CtxInv'
  BY <1>1 DEF Post, CtxInv, Stages, UnderWay, Running, RunningOnSocket, ActiveHaveContext,
              ContextUsedWhileLive
<1>2. ASSUME NEW q \in Posts, AddHandle(q) PROVE CtxInv'
  BY <1>2 DEF AddHandle, CtxInv, Stages, UnderWay, Running, RunningOnSocket, ActiveHaveContext,
              ContextUsedWhileLive
<1>3. ASSUME NEW q \in Posts, Upstream(q) PROVE CtxInv'
  BY <1>3 DEF Upstream, curl, CtxInv, Running, RunningOnSocket, ActiveHaveContext,
              ContextUsedWhileLive
<1>4. CASE OnTimeout
  <2>1. SocketAction({}) /\ active' = EventDeleted(Gone) /\ UNCHANGED misused
    BY <1>4 DEF OnTimeout
  <2>2. QED
    BY <2>1, SocketActionPlaces, SocketActionKeepsContexts
    DEF CtxInv, ContextUsedWhileLive
<1>5. CASE Poll
  <2>1. /\ active' = {on[q] : q \in Noticed}
        /\ UNCHANGED <<stage, on, watched, misused>>
    BY <1>5 DEF Poll
  <2>2. ActiveHaveContext'
    BY <2>1 DEF CtxInv, RunningOnSocket, ActiveHaveContext, Noticed
  <2>3. QED
    BY <2>1, <2>2 DEF CtxInv, Running, RunningOnSocket, ContextUsedWhileLive
<1>6. ASSUME NEW s \in Sockets, Perform(s) PROVE CtxInv'
  <2> DEFINE told == {q \in Running : on[q] = s}
  <2>1. /\ SocketAction(told) /\ told \in SUBSET Posts
        /\ active' \subseteq EventDeleted(Gone)
    BY <1>6 DEF Perform, Running
  <2>2. ~misused'
    BY <1>6 DEF Perform, CtxInv, ActiveHaveContext, ContextUsedWhileLive
  <2>3. QED
    BY <2>1, <2>2, SocketActionPlaces, SocketActionKeepsContexts
    DEF CtxInv, ContextUsedWhileLive
<1>7. CASE Tick
  BY <1>7 DEF Tick, CtxInv, Running, RunningOnSocket, ActiveHaveContext,
              ContextUsedWhileLive
<1>8. CASE UNCHANGED vars
  BY <1>8 DEF vars, curl, CtxInv, Running, RunningOnSocket, ActiveHaveContext,
              ContextUsedWhileLive
<1>9. QED BY <1>1, <1>2, <1>3, <1>4, <1>5, <1>6, <1>7, <1>8 DEF Next, LoopStep, RunJob

\* When libcurl gives up sockets in the midst of a turn of the loop, no event
\* of that turn is called with a context that was deleted.
THEOREM ContextNeverStale == Spec => []ContextUsedWhileLive
<1>1. CtxInv => ContextUsedWhileLive
  BY DEF CtxInv
<1>2. QED BY <1>1, CtxInitially, CtxKept, PTL DEF Spec

-----------------------------------------------------------------------------
(* The next timeout *)

\* libcurl has a least time to name whenever there is one.
LEMMA LeastOf ==
  ASSUME NEW S \in SUBSET Nat, S # {}
  PROVE  Min(S) \in S /\ \A y \in S : Min(S) <= y
BY LeastExists DEF Min

-----------------------------------------------------------------------------
(* A call of libcurl *)

\* What has been heard of a transfer goes with how far it is.
WireInv ==
  \A q \in Posts : /\ wire[q] = "connected" => stage[q] = "connecting"
                   /\ wire[q] = "headers" => stage[q] = "awaiting"
                   /\ wire[q] = "replied" => stage[q] \in {"awaiting", "receiving"}
                   /\ wire[q] = "reset" => stage[q] \in UnderWay

\* A handler is called when its transfer is over, and not before.
OnceInv == \A q \in Posts : answer[q] # "none" <=> stage[q] = "done"

\* Transfers that are under way are on sockets of their own, and each socket's
\* event waits for what its transfer needs next.
SocketsInv ==
  /\ \A p, q \in Running : on[p] = on[q] => p = q
  /\ \A q \in Running :
       /\ watched[on[q]] \in SUBSET {"READ", "WRITE"}
       /\ stage[q] = "connecting" => "WRITE" \in watched[on[q]]
       /\ stage[q] \in {"awaiting", "receiving"} => "READ" \in watched[on[q]]

SafeInv == TypeOK /\ CtxInv /\ messages = {} /\ WireInv /\ OnceInv /\ SocketsInv

\* How far each transfer is after the call, where it is and what time it has.
LEMMA CallView ==
  ASSUME SafeInv, NEW told \in SUBSET Posts, SocketAction(told)
  PROVE  /\ \A q \in Posts : /\ q \in Added <=> stage[q] = "added"
                             /\ q \in Running <=> stage[q] \in UnderWay
                             /\ q \in Running' <=> stage'[q] \in UnderWay
         /\ \A q \in Added : stage'[q] \in {"connecting", "awaiting", "done"}
         /\ \A q \in Running : stage'[q] = Progress(q, q \in told)
         /\ \A q \in Posts \ (Added \cup Running) : stage'[q] = stage[q]
         /\ \A q \in Running' : q \in Added \/ (q \in Running /\ ~Expired(q))
         /\ \A q \in Running' : left'[q] = IF q \in Added THEN UpstreamTimeout ELSE left[q]
         /\ left' \in [Posts -> Int] /\ unseen' \in [Posts -> 0..Slack]
         /\ \A q \in Posts : LET fresh == q \in told \/ stage'[q] = "done"
                             IN  /\ wire'[q] = IF fresh THEN "nothing" ELSE wire[q]
                                 /\ unseen'[q] = IF fresh THEN 0 ELSE unseen[q]
         /\ wire' = [q \in Posts |-> wire'[q]]
         /\ lateJob' \subseteq lateJob /\ timely' \subseteq timely
         /\ \A q \in lateJob : q \in Running' => q \in lateJob'
         /\ \A q \in timely' : q \in Posts => q \notin Running \/ stage'[q] # "done"
         /\ UNCHANGED waited
<1>1. PICK begin \in Beginnings :
        /\ stage' = [q \in Posts |-> IF q \in Added THEN begin[q]
                                     ELSE IF q \in Running THEN Progress(q, q \in told)
                                     ELSE stage[q]]
        /\ left' = [q \in Posts |-> IF stage'[q] = "done" THEN 0
                                    ELSE IF q \in Added THEN UpstreamTimeout ELSE left[q]]
        /\ wire' = [q \in Posts |-> IF q \in told \/ stage'[q] = "done" THEN "nothing"
                                    ELSE wire[q]]
        /\ unseen' = [q \in Posts |-> IF q \in told \/ stage'[q] = "done" THEN 0
                                      ELSE unseen[q]]
        /\ lateJob' = lateJob \ {q \in Running \cup Added : stage'[q] = "done"}
        /\ timely' = timely \ {q \in Running \cup Added : stage'[q] = "done"}
        /\ UNCHANGED waited
  BY DEF SocketAction
<1>2. \A q \in Posts : /\ q \in Added <=> stage[q] = "added"
                       /\ q \in Running <=> stage[q] \in UnderWay
                       /\ q \in Running' <=> stage'[q] \in UnderWay
  BY DEF Added, Running
<1>3. \A q \in Added : q \in Posts /\ begin[q] \in {"connecting", "awaiting", "done"}
  BY DEF Beginnings, Added
<1>4. \A q \in Running : q \in Posts /\ q \notin Added
  BY <1>2 DEF Running, UnderWay
<1>5. /\ \A q \in Added : stage'[q] \in {"connecting", "awaiting", "done"}
      /\ \A q \in Running : stage'[q] = Progress(q, q \in told)
      /\ \A q \in Posts \ (Added \cup Running) : stage'[q] = stage[q]
  BY <1>1, <1>3, <1>4
<1>6. \A q \in Running' : q \in Posts /\ stage'[q] # "done"
  BY <1>2 DEF Running, UnderWay
<1>7. \A q \in Running' : q \in Added \/ (q \in Running /\ ~Expired(q))
  <2>1. ASSUME NEW q \in Running', q \notin Added PROVE q \in Running /\ ~Expired(q)
    <3>1. q \in Running
      BY <1>2, <1>5, <1>6, <2>1
    <3>2. Progress(q, q \in told) # "done"
      BY <1>5, <1>6, <3>1
    <3>3. QED BY <3>1, <3>2 DEF Progress
  <2>2. QED BY <2>1
<1>8. \A q \in Running' : left'[q] = IF q \in Added THEN UpstreamTimeout ELSE left[q]
  BY <1>1, <1>6
<1>9. left' \in [Posts -> Int] /\ unseen' \in [Posts -> 0..Slack]
  BY <1>1, ClientAssumption DEF SafeInv, TypeOK
<1>10. /\ \A q \in Posts : LET fresh == q \in told \/ stage'[q] = "done"
                            IN  /\ wire'[q] = IF fresh THEN "nothing" ELSE wire[q]
                                /\ unseen'[q] = IF fresh THEN 0 ELSE unseen[q]
       /\ wire' = [q \in Posts |-> wire'[q]]
  BY <1>1
<1>11. /\ lateJob' \subseteq lateJob /\ timely' \subseteq timely
       /\ \A q \in lateJob : q \in Running' => q \in lateJob'
       /\ \A q \in timely' : q \in Posts => q \notin Running \/ stage'[q] # "done"
  BY <1>1, <1>6
<1>12. QED BY <1>1, <1>2, <1>5, <1>7, <1>8, <1>9, <1>10, <1>11

\* Each handler whose transfer ends is called with its result, and no other is.
LEMMA CallAnswers ==
  ASSUME SafeInv, NEW told \in SUBSET Posts, SocketAction(told)
  PROVE  /\ messages' = {}
         /\ \A q \in Posts :
              IF q \in Running \cup Added /\ stage'[q] = "done"
              THEN answer'[q] \in Outcomes(q) ELSE answer'[q] = answer[q]
         /\ answer' \in [Posts -> Results \cup {"none"}]
<1> DEFINE over == {q \in Running \cup Added : stage'[q] = "done"}
<1>1. PICK result \in {f \in [over -> Results] : \A q \in over : f[q] \in Outcomes(q)} :
        check_multi_info(messages \cup {<<q, result[q]>> : q \in over})
  BY DEF SocketAction
<1> DEFINE all == messages \cup {<<q, result[q]>> : q \in over}
<1>2. /\ messages' = all \ all
      /\ answer' = [q \in Posts |-> IF \E m \in all : m[1] = q
                                    THEN (CHOOSE m \in all : m[1] = q)[2] ELSE answer[q]]
  BY <1>1 DEF check_multi_info, Read
<1>3. all = {<<q, result[q]>> : q \in over}
  BY DEF SafeInv
<1>4. \A q \in over : result[q] \in Outcomes(q) /\ result[q] \in Results
  BY <1>1 DEF Outcomes
<1> HIDE DEF over
<1>5. ASSUME NEW q \in Posts, q \in over PROVE answer'[q] = result[q]
  <2>1. <<q, result[q]>> \in all /\ \A m \in all : m[1] = q => m = <<q, result[q]>>
    BY <1>3, <1>5
  <2>2. (\E m \in all : m[1] = q) /\ (CHOOSE m \in all : m[1] = q) = <<q, result[q]>>
    BY <2>1
  <2> HIDE DEF all
  <2>3. QED BY <1>2, <2>2
<1>6. ASSUME NEW q \in Posts, q \notin over PROVE answer'[q] = answer[q]
  <2>1. ~ \E m \in all : m[1] = q
    BY <1>3, <1>6
  <2> HIDE DEF all
  <2>2. QED BY <1>2, <2>1
<1>7. answer' = [q \in Posts |-> answer'[q]]
  <2> HIDE DEF all
  <2>1. QED BY <1>2
<1>8. answer' \in [Posts -> Results \cup {"none"}]
  BY <1>4, <1>5, <1>6, <1>7 DEF SafeInv, TypeOK
<1>9. \A q \in Posts : q \in over <=> q \in Running \cup Added /\ stage'[q] = "done"
  BY DEF over
<1>10. messages' = {}
  BY <1>2
<1>11. QED BY <1>4, <1>5, <1>6, <1>8, <1>9, <1>10

\* The socket of each transfer is its own, and waits for what it needs.
LEMMA CallSockets ==
  ASSUME SafeInv, NEW told \in SUBSET Posts, SocketAction(told)
  PROVE  /\ SocketsInv'
         /\ watched' \in [Sockets -> (SUBSET {"READ", "WRITE"}) \cup {NoContext}]
<1>1. PICK place \in Placements, out \in {"POLL_OUT", "POLL_INOUT"} :
        /\ on' = [q \in Posts |-> IF stage'[q] = "done" THEN NoSocket
                                  ELSE IF q \in Added THEN place[q] ELSE on[q]]
        /\ watched' = [s \in Sockets |-> handle_socket(Wish(s, out))]
  BY DEF SocketAction
<1>2. /\ \A q \in Added : /\ place[q] \in Sockets
                          /\ \A p \in Running : place[q] # on[p]
                          /\ \A p \in Added : place[p] = place[q] => p = q
  BY DEF Placements, FreeSockets
<1>3. \A q \in Running' : /\ q \in Posts /\ stage'[q] \in UnderWay
                          /\ q \in Added \/ (q \in Running /\ q \notin Added)
  BY CallView DEF Running, Added
<1>4. \A q \in Running' : on'[q] = IF q \in Added THEN place[q] ELSE on[q]
  BY <1>1, <1>3 DEF UnderWay
<1>5. \A q \in Running' : on'[q] \in Sockets
  BY <1>2, <1>3, <1>4 DEF SafeInv, CtxInv, RunningOnSocket
<1>6. \A p, q \in Running' : on'[p] = on'[q] => p = q
  BY <1>2, <1>3, <1>4 DEF SafeInv, SocketsInv
<1>7. \A s \in Sockets : watched'[s] = handle_socket(Wish(s, out))
  BY <1>1
<1>8. /\ \A w : handle_socket(w) \in (SUBSET {"READ", "WRITE"}) \cup {NoContext}
      /\ "WRITE" \in handle_socket(out) /\ handle_socket(out) \in SUBSET {"READ", "WRITE"}
      /\ "READ" \in handle_socket("POLL_IN")
      /\ handle_socket("POLL_IN") \in SUBSET {"READ", "WRITE"}
  BY DEF handle_socket, Events
<1>9. ASSUME NEW q \in Running', stage'[q] = "connecting"
      PROVE  Wish(on'[q], out) = out
  BY <1>3, <1>9 DEF Wish
<1>10. ASSUME NEW q \in Running', stage'[q] \in {"awaiting", "receiving"}
       PROVE  Wish(on'[q], out) = "POLL_IN"
  <2>1. ~ \E p \in Posts : on'[p] = on'[q] /\ stage'[p] = "connecting"
    <3>1. ASSUME NEW p \in Posts, on'[p] = on'[q], stage'[p] = "connecting"
          PROVE  FALSE
      <4>1. p \in Running'
        BY <3>1 DEF Running, UnderWay
      <4>2. p = q
        BY <1>6, <3>1, <4>1
      <4>3. QED BY <1>10, <3>1, <4>2
    <3>2. QED BY <3>1
  <2>2. QED BY <1>3, <1>10, <2>1 DEF Wish
<1>11. ASSUME NEW q \in Running'
       PROVE  /\ watched'[on'[q]] \in SUBSET {"READ", "WRITE"}
              /\ stage'[q] = "connecting" => "WRITE" \in watched'[on'[q]]
              /\ stage'[q] \in {"awaiting", "receiving"} => "READ" \in watched'[on'[q]]
  <2>1. watched'[on'[q]] = handle_socket(Wish(on'[q], out))
    BY <1>5, <1>7
  <2>2. QED BY <1>3, <1>8, <1>9, <1>10, <2>1 DEF UnderWay
<1>12. SocketsInv'
  BY <1>6, <1>11 DEF SocketsInv
<1>13. watched' \in [Sockets -> (SUBSET {"READ", "WRITE"}) \cup {NoContext}]
  <2>1. \A s \in Sockets : watched'[s] \in (SUBSET {"READ", "WRITE"}) \cup {NoContext}
    BY <1>7, <1>8
  <2>2. watched' = [s \in Sockets |-> watched'[s]]
    BY <1>1
  <2>3. QED BY <2>1, <2>2
<1>14. QED BY <1>12, <1>13

\* The timer is set to the least of the times that are left, all still to come.
LEMMA CallTimer ==
  ASSUME SafeInv, NEW told \in SUBSET Posts, SocketAction(told)
  PROVE  /\ timer' \in Int \cup {NoTimer}
         /\ timer' # NoTimer => timer' > 0
         /\ \A q \in Running' : timer' # NoTimer /\ timer' <= left'[q]
<1> DEFINE running == {q \in Posts : stage'[q] \in UnderWay}
           times == {left'[q] : q \in running}
<1>1. timer' = IF running = {} THEN NoTimer ELSE Min(times)
  BY DEF SocketAction, NextTimeout, start_timeout
<1>2. \A q : q \in Running' <=> q \in running
  BY DEF Running
<1>3. \A q \in running : left'[q] \in Nat /\ left'[q] > 0
  <2>1. ASSUME NEW q \in running PROVE left'[q] \in Nat /\ left'[q] > 0
    <3>1. /\ left'[q] = IF q \in Added THEN UpstreamTimeout ELSE left[q]
          /\ q \in Added \/ (q \in Running /\ ~Expired(q))
      BY <1>2, <2>1, CallView
    <3>2. q \in Posts /\ left[q] \in Int
      BY <2>1 DEF SafeInv, TypeOK
    <3>3. q \in Running /\ ~Expired(q) => left[q] > 0
      BY <3>2 DEF Expired
    <3> HIDE DEF running
    <3>4. QED BY <3>1, <3>2, <3>3, ClientAssumption
  <2>2. QED BY <2>1
<1> HIDE DEF running
<1>4. CASE running = {}
  BY <1>1, <1>2, <1>4
<1>5. CASE running # {}
  <2>1. times \in SUBSET Nat /\ times # {}
    BY <1>3, <1>5
  <2>2. Min(times) \in times /\ \A y \in times : Min(times) <= y
    BY <2>1, LeastOf
  <2>3. timer' \in Nat /\ timer' > 0 /\ \A q \in running : timer' <= left'[q]
    BY <1>1, <1>3, <1>5, <2>2
  <2>4. QED BY <1>2, <2>3, ClientAssumption
<1>6. QED BY <1>4, <1>5

\* So a call of libcurl keeps what is said of transfers, sockets and handlers.
LEMMA CallSafe ==
  ASSUME SafeInv, NEW told \in SUBSET Posts, SocketAction(told),
         active' \subseteq EventDeleted(Gone), UNCHANGED misused
  PROVE  SafeInv'
<1>1. CtxInv'
  BY SocketActionPlaces, SocketActionKeepsContexts
  DEF SafeInv, CtxInv, ContextUsedWhileLive
<1>2. TypeOK'
  <2>1. active' \subseteq Sockets
    BY <1>1 DEF CtxInv, ActiveHaveContext
  <2>2. /\ stage' \in [Posts -> Stages]
        /\ on' \in [Posts -> Sockets \cup {NoSocket}]
    BY <1>1 DEF CtxInv
  <2>3. /\ left' \in [Posts -> Int] /\ unseen' \in [Posts -> 0..Slack]
        /\ wire' \in [Posts -> {"nothing", "connected", "headers", "replied", "reset"}]
        /\ lateJob' \subseteq Posts /\ timely' \subseteq Posts
        /\ UNCHANGED waited
    BY CallView DEF SafeInv, TypeOK
  <2>4. /\ watched' \in [Sockets -> (SUBSET {"READ", "WRITE"}) \cup {NoContext}]
        /\ timer' \in Int \cup {NoTimer}
        /\ messages' = {} /\ answer' \in [Posts -> Results \cup {"none"}]
    BY CallSockets, CallTimer, CallAnswers
  <2>5. QED BY <2>1, <2>2, <2>3, <2>4 DEF SafeInv, TypeOK
<1>3. /\ \A q \in Posts : /\ q \in Added <=> stage[q] = "added"
                          /\ q \in Running <=> stage[q] \in UnderWay
      /\ \A q \in Added : stage'[q] \in {"connecting", "awaiting", "done"}
      /\ \A q \in Running : stage'[q] = Progress(q, q \in told)
      /\ \A q \in Posts \ (Added \cup Running) : stage'[q] = stage[q]
      /\ \A q \in Posts : wire'[q] = IF q \in told \/ stage'[q] = "done" THEN "nothing"
                                    ELSE wire[q]
  BY CallView
<1>4. \A q \in Running : /\ stage'[q] \in UnderWay \cup {"done"}
                         /\ q \in told \/ stage'[q] \in {stage[q], "done"}
  BY <1>3 DEF Progress, Running, UnderWay
<1>5. WireInv'
  <2>1. ASSUME NEW q \in Posts, wire'[q] # "nothing"
        PROVE  wire'[q] = wire[q] /\ stage'[q] = stage[q]
    <3>1. q \notin told /\ stage'[q] # "done" /\ wire'[q] = wire[q]
      BY <1>3, <2>1
    <3>2. q \in Running
      BY <1>3, <2>1, <3>1 DEF SafeInv, WireInv, TypeOK, UnderWay
    <3>3. QED BY <1>4, <3>1, <3>2
  <2>2. QED BY <2>1 DEF SafeInv, WireInv
<1>6. OnceInv'
  <2>1. /\ \A q \in Posts : IF q \in Running \cup Added /\ stage'[q] = "done"
                            THEN answer'[q] \in Outcomes(q) ELSE answer'[q] = answer[q]
        /\ \A q \in Posts : "none" \notin Outcomes(q)
    BY CallAnswers DEF Outcomes, Results
  <2>2. ASSUME NEW q \in Posts PROVE answer'[q] # "none" <=> stage'[q] = "done"
    BY <1>3, <1>4, <2>1 DEF SafeInv, OnceInv, UnderWay
  <2>3. QED BY <2>2 DEF OnceInv
<1>7. QED BY <1>1, <1>2, <1>5, <1>6, CallSockets, CallAnswers DEF SafeInv

-----------------------------------------------------------------------------
(* The steps *)

LEMMA SafeInit == Init => SafeInv
<1> SUFFICES ASSUME Init PROVE SafeInv
  OBVIOUS
<1>1. TypeOK
  <2>1. 0 \in Int /\ 0 \in 0..Slack /\ 0 \in 0..WaitCap
    BY ClientAssumption
  <2>2. QED BY <2>1 DEF Init, TypeOK, Stages, UnderWay
<1>2. QED
  BY <1>1, CtxInitially
  DEF Init, SafeInv, WireInv, OnceInv, SocketsInv, Running, UnderWay

\* What a transfer is ready for, its event waits for: libevent notices it.
LEMMA ReadyNoticed ==
  ASSUME SafeInv, NEW q \in Posts, Ready(q) # {}
  PROVE  q \in Noticed
<1>1. q \in Running /\ stage[q] \in UnderWay
  BY DEF Ready, Running, SafeInv, WireInv, UnderWay
<1>2. /\ watched[on[q]] # NoContext
      /\ stage[q] = "connecting" => "WRITE" \in watched[on[q]]
      /\ stage[q] \in {"awaiting", "receiving"} => "READ" \in watched[on[q]]
  BY <1>1, ClientAssumption DEF SafeInv, SocketsInv
<1>3. /\ stage[q] = "connecting" => "WRITE" \in Ready(q)
      /\ stage[q] \in {"awaiting", "receiving"} => "READ" \in Ready(q)
  BY <1>1 DEF Ready, SafeInv, WireInv
<1>4. QED BY <1>1, <1>2, <1>3 DEF Noticed, UnderWay

LEMMA SafeStep == SafeInv /\ [Next]_vars => SafeInv'
<1> SUFFICES ASSUME SafeInv, [Next]_vars PROVE SafeInv'
  OBVIOUS
<1>1. CtxInv'
  BY CtxKept DEF SafeInv
<1>2. ASSUME NEW q \in Posts, Post(q) \/ AddHandle(q) PROVE SafeInv'
  <2>1. PICK s \in {"queued", "added"} : stage' = [stage EXCEPT ![q] = s]
    BY <1>2 DEF Post, AddHandle
  <2>2. /\ stage[q] \in {"none", "queued"} /\ UNCHANGED <<net, on, watched, messages, answer>>
        /\ UNCHANGED <<left, active, misused, waited>>
        /\ timer' \in {timer, 0} /\ lateJob' \subseteq lateJob \cup {q} /\ timely' = timely
    BY <1>2 DEF Post, AddHandle, start_timeout
  <2>3. TypeOK'
    BY <2>1, <2>2 DEF SafeInv, TypeOK, Stages, net
  <2>4. WireInv' /\ OnceInv'
    BY <2>1, <2>2 DEF SafeInv, TypeOK, WireInv, OnceInv, UnderWay, net
  <2>5. Running' = Running /\ \A p \in Running : stage'[p] = stage[p]
    BY <2>1, <2>2 DEF Running, SafeInv, TypeOK, UnderWay
  <2>6. SocketsInv'
    BY <2>2, <2>5 DEF SafeInv, SocketsInv
  <2>7. QED BY <1>1, <2>2, <2>3, <2>4, <2>6 DEF SafeInv
<1>3. ASSUME NEW q \in Posts, Upstream(q) PROVE SafeInv'
  <2>1. PICK w \in {"connected", "headers", "replied", "reset"} :
          /\ wire' = [wire EXCEPT ![q] = w]
          /\ w = "connected" => stage[q] = "connecting"
          /\ w = "headers" => stage[q] = "awaiting"
          /\ w = "replied" => stage[q] \in {"awaiting", "receiving"}
          /\ timely' \subseteq timely \cup {q}
    BY <1>3 DEF Upstream
  <2>2. q \in Running /\ UNCHANGED <<unseen, curl, misused, waited, answer, lateJob>>
    BY <1>3 DEF Upstream
  <2>3. TypeOK' /\ WireInv'
    BY <2>1, <2>2 DEF SafeInv, TypeOK, WireInv, curl, Running
  <2>4. OnceInv' /\ SocketsInv' /\ messages' = {}
    BY <2>2 DEF SafeInv, OnceInv, SocketsInv, Running, curl
  <2>5. QED BY <1>1, <2>3, <2>4 DEF SafeInv
<1>4. CASE OnTimeout
  <2>1. SocketAction({}) /\ active' = EventDeleted(Gone) /\ UNCHANGED misused
    BY <1>4 DEF OnTimeout
  <2>2. QED BY <2>1, CallSafe
<1>5. CASE Poll
  <2>1. active' = {on[q] : q \in Noticed} /\ \A q \in Noticed : on[q] \in Sockets
    BY <1>5 DEF Poll, Noticed, SafeInv, CtxInv, RunningOnSocket
  <2>2. /\ UNCHANGED <<net, stage, on, left, watched, timer, messages, misused, waited>>
        /\ UNCHANGED <<answer, lateJob, timely>>
    BY <1>5 DEF Poll
  <2>3. TypeOK'
    BY <2>1, <2>2 DEF SafeInv, TypeOK, net
  <2>4. QED
    BY <1>1, <2>2, <2>3 DEF SafeInv, WireInv, OnceInv, SocketsInv, Running, net
<1>6. ASSUME NEW s \in Sockets, Perform(s) PROVE SafeInv'
  <2> DEFINE told == {q \in Running : on[q] = s}
  <2>1. /\ SocketAction(told) /\ told \in SUBSET Posts
        /\ active' \subseteq EventDeleted(Gone)
    BY <1>6 DEF Perform, Running
  <2>2. UNCHANGED misused
    <3>1. misused' = (misused \/ watched[s] = NoContext) /\ s \in active
      BY <1>6 DEF Perform
    <3>2. watched[s] # NoContext /\ misused \in BOOLEAN
      BY <3>1 DEF SafeInv, TypeOK, CtxInv, ActiveHaveContext
    <3>3. QED BY <3>1, <3>2
  <2>3. QED BY <2>1, <2>2, CallSafe
<1>7. CASE Tick
  <2>1. /\ UNCHANGED <<wire, stage, on, watched, active, messages, misused, answer>>
        /\ UNCHANGED <<lateJob, timely>>
        /\ left' = [q \in Posts |-> IF q \in Running THEN left[q] - 1 ELSE left[q]]
        /\ timer' = IF timer = NoTimer THEN NoTimer ELSE timer - 1
        /\ unseen' = [q \in Posts |-> IF Ready(q) # {} THEN unseen[q] + 1 ELSE unseen[q]]
        /\ waited' = [q \in Posts |-> IF q \in Pending /\ waited[q] < WaitCap
                                      THEN waited[q] + 1 ELSE waited[q]]
    BY <1>7 DEF Tick
  <2>2. unseen' \in [Posts -> 0..Slack]
    <3>1. ASSUME NEW q \in Posts, Ready(q) # {} PROVE unseen[q] < Slack
      BY <1>7, <3>1, ReadyNoticed DEF Tick
    <3>2. \A q \in Posts : unseen[q] \in 0..Slack
      BY DEF SafeInv, TypeOK
    <3>3. QED BY <2>1, <3>1, <3>2, ClientAssumption
  <2>3. waited' \in [Posts -> 0..WaitCap]
    BY <2>1, ClientAssumption DEF SafeInv, TypeOK
  <2>4. left' \in [Posts -> Int] /\ timer' \in Int \cup {NoTimer}
    BY <2>1 DEF SafeInv, TypeOK
  <2>5. TypeOK'
    BY <2>1, <2>2, <2>3, <2>4 DEF SafeInv, TypeOK
  <2>6. QED
    BY <1>1, <2>1, <2>5 DEF SafeInv, WireInv, OnceInv, SocketsInv, Running
<1>8. CASE UNCHANGED vars
  BY <1>1, <1>8
  DEF vars, net, curl, SafeInv, TypeOK, WireInv, OnceInv, SocketsInv, Running
<1>9. QED BY <1>2, <1>3, <1>4, <1>5, <1>6, <1>7, <1>8 DEF Next, LoopStep, RunJob

LEMMA SafeAlways == Spec => []SafeInv
BY SafeInit, SafeStep, PTL DEF Spec

\* The client's variables have their types in every reachable state; of that,
\* libcurl is told of whatever a socket is ready for within Slack, because the
\* event of the socket waits for it.
THEOREM ClientTypeCorrect == Spec => []TypeOK
<1>1. SafeInv => TypeOK
  BY DEF SafeInv
<1>2. QED BY <1>1, SafeAlways, PTL

-----------------------------------------------------------------------------
(* Replies *)

\* Who calls handlers is libcurl, in the timer's callback or an event's.
LEMMA WhoCalls ==
  ASSUME [Next]_vars
  PROVE  \/ answer' = answer
         \/ \E told \in SUBSET Posts : SocketAction(told)
<1>1. CASE OnTimeout
  BY <1>1 DEF OnTimeout
<1>2. ASSUME NEW s \in Sockets, Perform(s)
      PROVE  \E told \in SUBSET Posts : SocketAction(told)
  <2>1. SocketAction({q \in Running : on[q] = s}) /\ {q \in Running : on[q] = s} \in SUBSET Posts
    BY <1>2 DEF Perform, Running
  <2>2. QED BY <2>1
<1>3. ASSUME \/ \E q \in Posts : Post(q) \/ AddHandle(q) \/ Upstream(q)
             \/ Poll \/ Tick \/ UNCHANGED vars
      PROVE  answer' = answer
  BY <1>3 DEF Post, AddHandle, Upstream, Poll, Tick, vars
<1>4. QED BY <1>1, <1>2, <1>3 DEF Next, LoopStep, RunJob

\* A reply that was complete in time has not been readable for as long as it was
\* early, and an event waits for it.
TimelyInv ==
  \A q \in timely : /\ q \in Running /\ wire[q] \in {"replied", "reset"}
                    /\ wire[q] = "replied" => left[q] + unseen[q] > Slack

LEMMA TimelyCall ==
  ASSUME SafeInv, TimelyInv, NEW told \in SUBSET Posts, SocketAction(told)
  PROVE  TimelyInv'
<1>1. /\ \A q \in Running : stage'[q] = Progress(q, q \in told)
      /\ \A q \in Posts : /\ q \in Added <=> stage[q] = "added"
                          /\ q \in Running <=> stage[q] \in UnderWay
                          /\ q \in Running' <=> stage'[q] \in UnderWay
      /\ \A q \in Running' : left'[q] = IF q \in Added THEN UpstreamTimeout ELSE left[q]
      /\ \A q \in Posts : LET fresh == q \in told \/ stage'[q] = "done"
                          IN  /\ wire'[q] = IF fresh THEN "nothing" ELSE wire[q]
                              /\ unseen'[q] = IF fresh THEN 0 ELSE unseen[q]
      /\ timely' \subseteq timely
      /\ \A q \in timely' : q \in Posts => q \notin Running \/ stage'[q] # "done"
  BY CallView
<1>2. ASSUME NEW q \in timely'
      PROVE  /\ q \in Running' /\ wire'[q] = wire[q]
             /\ left'[q] = left[q] /\ unseen'[q] = unseen[q]
  <2>1. /\ q \in timely /\ q \in Running /\ q \in Posts
        /\ wire[q] \in {"replied", "reset"} /\ stage'[q] # "done"
    BY <1>1, <1>2 DEF TimelyInv, SafeInv, TypeOK
  <2>2. q \notin told /\ stage'[q] = stage[q]
    BY <1>1, <2>1 DEF Progress
  <2>3. q \in Running' /\ q \notin Added
    BY <1>1, <2>1, <2>2 DEF UnderWay
  <2>4. QED BY <1>1, <2>1, <2>2, <2>3
<1>3. QED BY <1>1, <1>2 DEF TimelyInv

LEMMA TimelyStep == SafeInv /\ TimelyInv /\ [Next]_vars => TimelyInv'
<1> SUFFICES ASSUME SafeInv, TimelyInv, [Next]_vars PROVE TimelyInv'
  OBVIOUS
<1>1. ASSUME NEW q \in Posts, Post(q) \/ AddHandle(q) PROVE TimelyInv'
  <2>1. /\ stage[q] \in {"none", "queued"} /\ UNCHANGED <<wire, unseen, left, timely>>
        /\ \E s \in {"queued", "added"} : stage' = [stage EXCEPT ![q] = s]
    BY <1>1 DEF Post, AddHandle, net
  <2>2. \A p \in Running : p \in Running'
    BY <2>1 DEF Running, UnderWay, SafeInv, TypeOK
  <2>3. QED BY <2>1, <2>2 DEF TimelyInv
<1>2. ASSUME NEW q \in Posts, Upstream(q) PROVE TimelyInv'
  <2>1. PICK w \in {"connected", "headers", "replied", "reset"} :
          /\ wire' = [wire EXCEPT ![q] = w]
          /\ w \in {"connected", "headers"} => wire[q] = "nothing"
          /\ wire[q] # w
          /\ timely' = IF w = "replied" /\ left[q] > Slack THEN timely \cup {q} ELSE timely
          /\ w = "replied" => wire[q] # "reset"
    BY <1>2 DEF Upstream
  <2>2. q \in Running /\ UNCHANGED <<unseen, left, stage>> /\ Running' = Running
    BY <1>2 DEF Upstream, curl, Running
  <2>3. left[q] \in Int /\ unseen[q] \in Int /\ unseen[q] >= 0
    BY ClientAssumption DEF SafeInv, TypeOK
  <2>4. ASSUME NEW p \in timely', p # q
        PROVE  /\ p \in Running' /\ wire'[p] \in {"replied", "reset"}
               /\ wire'[p] = "replied" => left'[p] + unseen'[p] > Slack
    BY <2>1, <2>2, <2>4 DEF TimelyInv, SafeInv, TypeOK
  <2>5. ASSUME q \in timely'
        PROVE  /\ q \in Running' /\ wire'[q] \in {"replied", "reset"}
               /\ wire'[q] = "replied" => left'[q] + unseen'[q] > Slack
    <3>1. wire'[q] = w
      BY <2>1 DEF SafeInv, TypeOK
    <3>2. CASE q \in timely
      BY <2>1, <2>2, <3>1, <3>2 DEF TimelyInv
    <3>3. CASE q \notin timely
      BY <2>1, <2>2, <2>3, <2>5, <3>1, <3>3, ClientAssumption
    <3>4. QED BY <3>2, <3>3
  <2>6. QED BY <2>4, <2>5 DEF TimelyInv
<1>3. ASSUME NEW told \in SUBSET Posts, SocketAction(told) PROVE TimelyInv'
  BY <1>3, TimelyCall
<1>4. CASE OnTimeout
  BY <1>3, <1>4 DEF OnTimeout
<1>5. ASSUME NEW s \in Sockets, Perform(s) PROVE TimelyInv'
  <2>1. SocketAction({q \in Running : on[q] = s}) /\ {q \in Running : on[q] = s} \in SUBSET Posts
    BY <1>5 DEF Perform, Running
  <2>2. QED BY <1>3, <2>1
<1>6. CASE Tick
  <2>1. /\ UNCHANGED <<wire, stage, timely>> /\ Running' = Running
        /\ left' = [q \in Posts |-> IF q \in Running THEN left[q] - 1 ELSE left[q]]
        /\ unseen' = [q \in Posts |-> IF Ready(q) # {} THEN unseen[q] + 1 ELSE unseen[q]]
    BY <1>6 DEF Tick, Running
  <2>2. ASSUME NEW q \in timely', wire'[q] = "replied"
        PROVE  left'[q] + unseen'[q] > Slack
    <3>1. /\ q \in Running /\ q \in Posts /\ wire[q] = "replied"
          /\ left[q] + unseen[q] > Slack
      BY <2>1, <2>2 DEF TimelyInv, SafeInv, TypeOK
    <3>2. "READ" \in Ready(q)
      BY <3>1 DEF Ready
    <3>3. left[q] \in Int /\ unseen[q] \in Int
      BY <3>1 DEF SafeInv, TypeOK
    <3>4. QED BY <2>1, <3>1, <3>2, <3>3, ClientAssumption
  <2>3. QED BY <2>1, <2>2 DEF TimelyInv
<1>7. ASSUME Poll \/ UNCHANGED vars PROVE TimelyInv'
  <2>1. UNCHANGED <<wire, unseen, left, stage, timely>>
    BY <1>7 DEF Poll, vars, curl, net
  <2>2. QED BY <2>1 DEF TimelyInv, Running
<1>8. QED BY <1>1, <1>2, <1>4, <1>5, <1>6, <1>7 DEF Next, LoopStep, RunJob

LEMMA ReplyKept ==
  ASSUME SafeInv, TimelyInv, [Next]_vars, NEW q \in Posts,
         answer[q] = "none", answer'[q] # "none", wire[q] = "replied", q \in timely
  PROVE  answer'[q] = "reply"
<1>1. PICK told \in SUBSET Posts : SocketAction(told)
  BY WhoCalls
<1>2. answer'[q] \in Outcomes(q)
  BY <1>1, CallAnswers
<1>3. /\ left[q] \in Int /\ unseen[q] \in Int /\ unseen[q] <= Slack
      /\ left[q] + unseen[q] > Slack
  BY ClientAssumption DEF SafeInv, TypeOK, TimelyInv
<1>4. ~Expired(q)
  BY <1>3, ClientAssumption DEF Expired
<1>5. QED BY <1>2, <1>4 DEF Outcomes

\* Whatever the other transfers and the loop do, a reply that was complete while
\* more time was left than the loop may be late is given to its handler whole,
\* unless the upstream broke off the connection before it was read.
THEOREM ClientReplyKept == Spec => TimelyReplyKept
<1>1. SafeInv /\ TimelyInv /\ [Next]_vars =>
        [\A q \in Posts :
           answer[q] = "none" /\ answer'[q] # "none" /\ wire[q] = "replied" /\ q \in timely
             => answer'[q] = "reply"]_vars
  BY ReplyKept
<1>2. Init => TimelyInv
  BY DEF Init, TimelyInv
<1>3. QED BY <1>1, <1>2, SafeInit, SafeStep, TimelyStep, PTL DEF Spec, TimelyReplyKept

-----------------------------------------------------------------------------
(* Waiting times: for the job, for the start, and for the timeout. *)

\* The timer is due before any transfer's time is over, and at once when there
\* is one to be started.
TimerInv ==
  /\ timer # NoTimer => timer >= -Slack
  /\ \A q \in Running : timer # NoTimer /\ timer <= left[q]
  /\ \A q \in Added : timer # NoTimer /\ timer <= 0

\* What a job that had to wait may add.
JobDelay(q) == IF q \in lateJob THEN Slack ELSE 0

DueInv ==
  /\ TimerInv
  /\ \A q \in Posts : stage[q] = "none" => waited[q] = 0
  /\ \A q \in Posts : stage[q] = "queued" => waited[q] <= Slack
  /\ \A q \in Added : waited[q] + timer <= JobDelay(q)
  /\ \A q \in Running : waited[q] + left[q] <= UpstreamTimeout + Slack + JobDelay(q)

LEMMA DueInit == Init => DueInv
BY ClientAssumption DEF Init, DueInv, TimerInv, Running, UnderWay, Added

LEMMA DueCall ==
  ASSUME SafeInv, DueInv, NEW told \in SUBSET Posts, SocketAction(told)
  PROVE  DueInv'
<1>1. /\ \A q \in Posts : /\ q \in Added <=> stage[q] = "added"
                          /\ q \in Running <=> stage[q] \in UnderWay
      /\ \A q \in Added : stage'[q] \in {"connecting", "awaiting", "done"}
      /\ \A q \in Running : stage'[q] = Progress(q, q \in told)
      /\ \A q \in Posts \ (Added \cup Running) : stage'[q] = stage[q]
      /\ \A q \in Running' : q \in Added \/ (q \in Running /\ ~Expired(q))
      /\ \A q \in Running' : left'[q] = IF q \in Added THEN UpstreamTimeout ELSE left[q]
      /\ UNCHANGED waited
  BY CallView
<1>2. \A q \in Running : stage'[q] \in UnderWay \cup {"done"}
  BY <1>1 DEF Progress, Running, UnderWay
<1>3. \A q \in Posts : /\ stage'[q] # "added"
                       /\ stage'[q] \in {"none", "queued"} => stage[q] = stage'[q]
  BY <1>1, <1>2 DEF UnderWay
<1>4. Added' = {}
  BY <1>3 DEF Added
<1>5. TimerInv'
  <2>1. timer' # NoTimer => timer' \in Int /\ timer' > 0
    BY CallTimer
  <2>2. timer' # NoTimer => timer' >= -Slack
    BY <2>1, ClientAssumption
  <2>3. QED BY <1>4, <2>2, CallTimer DEF TimerInv
<1>6. ASSUME NEW q \in Running'
      PROVE  waited[q] + left'[q] <= UpstreamTimeout + Slack + JobDelay(q)'
  <2>0. JobDelay(q)' = JobDelay(q)
    BY CallView, <1>6 DEF JobDelay
  <2>1. q \in Posts /\ waited[q] \in Int /\ JobDelay(q) \in Int
    BY ClientAssumption DEF Running, SafeInv, TypeOK, JobDelay
  <2>2. CASE q \in Added
    <3>1. timer \in Int /\ timer >= -Slack /\ waited[q] + timer <= JobDelay(q)
      BY <2>2 DEF DueInv, TimerInv, SafeInv, TypeOK
    <3>2. left'[q] = UpstreamTimeout
      BY <1>1, <2>2
    <3>3. QED BY <2>0, <2>1, <3>1, <3>2, ClientAssumption
  <2>3. CASE q \notin Added
    <3>1. q \in Running /\ left'[q] = left[q]
      BY <1>1, <1>6, <2>3
    <3>2. QED BY <2>0, <3>1 DEF DueInv
  <2>4. QED BY <2>2, <2>3
<1>7. QED BY <1>1, <1>3, <1>4, <1>5, <1>6 DEF DueInv

LEMMA DueStart ==
  ASSUME SafeInv, DueInv, NEW q \in Posts, Post(q) \/ AddHandle(q)
  PROVE  DueInv'
<1>1. /\ stage[q] \in {"none", "queued"} /\ UNCHANGED <<left, waited>>
      /\ \E s \in {"queued", "added"} : stage' = [stage EXCEPT ![q] = s]
      /\ stage'[q] = "queued" => stage[q] = "none"
      /\ lateJob' = lateJob \/ lateJob' = lateJob \cup {q}
  BY DEF Post, AddHandle, SafeInv, TypeOK
<1>2. /\ Running' = Running
      /\ Added' = Added \/ (stage'[q] = "added" /\ Added' = Added \cup {q})
  BY <1>1 DEF Running, UnderWay, Added, SafeInv, TypeOK
<1>3. waited[q] \in Int /\ waited[q] <= Slack
  BY <1>1, ClientAssumption DEF DueInv, SafeInv, TypeOK
<1>4. q \notin Running /\ q \notin Added
  BY <1>1 DEF Running, UnderWay, Added
<1>5. \A p : p # q => JobDelay(p)' = JobDelay(p)
  BY <1>1 DEF JobDelay
<1>6. \A p \in Running' : waited'[p] + left'[p] <= UpstreamTimeout + Slack + JobDelay(p)'
  BY <1>1, <1>2, <1>4, <1>5 DEF DueInv
<1>7. /\ \A p \in Posts : stage'[p] = "none" => waited'[p] = 0
      /\ \A p \in Posts : stage'[p] = "queued" => waited'[p] <= Slack
  BY <1>1, <1>3 DEF DueInv, SafeInv, TypeOK
<1>8. CASE Post(q)
  <2>1. timer' = timer /\ Added' = Added
    BY <1>8 DEF Post, Added, SafeInv, TypeOK
  <2>2. TimerInv'
    BY <1>1, <1>2, <2>1 DEF DueInv, TimerInv
  <2>3. \A p \in Added' : waited'[p] + timer' <= JobDelay(p)'
    BY <1>1, <1>4, <1>5, <2>1 DEF DueInv
  <2>4. QED BY <1>6, <1>7, <2>2, <2>3 DEF DueInv
<1>9. CASE AddHandle(q)
  <2>1. /\ timer' \in Int /\ timer' <= 0 /\ timer' >= -Slack
        /\ timer \in Int => timer' <= timer
        /\ timer \in Int /\ timer <= 0 => timer' = timer
    BY <1>9, ClientAssumption DEF AddHandle, start_timeout, DueInv, TimerInv, SafeInv, TypeOK
  <2>2. /\ \A p \in Running : timer \in Int /\ timer <= left[p] /\ left[p] \in Int
        /\ \A p \in Added : timer \in Int /\ timer <= 0
    BY DEF DueInv, TimerInv, SafeInv, TypeOK, Running, Added
  <2>3. TimerInv'
    <3>1. \A p \in Running' : timer' # NoTimer /\ timer' <= left'[p]
      BY <1>1, <1>2, <2>1, <2>2, ClientAssumption
    <3>2. \A p \in Added' : timer' # NoTimer /\ timer' <= 0
      BY <2>1, ClientAssumption
    <3>3. QED BY <2>1, <3>1, <3>2 DEF TimerInv
  <2>4. waited'[q] <= JobDelay(q)'
    <3>1. lateJob' = IF waited[q] > 0 THEN lateJob \cup {q} ELSE lateJob
      BY <1>9 DEF AddHandle
    <3>2. CASE waited[q] > 0
      BY <1>1, <1>3, <3>1, <3>2 DEF JobDelay
    <3>3. CASE ~(waited[q] > 0)
      BY <1>1, <1>3, <3>3, ClientAssumption DEF JobDelay
    <3>4. QED BY <3>2, <3>3
  <2>5. ASSUME NEW p \in Added' PROVE waited'[p] + timer' <= JobDelay(p)'
    <3>1. JobDelay(p)' \in Int
      BY ClientAssumption DEF JobDelay
    <3>2. CASE p = q
      BY <1>1, <1>3, <2>1, <2>4, <3>1, <3>2
    <3>3. CASE p # q
      <4>1. p \in Added /\ timer' = timer
        BY <1>2, <2>1, <2>2, <2>5, <3>3
      <4>2. QED BY <1>1, <1>5, <3>3, <4>1 DEF DueInv
    <3>4. QED BY <3>2, <3>3
  <2>6. QED BY <1>6, <1>7, <2>3, <2>5 DEF DueInv
<1>10. QED BY <1>8, <1>9

LEMMA DueTick ==
  ASSUME SafeInv, DueInv, Tick
  PROVE  DueInv'
<1>0. /\ \A q : JobDelay(q)' = JobDelay(q)
      /\ \A q : JobDelay(q) \in Int
  BY ClientAssumption DEF Tick, JobDelay
<1>1. /\ UNCHANGED stage /\ Running' = Running /\ Added' = Added
      /\ timer' = IF timer = NoTimer THEN NoTimer ELSE timer - 1
      /\ timer # NoTimer => timer > -Slack /\ timer \in Int
  BY DEF Tick, Running, Added, SafeInv, TypeOK
<1>2. \A q \in Posts : /\ left[q] \in Int
                       /\ left'[q] = IF q \in Running THEN left[q] - 1 ELSE left[q]
  BY DEF Tick, SafeInv, TypeOK
<1>3. \A q \in Posts : /\ waited[q] \in Int /\ waited'[q] \in Int
                       /\ waited'[q] <= waited[q] + 1
                       /\ stage[q] = "none" => waited'[q] = waited[q]
                       /\ stage[q] = "queued" => waited[q] < Slack
  BY ClientAssumption DEF Tick, Pending, SafeInv, TypeOK
<1>4. TimerInv'
  <2>1. timer' # NoTimer => timer' >= -Slack
    BY <1>1, ClientAssumption
  <2>2. ASSUME NEW q \in Running PROVE timer' # NoTimer /\ timer' <= left'[q]
    <3>1. q \in Posts /\ timer # NoTimer /\ timer <= left[q]
      BY DEF DueInv, TimerInv, Running
    <3>2. QED BY <1>1, <1>2, <3>1, ClientAssumption
  <2>3. ASSUME NEW q \in Added PROVE timer' # NoTimer /\ timer' <= 0
    BY <1>1, ClientAssumption DEF DueInv, TimerInv
  <2>4. QED BY <1>1, <2>1, <2>2, <2>3 DEF TimerInv
<1>5. ASSUME NEW q \in Added PROVE waited'[q] + timer' <= JobDelay(q)'
  <2>1. q \in Posts /\ timer # NoTimer /\ waited[q] + timer <= JobDelay(q)
    BY DEF DueInv, TimerInv, Added
  <2>2. QED BY <1>0, <1>1, <1>3, <2>1, ClientAssumption
<1>6. ASSUME NEW q \in Running
      PROVE  waited'[q] + left'[q] <= UpstreamTimeout + Slack + JobDelay(q)'
  <2>1. q \in Posts /\ waited[q] + left[q] <= UpstreamTimeout + Slack + JobDelay(q)
    BY DEF DueInv, Running
  <2>2. QED BY <1>0, <1>2, <1>3, <2>1, ClientAssumption
<1>7. \A q \in Posts : /\ stage[q] = "none" => waited'[q] = 0
                       /\ stage[q] = "queued" => waited'[q] <= Slack
  BY <1>3, ClientAssumption DEF DueInv
<1>8. QED BY <1>1, <1>4, <1>5, <1>6, <1>7 DEF DueInv

LEMMA DueStep == SafeInv /\ DueInv /\ [Next]_vars => DueInv'
<1> SUFFICES ASSUME SafeInv, DueInv, [Next]_vars PROVE DueInv'
  OBVIOUS
<1>1. ASSUME NEW q \in Posts, Post(q) \/ AddHandle(q) PROVE DueInv'
  BY <1>1, DueStart
<1>2. ASSUME NEW told \in SUBSET Posts, SocketAction(told) PROVE DueInv'
  BY <1>2, DueCall
<1>3. ASSUME NEW s \in Sockets, Perform(s) PROVE DueInv'
  <2>1. SocketAction({q \in Running : on[q] = s}) /\ {q \in Running : on[q] = s} \in SUBSET Posts
    BY <1>3 DEF Perform, Running
  <2>2. QED BY <1>2, <2>1
<1>4. CASE OnTimeout
  BY <1>2, <1>4 DEF OnTimeout
<1>5. CASE Tick
  BY <1>5, DueTick
<1>6. ASSUME (\E q \in Posts : Upstream(q)) \/ Poll \/ UNCHANGED vars PROVE DueInv'
  <2>1. UNCHANGED <<stage, left, timer, waited>>
    BY <1>6 DEF Upstream, Poll, vars, curl
  <2>2. lateJob' = lateJob
    BY <1>6 DEF Upstream, Poll, vars
  <2>3. QED BY <2>1, <2>2 DEF DueInv, TimerInv, Running, Added, JobDelay
<1>7. QED BY <1>1, <1>3, <1>4, <1>5, <1>6 DEF Next, LoopStep, RunJob

\* Who waits is late by his job, by the start and by the timer at most.
LEMMA DueInTime ==
  ASSUME SafeInv, DueInv
  PROVE  AnsweredInTime
<1> SUFFICES ASSUME NEW q \in Pending
             PROVE  waited[q] <= UpstreamTimeout + Delays(q) * Slack
  BY DEF AnsweredInTime
<1>1. /\ q \in Posts /\ waited[q] \in Int /\ left[q] \in Int
      /\ timer # NoTimer => timer \in Int /\ timer >= -Slack
  BY ClientAssumption DEF Pending, SafeInv, TypeOK, DueInv, TimerInv
<1>2. JobDelay(q) \in Int /\ Delays(q) * Slack = 2 * Slack + JobDelay(q) /\ JobDelay(q) >= 0
  BY ClientAssumption DEF Delays, JobDelay
<1>3. stage[q] = "queued" \/ q \in Added \/ q \in Running
  BY <1>1 DEF Pending, Added, Running, UnderWay, SafeInv, TypeOK, Stages, OnceInv
<1>4. CASE stage[q] = "queued"
  <2>1. waited[q] <= Slack
    BY <1>1, <1>4 DEF DueInv
  <2> HIDE DEF Delays
  <2>2. QED BY <1>1, <1>2, <2>1, ClientAssumption
<1>5. CASE q \in Added
  <2>1. timer # NoTimer /\ waited[q] + timer <= JobDelay(q)
    BY <1>5 DEF DueInv, TimerInv
  <2>2. QED BY <1>1, <1>2, <2>1, ClientAssumption
<1>6. CASE q \in Running
  <2>1. /\ timer # NoTimer /\ timer <= left[q]
        /\ waited[q] + left[q] <= UpstreamTimeout + Slack + JobDelay(q)
    BY <1>6 DEF DueInv, TimerInv
  <2>2. QED BY <1>1, <1>2, <2>1, ClientAssumption
<1>7. QED BY <1>3, <1>4, <1>5, <1>6

\* For any posts, sockets, timeout and lateness of the loop, a response handler
\* waits for the timeout and two delays of the loop at most, or for three if it
\* was left to a job that had to wait.
THEOREM ClientAnsweredInTime == Spec => []AnsweredInTime
<1>1. SafeInv /\ DueInv => AnsweredInTime
  BY DueInTime
<1>2. QED BY <1>1, SafeInit, SafeStep, DueInit, DueStep, PTL DEF Spec

-----------------------------------------------------------------------------
(* The service.  Every step of Client is a step of LookupService that        *)
(* forsakes nobody: the caches may count on it as they do.                   *)

LEMMA ServiceInit == Init => Service!Init
BY DEF Init, Service!Init

LEMMA ServiceWaiting ==
  ASSUME TypeOK
  PROVE  Service!Waiting = Pending
BY DEF Service!Waiting, Pending

\* Time stops for nobody who is due.
LEMMA ServiceTick ==
  ASSUME SafeInv, DueInv, Tick
  PROVE  Service!Tick
<1>1. Service!Waiting = Pending
  BY ServiceWaiting DEF SafeInv
<1>2. ASSUME NEW q \in Pending PROVE waited[q] < Deadline
  <2>0. JobDelay(q) \in Int /\ JobDelay(q) <= Slack
    BY ClientAssumption DEF JobDelay
  <2>1. /\ q \in Posts /\ waited[q] \in Int /\ left[q] \in Int
        /\ Deadline = UpstreamTimeout + 3 * Slack
        /\ timer # NoTimer => timer \in Int /\ timer > -Slack
    BY ClientAssumption DEF Tick, Pending, Deadline, SafeInv, TypeOK
  <2>2. CASE stage[q] = "queued"
    BY <2>1, <2>2, ClientAssumption DEF Tick
  <2>3. CASE q \in Added
    <3>1. timer # NoTimer /\ waited[q] + timer <= JobDelay(q)
      BY <2>3 DEF DueInv, TimerInv
    <3>2. QED BY <2>0, <2>1, <3>1, ClientAssumption
  <2>4. CASE q \in Running
    <3>1. /\ timer # NoTimer /\ timer <= left[q]
          /\ waited[q] + left[q] <= UpstreamTimeout + Slack + JobDelay(q)
      BY <2>4 DEF DueInv, TimerInv
    <3>2. QED BY <2>0, <2>1, <3>1, ClientAssumption
  <2>5. stage[q] = "queued" \/ q \in Added \/ q \in Running
    BY DEF Pending, Added, Running, UnderWay, SafeInv, TypeOK, Stages, OnceInv
  <2>6. QED BY <2>2, <2>3, <2>4, <2>5
<1>3. /\ UNCHANGED <<stage, answer>>
      /\ waited' = [q \in Posts |-> IF q \in Pending /\ waited[q] < WaitCap
                                    THEN waited[q] + 1 ELSE waited[q]]
  BY DEF Tick
<1>4. QED BY <1>1, <1>2, <1>3 DEF Service!Tick

\* Whoever is called was waiting.
LEMMA ServiceCall ==
  ASSUME SafeInv, NEW told \in SUBSET Posts, SocketAction(told)
  PROVE  Service!Answer
<1>1. /\ \A q \in Posts : IF q \in Running \cup Added /\ stage'[q] = "done"
                          THEN answer'[q] \in Outcomes(q) ELSE answer'[q] = answer[q]
      /\ answer' \in [Posts -> Results \cup {"none"}]
  BY CallAnswers
<1>2. \A q \in Running \cup Added : q \in Pending
  BY DEF Running, UnderWay, Added, Pending, SafeInv, TypeOK, OnceInv
<1>3. Service!Waiting = Pending
  BY ServiceWaiting DEF SafeInv
<1>4. {q \in Posts : stage'[q] # "none"} = {q \in Posts : stage[q] # "none"}
  <2>1. /\ \A q \in Posts : /\ q \in Added <=> stage[q] = "added"
                            /\ q \in Running <=> stage[q] \in UnderWay
        /\ \A q \in Added : stage'[q] \in {"connecting", "awaiting", "done"}
        /\ \A q \in Running : stage'[q] = Progress(q, q \in told)
        /\ \A q \in Posts \ (Added \cup Running) : stage'[q] = stage[q]
    BY CallView
  <2>2. \A q \in Running : stage'[q] # "none"
    BY <2>1 DEF Progress, Running, UnderWay
  <2>3. \A q \in Posts : stage'[q] # "none" <=> stage[q] # "none"
    BY <2>1, <2>2 DEF UnderWay
  <2>4. QED BY <2>3
<1>5. UNCHANGED waited
  BY CallView
<1>6. QED BY <1>1, <1>2, <1>3, <1>4, <1>5 DEF Service!Answer, Service!Waiting

LEMMA ServiceStep ==
  ASSUME SafeInv, DueInv, [Next]_vars
  PROVE  [Service!Next]_Service!vars
<1>1. ASSUME NEW q \in Posts, Post(q) \/ AddHandle(q)
      PROVE  Service!Ask(q) \/ UNCHANGED Service!vars
  <2>1. /\ stage[q] \in {"none", "queued"} /\ UNCHANGED <<waited, answer>>
        /\ \E s \in {"queued", "added"} : stage' = [stage EXCEPT ![q] = s]
    BY <1>1 DEF Post, AddHandle
  <2>2. {p \in Posts : stage'[p] # "none"} = {p \in Posts : stage[p] # "none"} \cup {q}
    BY <2>1 DEF SafeInv, TypeOK
  <2>3. CASE stage[q] = "none"
    <3>1. answer' = [answer EXCEPT ![q] = "none"]
      BY <2>1, <2>3 DEF SafeInv, TypeOK, OnceInv
    <3>2. QED BY <2>1, <2>2, <2>3, <3>1 DEF Service!Ask
  <2>4. CASE stage[q] = "queued"
    BY <2>1, <2>2, <2>4 DEF Service!vars
  <2>5. QED BY <2>1, <2>3, <2>4
<1>2. ASSUME NEW told \in SUBSET Posts, SocketAction(told) PROVE Service!Answer
  BY <1>2, ServiceCall
<1>3. ASSUME NEW s \in Sockets, Perform(s) PROVE Service!Answer
  <2>1. SocketAction({q \in Running : on[q] = s}) /\ {q \in Running : on[q] = s} \in SUBSET Posts
    BY <1>3 DEF Perform, Running
  <2>2. QED BY <1>2, <2>1
<1>4. OnTimeout => Service!Answer
  BY <1>2 DEF OnTimeout
<1>5. Tick => Service!Tick
  BY ServiceTick
<1>6. ASSUME (\E q \in Posts : Upstream(q)) \/ Poll \/ UNCHANGED vars
      PROVE  UNCHANGED Service!vars
  BY <1>6 DEF Upstream, Poll, vars, curl, Service!vars
<1>7. QED BY <1>1, <1>3, <1>4, <1>5, <1>6 DEF Next, LoopStep, RunJob, Service!Next

\* Client implements LookupService, for any posts, sockets, timeout and lateness
\* of the loop, and whatever upstreams do or fail to do: each response handler is
\* called once, within the timeout and three delays of the loop.
THEOREM ClientImplementsService == Spec => ServicePromise
<1>1. SafeInv /\ DueInv /\ [Next]_vars => [Service!Next]_Service!vars
  BY ServiceStep
<1>2. QED
  BY <1>1, SafeInit, SafeStep, DueInit, DueStep, ServiceInit, PTL
  DEF Spec, ServicePromise, Service!Spec
=============================================================================
