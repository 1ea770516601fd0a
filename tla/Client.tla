------------------------------- MODULE Client -------------------------------
(***************************************************************************)
(* The HTTP client (client.hpp, client.cpp): libcurl's multi interface on  *)
(* the loop thread, driven by one libevent event per socket and by one     *)
(* timer.  post() adds a transfer; the events and the timer tell libcurl   *)
(* when to go on with it; check_multi_info() calls the response handlers.  *)
(*                                                                         *)
(* libcurl is modelled by what the callbacks and the calls here ask of it: *)
(* which transfer is how far, on which socket, and when it times out.  A   *)
(* socket carries one transfer at a time.  Time is kept as in CoalCache.   *)
(* An exception of a handler is logged and dropped, so that here it makes  *)
(* no difference (CoalCache's ReplyThrows says what it does).              *)
(***************************************************************************)
EXTENDS Integers, FiniteSets
LOCAL INSTANCE FiniteSetsExt

CONSTANTS
  Posts,            \* the calls of post()
  Sockets,          \* file descriptors; they are used again
  NoSocket,         \* the transfer is on none
  NoContext,        \* the socket has no curl_context
  NoTimer,          \* ev_timeout is not pending
  UpstreamTimeout,  \* upstream_timeout; 0, which to libcurl is none, is left out
  Slack,            \* how late the loop thread may run what is due
  WaitCap           \* where the count of waiting time saturates

ASSUME ClientAssumption ==
  /\ IsFiniteSet(Posts) /\ IsFiniteSet(Sockets)
  /\ Cardinality(Posts) <= Cardinality(Sockets)
  /\ UpstreamTimeout \in Nat \ {0}
  /\ Slack \in Nat
  /\ WaitCap \in Nat
  /\ NoTimer \notin Int
  /\ \A events \in SUBSET {"READ", "WRITE"} : events # NoContext

VARIABLES
  stage,    \* a post: "none", "queued" (its job), "added" (to the multi
            \* handle), "connecting", "awaiting" (its reply), "receiving"
            \* (its header has been read, not all of its body), "done"
  on,       \* the socket of a transfer
  left,     \* time until the transfer times out
  wire,     \* what the upstream of a transfer did that libcurl has not been told
            \* of: "nothing", "connected", "headers" (a part of its reply),
            \* "replied", "reset" (or closed the connection)
  unseen,   \* for how long
  watched,  \* the events of the socket's curl_context, or NoContext
  active,   \* sockets whose event is due in this turn of the loop
  timer,    \* time until ev_timeout fires, or NoTimer
  messages, \* what curl_multi_info_read has to say: transfers and results
  misused,  \* history: an event's callback was given a deleted context
  waited,   \* history: how long a handler has been waiting
  answer,   \* history: what a response handler was called with
  lateJob,  \* history: the posts whose job had to wait, until they end
  timely    \* history: those whose reply was complete with time to spare

net == <<wire, unseen>>
curl == <<stage, on, left, watched, active, timer, messages>>
vars == <<net, curl, misused, waited, answer, lateJob, timely>>

UnderWay == {"connecting", "awaiting", "receiving"}
Stages == {"none", "queued", "added", "done"} \cup UnderWay
Running == {q \in Posts : stage[q] \in UnderWay}
Added == {q \in Posts : stage[q] = "added"}

Init ==
  /\ stage = [q \in Posts |-> "none"]
  /\ on = [q \in Posts |-> NoSocket]
  /\ left = [q \in Posts |-> 0]
  /\ wire = [q \in Posts |-> "nothing"]
  /\ unseen = [q \in Posts |-> 0]
  /\ watched = [s \in Sockets |-> NoContext]
  /\ active = {}
  /\ timer = NoTimer
  /\ messages = {}
  /\ misused = FALSE
  /\ waited = [q \in Posts |-> 0]
  /\ answer = [q \in Posts |-> "none"]
  /\ lateJob = {}
  /\ timely = {}

-----------------------------------------------------------------------------
(* The callbacks that libcurl calls. *)

\* Mutant: 0 is taken for "no timer".
ZeroIsNone(t) == IF t # NoTimer /\ t > 0 THEN t ELSE NoTimer
\* The new time of ev_timeout.  "0 means call socket_action asap"; libcurl's -1
\* deletes the timer.
start_timeout(t) == t

\* Mutant: reading and writing are confused.
Confused(action) ==
  {e \in {"READ", "WRITE"} : action # (IF e = "READ" THEN "POLL_IN" ELSE "POLL_OUT")}
\* The events that are added for a socket.
Events(action) ==
  {e \in {"READ", "WRITE"} : action # (IF e = "READ" THEN "POLL_OUT" ELSE "POLL_IN")}

\* The socket's context after libcurl's request, new if there is none.
handle_socket(action) == IF action = "POLL_REMOVE" THEN NoContext ELSE Events(action)

\* Mutant: the event of a deleted context is not deleted.
EventStays(gone) == active
\* ~curl_context: the event is neither pending nor active any longer.
EventDeleted(gone) == active \ gone

\* Mutant: one message at a time.
FirstMessage(all) == IF all = {} THEN {} ELSE {CHOOSE m \in all : TRUE}
\* while (CURLMsg* message = curl_multi_info_read(...))
Read(all) == all

\* The handlers of what has been read are called, and their handles cleaned up.
check_multi_info(all) ==
  /\ messages' = all \ Read(all)
  /\ answer' = [q \in Posts |->
                  IF \E m \in Read(all) : m[1] = q
                  THEN (CHOOSE m \in Read(all) : m[1] = q)[2] ELSE answer[q]]

-----------------------------------------------------------------------------
(* post() *)

\* On the uWS thread: the transfer is left to a job.
Post(q) ==
  /\ stage[q] = "none"
  /\ stage' = [stage EXCEPT ![q] = "queued"]
  /\ UNCHANGED <<net, on, left, watched, active, timer, messages, misused, waited,
                 answer, lateJob, timely>>

\* The job, or post() itself on the loop thread.  libcurl asks for a timeout of
\* 0, unless something it has asked for is already due.
AddHandle(q) ==
  /\ stage[q] \in {"none", "queued"}
  /\ stage' = [stage EXCEPT ![q] = "added"]
  /\ timer' = IF timer # NoTimer /\ timer <= 0 THEN timer ELSE start_timeout(0)
  /\ lateJob' = IF waited[q] > 0 THEN lateJob \cup {q} ELSE lateJob
  /\ UNCHANGED <<net, on, left, watched, active, messages, misused, waited, answer,
                 timely>>

-----------------------------------------------------------------------------
(* curl_multi_socket_action() *)

Expired(q) == q \in Running /\ left[q] <= 0

\* How a transfer may begin: on a new connection, on one that is kept, or not.
Beginnings == [Added -> {"connecting", "awaiting", "done"}]
\* The sockets that transfers may begin on.
FreeSockets == Sockets \ {on[q] : q \in Running}
Placements == {f \in [Added -> FreeSockets] :
                 \A p, q \in Added : f[p] = f[q] => p = q}

\* How far q gets, given whether libcurl has been told of its socket.
Progress(q, told) ==
  IF Expired(q) \/ (told /\ wire[q] \in {"replied", "reset"}) THEN "done"
  ELSE IF told /\ wire[q] = "connected" THEN "awaiting"
  ELSE IF told /\ wire[q] = "headers" THEN "receiving"
  ELSE stage[q]

\* What the handler may get when q ends: a whole "reply"; a "cut" one, under the
\* status of its header, whatever ended it afterwards; or status 0, "failed".
\* Of a connection that broke off, libcurl may have read as much as there was,
\* and a reply without a length is whole when it closes.
Results == {"reply", "cut", "failed"}
Outcomes(q) ==
  {r \in Results :
     /\ stage[q] = "receiving" => r # "failed"
     /\ stage[q] \in {"added", "connecting"} => r = "failed"
     /\ Expired(q) => r = IF stage[q] = "receiving" THEN "cut" ELSE "failed"
     /\ ~Expired(q) /\ wire[q] = "replied" => r = "reply"}

\* What libcurl asks for a socket (`out` while it connects or sends), and when
\* it wants to be called again.
Wish(s, out) ==
  IF \E q \in Posts : on'[q] = s /\ stage'[q] = "connecting" THEN out
  ELSE IF \E q \in Posts : on'[q] = s /\ stage'[q] \in {"awaiting", "receiving"}
  THEN "POLL_IN"
  ELSE "POLL_REMOVE"
NextTimeout ==
  LET running == {q \in Posts : stage'[q] \in UnderWay}
  IN  IF running = {} THEN NoTimer ELSE Min({left'[q] : q \in running})

\* libcurl starts what was added, ends what has timed out, and goes on with
\* the transfers `told`, whose sockets it is told of; handlers follow.
SocketAction(told) ==
  \E begin \in Beginnings, place \in Placements, out \in {"POLL_OUT", "POLL_INOUT"} :
    /\ stage' = [q \in Posts |-> IF q \in Added THEN begin[q]
                                 ELSE IF q \in Running THEN Progress(q, q \in told)
                                 ELSE stage[q]]
    /\ on' = [q \in Posts |-> IF stage'[q] = "done" THEN NoSocket
                              ELSE IF q \in Added THEN place[q] ELSE on[q]]
    /\ left' = [q \in Posts |-> IF stage'[q] = "done" THEN 0
                                ELSE IF q \in Added THEN UpstreamTimeout ELSE left[q]]
    /\ wire' = [q \in Posts |-> IF q \in told \/ stage'[q] = "done" THEN "nothing"
                                ELSE wire[q]]
    /\ unseen' = [q \in Posts |-> IF q \in told \/ stage'[q] = "done" THEN 0
                                  ELSE unseen[q]]
    /\ watched' = [s \in Sockets |-> handle_socket(Wish(s, out))]
    /\ timer' = start_timeout(NextTimeout)
    /\ LET over == {q \in Running \cup Added : stage'[q] = "done"}
       IN  \E result \in {f \in [over -> Results] : \A q \in over : f[q] \in Outcomes(q)} :
             /\ check_multi_info(messages \cup {<<q, result[q]>> : q \in over})
             /\ lateJob' = lateJob \ over
             /\ timely' = timely \ over
    /\ UNCHANGED waited

\* The sockets that are given up.
Gone == {s \in Sockets : watched[s] # NoContext /\ watched'[s] = NoContext}

\* on_timeout_c()
OnTimeout ==
  /\ timer # NoTimer /\ timer <= 0
  /\ SocketAction({})
  /\ active' = EventDeleted(Gone)
  /\ UNCHANGED misused

\* curl_perform_c()
Perform(s) ==
  /\ s \in active
  /\ misused' = (misused \/ watched[s] = NoContext)
  /\ SocketAction({q \in Running : on[q] = s})
  /\ active' = EventDeleted(Gone) \ {s}

-----------------------------------------------------------------------------
(* libevent, the upstreams and the clock. *)

\* What a socket is ready for.  A reset one is ready for anything.
Ready(q) ==
  {e \in {"READ", "WRITE"} :
     \/ wire[q] = "reset"
     \/ e = "WRITE" /\ wire[q] = "connected"
     \/ e = "READ" /\ wire[q] \in {"headers", "replied"}}

\* The transfers of which there is something to tell, to an event that waits.
Noticed == {q \in Running : /\ watched[on[q]] # NoContext
                            /\ Ready(q) \cap watched[on[q]] # {}}

\* A turn of the loop begins: it finds the sockets that are ready.
Poll ==
  /\ active = {} /\ Noticed # {}
  /\ active' = {on[q] : q \in Noticed}
  /\ UNCHANGED <<net, stage, on, left, watched, timer, messages, misused, waited,
                 answer, lateJob, timely>>

\* The upstream accepts the connection, replies, in one piece or not, or breaks
\* off.
Upstream(q) ==
  /\ q \in Running
  /\ \E w \in {"connected", "headers", "replied", "reset"} :
       /\ w = "connected" => stage[q] = "connecting" /\ wire[q] = "nothing"
       /\ w = "headers" => stage[q] = "awaiting" /\ wire[q] = "nothing"
       /\ w = "replied" => stage[q] \in {"awaiting", "receiving"} /\ wire[q] # "reset"
       /\ wire' = [wire EXCEPT ![q] = w]
       /\ wire[q] # w
       /\ timely' = IF w = "replied" /\ left[q] > Slack THEN timely \cup {q} ELSE timely
  /\ UNCHANGED <<unseen, curl, misused, waited, answer, lateJob>>

Pending == {q \in Posts : stage[q] # "none" /\ answer[q] = "none"}

Tick ==
  /\ \A q \in Posts : stage[q] = "queued" => waited[q] < Slack
  /\ timer # NoTimer => timer > -Slack
  /\ \A q \in Noticed : unseen[q] < Slack
  /\ left' = [q \in Posts |-> IF q \in Running THEN left[q] - 1 ELSE left[q]]
  /\ timer' = IF timer = NoTimer THEN NoTimer ELSE timer - 1
  /\ unseen' = [q \in Posts |-> IF Ready(q) # {} THEN unseen[q] + 1 ELSE unseen[q]]
  /\ waited' = [q \in Posts |-> IF q \in Pending /\ waited[q] < WaitCap
                                THEN waited[q] + 1 ELSE waited[q]]
  /\ UNCHANGED <<wire, stage, on, watched, active, messages, misused, answer, lateJob,
                 timely>>

RunJob == \E q \in Posts : stage[q] = "queued" /\ AddHandle(q)

\* What the loop thread has to do.
LoopStep == RunJob \/ OnTimeout \/ Poll \/ \E s \in Sockets : Perform(s)

Next ==
  \/ \E q \in Posts : Post(q) \/ AddHandle(q) \/ Upstream(q)
  \/ LoopStep
  \/ Tick

Spec == Init /\ [][Next]_vars

\* The loop thread goes on, and so does time.  The upstreams may do nothing at
\* all.
FairSpec == Spec /\ WF_vars(LoopStep) /\ WF_vars(Tick)

-----------------------------------------------------------------------------
(* Properties *)

TypeOK ==
  /\ stage \in [Posts -> Stages]
  /\ on \in [Posts -> Sockets \cup {NoSocket}]
  /\ left \in [Posts -> Int]
  /\ wire \in [Posts -> {"nothing", "connected", "headers", "replied", "reset"}]
  /\ unseen \in [Posts -> 0..Slack]
  /\ watched \in [Sockets -> (SUBSET {"READ", "WRITE"}) \cup {NoContext}]
  /\ active \subseteq Sockets
  /\ timer \in Int \cup {NoTimer}
  /\ messages \subseteq Posts \X Results
  /\ misused \in BOOLEAN
  /\ waited \in [Posts -> 0..WaitCap]
  /\ answer \in [Posts -> Results \cup {"none"}]
  /\ lateJob \subseteq Posts
  /\ timely \subseteq Posts

\* "Can't use `ctx` anymore because it might have been destroyed during the
\* above call" (client.cpp:93): when one event or the timer makes libcurl give
\* up sockets, no event that was due in the same turn of the loop is called with
\* a context that this has deleted.
ContextUsedWhileLive == ~misused

\* A reply in time is not wasted: if it was complete while the transfer had more
\* time left than the loop may be late, and the upstream did not break off after
\* it, its handler is given the whole of it.  Whatever came of it earlier, and
\* whoever else's event or timer comes first, it is neither failed nor cut.
TimelyReplyKept ==
  [][\A q \in Posts :
       answer[q] = "none" /\ answer'[q] # "none" /\ wire[q] = "replied" /\ q \in timely
         => answer'[q] = "reply"]_vars

\* How many delays of the loop stand between a post and the end of its timeout:
\* that of the start and that of the timer, and before them that of its job, if
\* it is not posted on the loop thread and its job had to wait.
Delays(q) == IF q \in lateJob THEN 3 ELSE 2

\* "How long, in ms, to wait for an upstream provider to respond before giving
\* up" (main.cpp:195): a transfer that is posted on the loop thread, as the caches
\* do, or whose job ran at once, is over within the timeout and two delays of the
\* loop, and any other within three.
AnsweredInTime ==
  \A q \in Pending : waited[q] <= UpstreamTimeout + Delays(q) * Slack

Deadline == UpstreamTimeout + 3 * Slack

Service == INSTANCE LookupService WITH
  Callbacks <- Posts, NoResult <- "none", forsaken <- {},
  asked <- {q \in Posts : stage[q] # "none"}

\* Every response handler is called once and no more, and within Deadline,
\* whatever the upstream does: what the caches rest on.
ServicePromise == Service!Spec

\* Every handler is called in the end, though the upstream be silent: nobody is
\* left waiting when the last post has been made.
EveryPostAnswered == <>[](Pending = {})
=============================================================================
