------------------------------- MODULE Server -------------------------------
(***************************************************************************)
(* The HTTP front end (server.hpp, server.cpp): a request's body coming in  *)
(* chunks, the life of its uWS response object, the aborts that uWS        *)
(* reports, and responses that reach it directly from the uWS thread or by *)
(* defer() from another one.                                               *)
(*                                                                         *)
(* ServerSpec is the server with any handler that keeps to one response    *)
(* per request.  A handler's module EXTENDS this one, builds its           *)
(* steps from Accept, Chunk, LastChunk, Abort, SendResponse and            *)
(* RunDeferred, and implements ServerSpec.                                 *)
(***************************************************************************)
EXTENDS Sequences, Naturals

CONSTANTS
  Requests,  \* the HTTP requests, req_data objects
  Messages,  \* what a response says, as far as anyone asks
  MaxChunks  \* bound: the chunks that a body comes in

ASSUME ServerAssumption == MaxChunks \in Nat \ {0}

Threads == {"uws", "loop"}

VARIABLES
  res,       \* uWS's response object of each request
  aborted,   \* rd->_aborted
  body,      \* rd->body: how many chunks of it have been appended
  handled,   \* requests whose body is complete: handler(rd) was called
  deferred,  \* responses handed to defer(), FIFO
  sent,      \* history: the responses that send_response was given
  misused    \* history: requests whose res was used when it was not live

server_vars == <<res, aborted, body, handled, deferred, sent, misused>>

ServerInit ==
  /\ res = [r \in Requests |-> "none"]
  /\ aborted = [r \in Requests |-> FALSE]
  /\ body = [r \in Requests |-> 0]
  /\ handled = {}
  /\ deferred = <<>>
  /\ sent = [r \in Requests |-> <<>>]
  /\ misused = {}

\* The headers of a POST are in: rd takes the response object.
Accept(r) ==
  /\ res[r] = "none"
  /\ res' = [res EXCEPT ![r] = "live"]
  /\ UNCHANGED <<aborted, body, handled, deferred, sent, misused>>

\* onData: a chunk of the body.  uWS has no more for a request that ended or
\* was aborted.
OnData(r) ==
  /\ res[r] = "live"
  /\ r \notin handled
  /\ ~aborted[r]
  /\ body' = [body EXCEPT ![r] = @ + 1]
  /\ UNCHANGED <<res, aborted, deferred, sent, misused>>

Chunk(r) == OnData(r) /\ body[r] + 1 < MaxChunks /\ UNCHANGED handled
\* if (fin) handler(rd);
LastChunk(r) == OnData(r) /\ handled' = handled \cup {r}

\* The client goes away before the response ended: onAborted runs on the uWS
\* thread and uWS frees the response object.
Abort(r) ==
  /\ res[r] = "live"
  /\ res' = [res EXCEPT ![r] = "freed"]
  /\ aborted' = [aborted EXCEPT ![r] = TRUE]
  /\ UNCHANGED <<body, handled, deferred, sent, misused>>

\* Mutant: the request is not checked for an abort.
NeverDropped(r) == FALSE
\* Mutant: the sense of the check is inverted.
DroppedIfPresent(r) == ~aborted[r]
Dropped(r) == aborted[r]

\* send_response_impl() on the uWS thread.
Write(r) ==
  IF Dropped(r)
  THEN UNCHANGED <<res, misused>>
  ELSE /\ res' = [res EXCEPT ![r] = IF @ = "live" THEN "ended" ELSE @]
       /\ misused' = IF res[r] = "live" THEN misused ELSE misused \cup {r}

\* send_response() and send_json_response() on thread t.
SendResponse(t, r, m) ==
  /\ sent' = [sent EXCEPT ![r] = Append(@, m)]
  /\ IF t = "uws"
     THEN Write(r) /\ UNCHANGED deferred
     ELSE deferred' = Append(deferred, r) /\ UNCHANGED <<res, misused>>
  /\ UNCHANGED <<aborted, body, handled>>

\* The uWS loop gets to the next deferred response.
RunDeferred ==
  /\ deferred # <<>>
  /\ deferred' = Tail(deferred)
  /\ Write(Head(deferred))
  /\ UNCHANGED <<aborted, body, handled, sent>>

-----------------------------------------------------------------------------

\* A handler that has been given the request responds once, whenever it likes.
Respond(r) ==
  /\ r \in handled
  /\ sent[r] = <<>>
  /\ \E t \in Threads, m \in Messages : SendResponse(t, r, m)

ServerNext ==
  \/ \E r \in Requests : \/ Accept(r) \/ Chunk(r) \/ LastChunk(r)
                         \/ Abort(r) \/ Respond(r)
  \/ RunDeferred

ServerSpec == ServerInit /\ [][ServerNext]_server_vars

ServerFairSpec == ServerSpec /\ WF_server_vars(RunDeferred)

-----------------------------------------------------------------------------

ServerTypeOK ==
  /\ res \in [Requests -> {"none", "live", "freed", "ended"}]
  /\ aborted \in [Requests -> BOOLEAN]
  /\ body \in [Requests -> 0..MaxChunks]
  /\ handled \subseteq Requests
  /\ deferred \in Seq(Requests)
  /\ sent \in [Requests -> Seq(Messages)]
  /\ misused \subseteq Requests

\* "After abort, uWS frees the underlying object - never touch it"
\* (server.hpp:19), and a response that has ended cannot be written to again:
\* however aborts and deferred responses interleave, res is used only while
\* it is live.
ResUsedWhileLive == misused = {}

\* A response that was handed to send_response, on whatever thread, ends the
\* request, unless the client is gone.
ResponseArrives ==
  \A r \in Requests : sent[r] # <<>> ~> res[r] \in {"ended", "freed"}
=============================================================================
