----------------------------- MODULE SigStatuses -----------------------------
(***************************************************************************)
(* handle_solana() on a getSignatureStatuses request (main.cpp, 64-116):   *)
(* one CoalCache lookup per signature, and a `collected` object on which   *)
(* the callbacks agree who sends the one response.                         *)
(*                                                                         *)
(* The callbacks run on two threads at once: on the uWS thread, inside     *)
(* lookup(), for a signature that is in the cache, and on the loop thread  *)
(* for every other one.  A step here is one access to the shared object;   *)
(* pc tells which one a thread does next.  Of CoalCache this keeps what    *)
(* LookupService promises: each callback is called once at most, with an   *)
(* item or with nullptr, or is forsaken; and a hit is never nullptr.       *)
(***************************************************************************)
EXTENDS Server, FiniteSets

CONSTANTS
  NumKeys   \* how many signatures each request asks for

Index(r) == 1..NumKeys[r]

\* The 200 and the 502 response; the first carries the indices of the values
\* it was built from.
OkResponse(filled) == [status |-> 200, values |-> filled]
BadGateway == [status |-> 502, values |-> {}]

ASSUME SigStatusesAssumption ==
  /\ NumKeys \in [Requests -> Nat]
  /\ \A r \in Requests : {OkResponse(I) : I \in SUBSET Index(r)} \subseteq Messages
  /\ BadGateway \in Messages

VARIABLES
  pc,        \* what each thread does next
  frame,     \* the callback that each thread is in: request, index, nullptr?
  queued,    \* callbacks that lookup() has passed on to the loop thread
  claimed,   \* collected::sent
  remaining, \* collected::remaining
  values,    \* collected::values: the indices that have been written
  seen       \* threads that are bound to read sent as true

collected == <<claimed, remaining, values, seen>>
vars == <<server_vars, pc, frame, queued, collected>>

Callback == UNION {{r} \X Index(r) : r \in Requests}
Frame == [req : Requests, i : Nat, null : BOOLEAN]

Init ==
  /\ ServerInit
  /\ pc = [t \in Threads |-> "idle"]
  /\ frame \in [Threads -> {[req |-> r, i |-> 0, null |-> FALSE] : r \in Requests}]
  /\ \A t \in Threads : frame[t].req = CHOOSE r \in Requests : TRUE
  /\ queued = {}
  /\ claimed = [r \in Requests |-> FALSE]
  /\ remaining = NumKeys
  /\ values = [r \in Requests |-> {}]
  /\ seen = [r \in Requests |-> {}]

At(t, label) == pc[t] = label
Goto(t, label) == pc' = [pc EXCEPT ![t] = label]

\* The end of a callback: the uWS thread goes on in the loop over the keys.
Return(t) == Goto(t, IF t = "uws" THEN "lookup" ELSE "idle")

-----------------------------------------------------------------------------
(* The uWS thread between callbacks. *)

\* What the uWS loop does between two handlers.
UwsEvent(r) ==
  /\ At("uws", "idle")
  /\ Accept(r) \/ Chunk(r) \/ Abort(r)
  /\ UNCHANGED <<pc, frame, queued, collected>>

DeliverDeferred ==
  /\ At("uws", "idle")
  /\ RunDeferred
  /\ UNCHANGED <<pc, frame, queued, collected>>

\* The body is complete: the handler starts at the given point.
Handle(r, start) ==
  /\ At("uws", "idle")
  /\ LastChunk(r)
  /\ frame' = [frame EXCEPT !["uws"] = [req |-> r, i |-> 0, null |-> FALSE]]
  /\ Goto("uws", start)
  /\ UNCHANGED <<queued, collected>>

\* Mutant: i <= keys.size()
MoreKeysAndOne == frame["uws"].i <= NumKeys[frame["uws"].req]
MoreKeys == frame["uws"].i < NumKeys[frame["uws"].req]

\* lookup() of the next signature, which is in the cache ...
LookupHit ==
  /\ At("uws", "lookup")
  /\ MoreKeys
  /\ frame' = [frame EXCEPT !["uws"].i = @ + 1]
  /\ Goto("uws", "check")
  /\ UNCHANGED <<server_vars, queued, collected>>

\* ... or which is not.
LookupMiss ==
  /\ At("uws", "lookup")
  /\ MoreKeys
  /\ frame' = [frame EXCEPT !["uws"].i = @ + 1]
  /\ queued' = queued \cup {<<frame["uws"].req, frame["uws"].i + 1>>}
  /\ UNCHANGED <<server_vars, pc, collected>>

LookupsDone ==
  /\ At("uws", "lookup")
  /\ ~MoreKeys
  /\ Goto("uws", "idle")
  /\ UNCHANGED <<server_vars, frame, queued, collected>>

-----------------------------------------------------------------------------
(* The loop thread between callbacks: a coalesced response answers a queued  *)
(* lookup, with an item or (null) without one.  When CoalCache's response    *)
(* handler throws, its lookups stay queued for ever.                         *)

Answer(c, null) ==
  /\ At("loop", "idle")
  /\ c \in queued
  /\ queued' = queued \ {c}
  /\ frame' = [frame EXCEPT !["loop"] =
                 [req |-> c[1], i |-> c[2], null |-> null]]
  /\ Goto("loop", "check")
  /\ UNCHANGED <<server_vars, collected>>

-----------------------------------------------------------------------------
(* The callback, on either thread. *)

\* if (sent.load(relaxed)) return;  The load may miss a store of the other
\* thread, but not one that this thread has already met.
CheckSent(t) ==
  LET r == frame[t].req
  IN  /\ At(t, "check")
      /\ \/ /\ claimed[r]
            /\ seen' = [seen EXCEPT ![r] = @ \cup {t}]
            /\ Return(t)
         \/ /\ t \notin seen[r]
            /\ Goto(t, IF frame[t].null THEN "fail" ELSE "store")
            /\ UNCHANGED seen
      /\ UNCHANGED <<server_vars, frame, queued, claimed, remaining, values>>

\* sent.compare_exchange_strong(false, true) succeeds.
ClaimWon(t) == ~claimed[frame[t].req]

\* Mutant: the exchange leaves sent as it was.
ClaimNothing(t) == UNCHANGED <<claimed, seen>>
Claim(t) ==
  LET r == frame[t].req
  IN  /\ claimed' = [claimed EXCEPT ![r] = TRUE]
      /\ seen' = [seen EXCEPT ![r] = @ \cup {t}]

\* The item is a nullptr: the first to say so answers for all.
Fail(t) ==
  /\ At(t, "fail")
  /\ Claim(t)
  /\ IF ClaimWon(t)
     THEN SendResponse(t, frame[t].req, BadGateway)
     ELSE UNCHANGED server_vars
  /\ Return(t)
  /\ UNCHANGED <<frame, queued, remaining, values>>

\* values[i] = item->json();
Store(t) ==
  /\ At(t, "store")
  /\ values' = [values EXCEPT ![frame[t].req] = @ \cup {frame[t].i}]
  /\ Goto(t, "count")
  /\ UNCHANGED <<server_vars, frame, queued, claimed, remaining, seen>>

\* Mutant: off by one.
SecondToLast(n) == n <= 2
\* Mutant: off by one the other way.
PastLast(n) == n < 1
\* The value before the decrement says that no result is missing.
LastOne(n) == n <= 1

\* if (remaining.fetch_sub(1) > 1) return;
CountDown(t) ==
  LET r == frame[t].req
  IN  /\ At(t, "count")
      /\ remaining' = [remaining EXCEPT ![r] = @ - 1]
      /\ IF LastOne(remaining[r]) THEN Goto(t, "claim") ELSE Return(t)
      /\ UNCHANGED <<server_vars, frame, queued, claimed, values, seen>>

ClaimOk(t) ==
  /\ At(t, "claim")
  /\ Claim(t)
  /\ IF ClaimWon(t) THEN Goto(t, "build") ELSE Return(t)
  /\ UNCHANGED <<server_vars, frame, queued, remaining, values>>

\* Every value is moved into the response.
Build(t) ==
  /\ At(t, "build")
  /\ SendResponse(t, frame[t].req, OkResponse(values[frame[t].req]))
  /\ Return(t)
  /\ UNCHANGED <<frame, queued, collected>>

RunCallback(t) == \/ CheckSent(t) \/ Fail(t) \/ Store(t) \/ CountDown(t)
                  \/ ClaimOk(t) \/ Build(t)

-----------------------------------------------------------------------------

UwsStep == LookupHit \/ LookupMiss \/ LookupsDone \/ RunCallback("uws")
CoalCacheStep == \E c \in queued, null \in BOOLEAN : Answer(c, null)
LoopStep == CoalCacheStep \/ RunCallback("loop")

\* Requests is finite: once each is over and nothing is left to run, the
\* threads wait for requests that the model does not have.
Finished ==
  /\ \A r \in Requests : res[r] \in {"ended", "freed"}
  /\ \A t \in Threads : At(t, "idle")
  /\ queued = {} /\ deferred = <<>>
  /\ UNCHANGED vars

Next ==
  \/ \E r \in Requests : UwsEvent(r) \/ Handle(r, "lookup")
  \/ DeliverDeferred
  \/ UwsStep
  \/ LoopStep
  \/ Finished

Spec == Init /\ [][Next]_vars

\* Both threads go on with what they are in, and the uWS loop gets round to what
\* was deferred.  Nothing is asked of CoalCache.
FairSpec ==
  /\ Spec
  /\ WF_vars(UwsStep)
  /\ WF_vars(RunCallback("loop"))
  /\ WF_vars(DeliverDeferred)

-----------------------------------------------------------------------------
(* Properties *)

TypeOK ==
  /\ ServerTypeOK
  /\ pc \in [Threads -> {"idle", "lookup", "check", "fail", "store", "count",
                         "claim", "build"}]
  /\ frame \in [Threads -> Frame]
  /\ \A t \in Threads : frame[t].i \in 0..NumKeys[frame[t].req]
  /\ queued \subseteq Callback
  /\ claimed \in [Requests -> BOOLEAN]
  /\ remaining \in [Requests -> Nat]
  /\ values \in [Requests -> SUBSET Nat]
  /\ \A r \in Requests : remaining[r] <= NumKeys[r] /\ values[r] \subseteq Index(r)
  /\ seen \in [Requests -> SUBSET Threads]

\* "exactly one response even if a later callback would also satisfy done"
\* (main.cpp:69): whatever the threads interleave and whatever the relaxed
\* load misses, no request is responded to twice, and an OK response has the
\* value of every signature.
OneWholeResponse ==
  \A r \in Requests :
    /\ Len(sent[r]) <= 1
    /\ \A i \in DOMAIN sent[r] : sent[r][i] \in {OkResponse(Index(r)), BadGateway}

\* values is no atomic: while a thread moves the values of a request into the
\* response, no other writes one of them.
NoValueRace ==
  \A r \in Requests :
    ~ \E t, u \in Threads : /\ t # u
                            /\ At(t, "build") /\ frame[t].req = r
                            /\ At(u, "store") /\ frame[u].req = r

\* A handler that EXTENDS Server keeps the server's rule of one response per
\* accepted request, and its steps are the server's.
KeepsServerRule == ServerSpec

\* "so that we dispatch exactly one response" (main.cpp:69): a request for one
\* signature or more is responded to in the end, if CoalCache calls its callbacks
\* back.  It does not when its response handler throws (coalcache.cpp:211), and
\* for an empty list there is nothing that would call back (main.cpp:80).
CoalCacheAnswers(r) == \A i \in Index(r) : <<r, i>> \in queued ~> <<r, i>> \notin queued
EveryRequestAnswered ==
  \A r \in Requests :
    NumKeys[r] > 0 /\ CoalCacheAnswers(r) => (r \in handled ~> sent[r] # <<>>)
=============================================================================
