------------------------------ MODULE ReqCache ------------------------------
(***************************************************************************)
(* The request cache of a Solana route (reqcache.hpp, reqcache.cpp): every *)
(* method but getSignatureStatuses.  lookup() hands the whole request to   *)
(* the loop thread; the first request for a key is sent upstream and later *)
(* ones wait for its response or find it in the cache.                     *)
(*                                                                         *)
(* The callbacks are those of handle_solana(): they throw on a result that *)
(* is not a JSON object, when they set its "id".  The client drops an      *)
(* exception of a response handler; one that leaves a job leaves the loop  *)
(* thread, as nothing catches it there, and ends the process.              *)
(*                                                                         *)
(* Time is kept as in CoalCache: as the time left until a point in time,   *)
(* negative once it has passed, and the loop thread runs what is due at    *)
(* most Slack late.                                                        *)
(***************************************************************************)
EXTENDS Integers, Sequences, FiniteSets

CONSTANTS
  Keys,             \* hashes of request bodies with the id zeroed
  Callbacks,        \* one per call of lookup()
  NoItem,           \* the key is not in the cache
  CacheExpiry,      \* cache_expiry, may be <= 0
  CleanInterval,    \* the 1s of the cache_clean_timer
  UpstreamTimeout,  \* the client's upstream_timeout
  Replies,          \* the kinds of upstream reply considered
  Slack,            \* how late the loop thread may run what is due
  WaitCap           \* where the count of waiting time saturates

\* A 2xx JSON body that is an object (or null, which becomes one), any other
\* JSON body with 2xx, and any other reply.
ReplyKinds == {"object", "scalar", "failure"}
Results == {"object", "scalar"}

ASSUME ReqCacheAssumption ==
  /\ CacheExpiry \in Int
  /\ CleanInterval \in Nat \ {0}
  /\ UpstreamTimeout \in Nat \ {0}
  /\ Replies \subseteq ReplyKinds
  /\ Slack \in Nat
  /\ WaitCap \in Nat

\* An entry that waits for its response, and one that has it.  The code's
\* _pending is the absence of a result.
PendingItem == [sent : BOOLEAN, callbacks : SUBSET Callbacks]
DoneItem == [result : Results, left : Int]

\* No entry is the absence of one.
ASSUME NoItemAssumption == NoItem \notin PendingItem \cup DoneItem

VARIABLES
  jobs,     \* the loop thread's queue of lookup() jobs
  cache,    \* cache[k]: the entry, or NoItem
  cleanIn,  \* time until cache_clean_timer fires
  posts,    \* upstream requests in flight
  down,     \* an exception has ended the process
  lost,     \* history: callbacks dropped by an exception
  asked,    \* history: callbacks handed to lookup()
  waited,   \* history: how long a callback has been waiting
  answer    \* history: what a callback was called with

vars == <<jobs, cache, cleanIn, posts, down, lost, asked, waited, answer>>

Post == [key : Keys, left : Int]
Job == [cb : Callbacks, key : Keys]

IsPending(k) == cache[k] # NoItem /\ "callbacks" \in DOMAIN cache[k]
IsDone(k) == cache[k] # NoItem /\ "result" \in DOMAIN cache[k]
Pending == {c \in asked : answer[c] = "none"}

Init ==
  /\ jobs = <<>>
  /\ cache = [k \in Keys |-> NoItem]
  /\ cleanIn = CleanInterval
  /\ posts = {}
  /\ down = FALSE
  /\ lost = {}
  /\ asked = {}
  /\ waited = [c \in Callbacks |-> 0]
  /\ answer = [c \in Callbacks |-> "none"]

-----------------------------------------------------------------------------
(* The uWS thread. *)

Lookup(c, k) ==
  /\ ~down
  /\ c \notin asked
  /\ asked' = asked \cup {c}
  /\ jobs' = Append(jobs, [cb |-> c, key |-> k])
  /\ UNCHANGED <<cache, cleanIn, posts, down, lost, waited, answer>>

-----------------------------------------------------------------------------
(* The loop thread. *)

Dequeue(c, k) ==
  /\ ~down
  /\ jobs # <<>>
  /\ Head(jobs) = [cb |-> c, key |-> k]
  /\ jobs' = Tail(jobs)

\* Mutant: the callbacks take any result for an object.
CallUnchecked(C, result) ==
  /\ answer' = [c \in Callbacks |-> IF c \in C THEN result ELSE answer[c]]
  /\ UNCHANGED lost
\* Calls the callbacks C with a result (nullptr is "failed"): on a result that
\* is no object the first one throws, and the others are not called either.
Call(C, result) ==
  IF result = "scalar"
  THEN lost' = lost \cup C /\ UNCHANGED answer
  ELSE /\ answer' = [c \in Callbacks |-> IF c \in C THEN result ELSE answer[c]]
       /\ UNCHANGED lost

\* The job of lookup() for a key that is done: it is served as long as it is
\* there, whether or not it has expired.  The callback runs in the job itself.
Hit(c, k) ==
  /\ Dequeue(c, k)
  /\ IsDone(k)
  /\ Call({c}, cache[k].result)
  /\ down' = (cache[k].result = "scalar")
  /\ UNCHANGED <<cache, cleanIn, posts, asked, waited>>

\* Mutant: no one notes that the request was sent.
SentNever(k) == FALSE
Sent(k) == IsPending(k) /\ cache[k].sent
Waiters(k) == IF IsPending(k) THEN cache[k].callbacks ELSE {}

\* The job of lookup() for any other key, cache[cache_key] making a new item.
Wait(c, k) ==
  /\ Dequeue(c, k)
  /\ ~IsDone(k)
  /\ cache' = [cache EXCEPT ![k] =
                 [sent |-> TRUE, callbacks |-> Waiters(k) \cup {c}]]
  /\ posts' = IF Sent(k) THEN posts
              ELSE posts \cup {[key |-> k, left |-> UpstreamTimeout]}
  /\ UNCHANGED <<cleanIn, down, lost, asked, waited, answer>>

\* The response handler finds no entry and gives up.
NoEntry(p) == cache[p.key] = NoItem

\* Mutant: the entry of a failed request stays, as if it was still under way.
Kept(k) == [sent |-> TRUE, callbacks |-> {}]
Erased(k) == NoItem

\* The response handler on a reply that failed: nullptr for everyone.
ReplyFailure(p) ==
  /\ ~down
  /\ "failure" \in Replies
  /\ p \in posts
  /\ posts' = posts \ {p}
  /\ IF NoEntry(p) THEN UNCHANGED <<cache, lost, answer>>
     ELSE /\ Call(Waiters(p.key), "failed")
          /\ cache' = [cache EXCEPT ![p.key] = Erased(p.key)]
  /\ UNCHANGED <<jobs, cleanIn, down, asked, waited>>

\* The response handler on a JSON body: it is cached before the callbacks run.
ReplyResult(p, r) ==
  /\ ~down
  /\ r \in Replies \cap Results
  /\ p \in posts
  /\ posts' = posts \ {p}
  /\ IF NoEntry(p) THEN UNCHANGED <<cache, lost, answer>>
     ELSE /\ cache' = [cache EXCEPT ![p.key] = [result |-> r, left |-> CacheExpiry]]
          /\ Call(Waiters(p.key), r)
  /\ UNCHANGED <<jobs, cleanIn, down, asked, waited>>

\* Mutant: an item that is still pending is cleaned too.
ExpiredOrPending(k) == IsPending(k) \/ (IsDone(k) /\ cache[k].left < 0)
\* Mutant: the clean-up grants an item one more interval.
LongExpired(k) == IsDone(k) /\ cache[k].left + CleanInterval < 0
Expired(k) == IsDone(k) /\ cache[k].left < 0

\* clean_cache()
CleanCache ==
  /\ ~down
  /\ cleanIn <= 0
  /\ cleanIn' = CleanInterval
  /\ cache' = [k \in Keys |-> IF Expired(k) THEN NoItem ELSE cache[k]]
  /\ UNCHANGED <<jobs, posts, down, lost, asked, waited, answer>>

-----------------------------------------------------------------------------
(* Time goes by unless the loop thread would be more than Slack late.        *)

JobCallbacks == {jobs[i].cb : i \in DOMAIN jobs}

Tick ==
  /\ ~down
  /\ \A c \in JobCallbacks : waited[c] < Slack
  /\ \A p \in posts : p.left > -Slack
  /\ cleanIn > -Slack
  /\ cleanIn' = cleanIn - 1
  /\ posts' = {[p EXCEPT !.left = @ - 1] : p \in posts}
  /\ cache' = [k \in Keys |-> IF IsDone(k) THEN [cache[k] EXCEPT !.left = @ - 1]
                              ELSE cache[k]]
  /\ waited' = [c \in Callbacks |->
                  IF c \in Pending /\ waited[c] < WaitCap
                  THEN waited[c] + 1 ELSE waited[c]]
  /\ UNCHANGED <<jobs, down, lost, asked, answer>>

LoopJob == \E c \in Callbacks, k \in Keys : Hit(c, k) \/ Wait(c, k)
LoopReply(p) == ReplyFailure(p) \/ \E r \in Results : ReplyResult(p, r)

\* Nothing happens any more.
Ended == down /\ UNCHANGED vars

Next ==
  \/ \E c \in Callbacks, k \in Keys : Lookup(c, k)
  \/ LoopJob
  \/ \E p \in posts : LoopReply(p)
  \/ CleanCache
  \/ Tick
  \/ Ended

Spec == Init /\ [][Next]_vars

\* The loop thread keeps running its jobs and timers, the client completes
\* every request (with its timeout if need be), and time goes on.
FairSpec ==
  /\ Spec
  /\ WF_vars(LoopJob)
  /\ WF_vars(\E p \in posts : LoopReply(p))
  /\ WF_vars(CleanCache)
  /\ WF_vars(Tick)

-----------------------------------------------------------------------------
(* Properties *)

TypeOK ==
  /\ jobs \in Seq(Job)
  /\ cache \in [Keys -> PendingItem \cup DoneItem \cup {NoItem}]
  /\ cleanIn \in Int
  /\ posts \subseteq Post
  /\ down \in BOOLEAN
  /\ lost \subseteq asked
  /\ asked \subseteq Callbacks
  /\ waited \in [Callbacks -> Nat]
  /\ answer \in [Callbacks -> {"none", "failed", "object"}]

\* "If multiple identical requests arrive while a proxied request is ongoing"
\* (reqcache.hpp:49): they share it.  A key has one request in flight exactly
\* while its entry is pending, so a response always finds the entry it is for
\* and the clean-up never takes an entry from under a request.
OneRequestPerKey ==
  /\ \A p1, p2 \in posts : p1.key = p2.key => p1 = p2
  /\ {p.key : p \in posts} = {k \in Keys : IsPending(k)}

\* A callback that is still to be called is in one job or in one pending entry,
\* unless an exception dropped it, and in none once it was called.
HeldOnce ==
  \A c \in Callbacks :
    Cardinality({i \in DOMAIN jobs : jobs[i].cb = c}
                \cup {k \in Keys : c \in Waiters(k)})
      = IF c \in Pending \ lost THEN 1 ELSE 0

\* lookup() serves a done entry without a look at its expiry; the clean-up sees
\* to it that nothing is there to be served an interval past its expiry.
StalenessBound ==
  \A k \in Keys : IsDone(k) => cache[k].left + CleanInterval + Slack >= 0

Deadline == UpstreamTimeout + 2 * Slack

Service == INSTANCE LookupService WITH
  Results <- {"failed", "object"}, NoResult <- "none", forsaken <- lost

\* The cache implements the lookup service: one answer each, none to a dropped
\* callback, and all within Deadline.
ServicePromise == Service!Spec

\* No lookup waits for ever: it is answered, or dropped by an exception (at
\* reqcache.cpp:107, of the callback or of another one before it), or an exception
\* ended the process (reqcache.cpp:47).
EveryLookupSettled ==
  \A c \in Callbacks : c \in asked ~> answer[c] # "none" \/ c \in lost \/ down
=============================================================================
