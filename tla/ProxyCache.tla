----------------------------- MODULE ProxyCache -----------------------------
(***************************************************************************)
(* The caching proxy of the TRON and EVM routes (proxycache.hpp,           *)
(* proxycache.cpp).  fetch() hands the whole request to the loop thread,   *)
(* which serves it from a fresh entry, lets it wait for the request in     *)
(* flight, or forwards it.  An expired response is kept for stale_grace,   *)
(* to be served when a refresh fails.                                      *)
(*                                                                         *)
(* How long a response is cached is up to the ttl function of the request  *)
(* (routes.cpp): here any member of Ttls.  Time is kept as in CoalCache.   *)
(***************************************************************************)
EXTENDS Integers, Sequences, FiniteSets

CONSTANTS
  Keys,             \* hashes of (normalized body, path)
  Callbacks,        \* one per call of fetch()
  NoEntry,          \* the key is not in the cache
  NoResponse,       \* the entry has no response yet
  Ttls,             \* what a ttl function may return; <= 0: do not cache
  StaleGrace,       \* stale_grace
  CleanInterval,    \* clean_interval
  UpstreamTimeout,  \* the client's upstream_timeout
  Slack,            \* how late the loop thread may run what is due
  WaitCap           \* where the count of waiting time saturates

ASSUME ProxyCacheAssumption ==
  /\ Ttls \subseteq Int
  /\ StaleGrace \in Nat
  /\ CleanInterval \in Nat \ {0}
  /\ UpstreamTimeout \in Nat \ {0}
  /\ Slack \in Nat
  /\ WaitCap \in Nat

\* The cached response, if any: the time left until its expiry, and (history)
\* whether no newer one has been passed on since.
Response == [left : Int, latest : BOOLEAN]
Entry == [response : Response \cup {NoResponse},
          in_flight : BOOLEAN,
          callbacks : SUBSET Callbacks]

\* No response is none, and no entry is none.
ASSUME NoEntryAssumption == NoResponse \notin Response /\ NoEntry \notin Entry

\* What a callback is called with: a fresh cached response, the response it
\* waited for, a failure, or a stale response in place of a failure.
Answers == {"hit", "fetched", "failed", "stale"}

VARIABLES
  jobs,     \* the loop thread's queue of fetch() jobs
  cache,    \* cache[k]: the entry, or NoEntry
  cleanIn,  \* time until the cleaner fires
  posts,    \* upstream requests in flight
  spared,   \* history: keys that were in flight when clean() last ran
  asked,    \* history: callbacks handed to fetch()
  waited,   \* history: how long a callback has been waiting
  answer    \* history: what a callback was called with

vars == <<jobs, cache, cleanIn, posts, spared, asked, waited, answer>>

Post == [key : Keys, left : Int]
Job == [cb : Callbacks, key : Keys]

Init ==
  /\ jobs = <<>>
  /\ cache = [k \in Keys |-> NoEntry]
  /\ cleanIn = CleanInterval
  /\ posts = {}
  /\ spared = {}
  /\ asked = {}
  /\ waited = [c \in Callbacks |-> 0]
  /\ answer = [c \in Callbacks |-> "none"]

Cached(k) == cache[k] # NoEntry
HasResponse(k) == Cached(k) /\ cache[k].response # NoResponse
InFlight(k) == Cached(k) /\ cache[k].in_flight
Waiters(k) == IF Cached(k) THEN cache[k].callbacks ELSE {}
ResponseOf(k) == IF Cached(k) THEN cache[k].response ELSE NoResponse

-----------------------------------------------------------------------------
(* The uWS thread. *)

Fetch(c, k) ==
  /\ c \notin asked
  /\ asked' = asked \cup {c}
  /\ jobs' = Append(jobs, [cb |-> c, key |-> k])
  /\ UNCHANGED <<cache, cleanIn, posts, spared, waited, answer>>

-----------------------------------------------------------------------------
(* The loop thread. *)

Dequeue(c, k) ==
  /\ jobs # <<>>
  /\ Head(jobs) = [cb |-> c, key |-> k]
  /\ jobs' = Tail(jobs)

Call(C, a) == answer' = [c \in Callbacks |-> IF c \in C THEN a ELSE answer[c]]

IsFresh(k) == HasResponse(k) /\ cache[k].response.left > 0

\* The job of fetch() for a fresh entry.
Hit(c, k) ==
  /\ Dequeue(c, k)
  /\ IsFresh(k)
  /\ Call({c}, "hit")
  /\ UNCHANGED <<cache, cleanIn, posts, spared, asked, waited>>

\* Mutant: a request is in flight only for an entry without a response.
JoinsFirst(k) == InFlight(k) /\ ~HasResponse(k)
Joins(k) == InFlight(k)

\* The job of fetch() for any other key: it joins the request in flight or
\* starts one.
Refetch(c, k) ==
  /\ Dequeue(c, k)
  /\ ~IsFresh(k)
  /\ cache' = [cache EXCEPT ![k] = [response |-> ResponseOf(k), in_flight |-> TRUE,
                                    callbacks |-> Waiters(k) \cup {c}]]
  /\ posts' = IF Joins(k) THEN posts
              ELSE posts \cup {[key |-> k, left |-> UpstreamTimeout]}
  /\ UNCHANGED <<cleanIn, spared, asked, waited, answer>>

\* Mutant: the waiters are told and kept.
Answered(k) == [cache[k] EXCEPT !.in_flight = FALSE]
\* Mutant: in_flight is left as it was.
StillInFlight(k) == [cache[k] EXCEPT !.callbacks = {}]
\* What on_response() makes of an entry before it looks at the response.
Settled(k) == [cache[k] EXCEPT !.in_flight = FALSE, !.callbacks = {}]

\* Mutant: the entry stays, without a response.
SettledNotErased(k) == Settled(k)
\* An entry that has no response once its request is over is erased.
SettledOrErased(k) == IF HasResponse(k) THEN Settled(k) ELSE NoEntry

\* Mutant: the response that is there is cached for another ttl.
Renewed(k) == IF HasResponse(k)
              THEN [Settled(k) EXCEPT !.response = [left |-> 1, latest |-> FALSE]]
              ELSE NoEntry
\* The same, after an answer that is newer than the response.
SettledAndOlder(k) == IF HasResponse(k)
                      THEN [Settled(k) EXCEPT !.response.latest = FALSE]
                      ELSE NoEntry

\* on_response(): the waiters are called with a, and e is left of the entry.  If
\* there was no entry nobody would be called.
OnResponse(p, e, a) ==
  /\ p \in posts
  /\ posts' = posts \ {p}
  /\ IF Cached(p.key)
     THEN cache' = [cache EXCEPT ![p.key] = e] /\ Call(Waiters(p.key), a)
     ELSE UNCHANGED <<cache, answer>>
  /\ UNCHANGED <<jobs, cleanIn, spared, asked, waited>>

ResponseCached(p, ttl) ==
  /\ ttl > 0
  /\ OnResponse(p, [Settled(p.key) EXCEPT !.response =
                      [left |-> ttl, latest |-> TRUE]], "fetched")

\* A 2xx response that is not to be cached leaves an older one in place.
ResponsePassed(p, ttl) ==
  /\ ttl <= 0
  /\ OnResponse(p, SettledAndOlder(p.key), "fetched")

\* A failure is passed on when there is nothing older to serve instead.
ResponseFailed(p) ==
  OnResponse(p, SettledOrErased(p.key),
             IF HasResponse(p.key) THEN "stale" ELSE "failed")

\* now > e.expiry + stale_grace
PastGrace(k) == HasResponse(k) /\ cache[k].response.left + StaleGrace < 0

\* Mutant: an entry gets a second grace period.
GoneLate(k) == /\ HasResponse(k) /\ ~InFlight(k)
               /\ cache[k].response.left + 2 * StaleGrace < 0
\* An entry without a response has an expiry in the distant past.
Gone(k) == Cached(k) /\ ~InFlight(k) /\ (HasResponse(k) => PastGrace(k))

\* clean()
Clean ==
  /\ cleanIn <= 0
  /\ cleanIn' = CleanInterval
  /\ cache' = [k \in Keys |-> IF Gone(k) THEN NoEntry ELSE cache[k]]
  /\ spared' = {k \in Keys : InFlight(k)}
  /\ UNCHANGED <<jobs, posts, asked, waited, answer>>

-----------------------------------------------------------------------------
(* The clock. *)

JobCallbacks == {jobs[i].cb : i \in DOMAIN jobs}
Pending == {c \in asked : answer[c] = "none"}

\* Past LastAge, no time of the code is left that the age would be compared
\* with: it counts no further.
LastAge == -(StaleGrace + CleanInterval + UpstreamTimeout + 2 * Slack + 1)
Older(k) == [cache[k] EXCEPT !.response.left = IF @ > LastAge THEN @ - 1 ELSE @]

\* Time goes by unless the loop thread would be more than Slack late.
Tick ==
  /\ \A c \in JobCallbacks : waited[c] < Slack
  /\ \A p \in posts : p.left > -Slack
  /\ cleanIn > -Slack
  /\ cleanIn' = cleanIn - 1
  /\ posts' = {[p EXCEPT !.left = @ - 1] : p \in posts}
  /\ cache' = [k \in Keys |-> IF HasResponse(k) THEN Older(k) ELSE cache[k]]
  /\ waited' = [c \in Callbacks |->
                  IF c \in Pending /\ waited[c] < WaitCap
                  THEN waited[c] + 1 ELSE waited[c]]
  /\ UNCHANGED <<jobs, spared, asked, answer>>

LoopJob == \E c \in Callbacks, k \in Keys : Hit(c, k) \/ Refetch(c, k)
LoopReply(p) == \/ \E ttl \in Ttls : ResponseCached(p, ttl) \/ ResponsePassed(p, ttl)
                \/ ResponseFailed(p)

Next ==
  \/ \E c \in Callbacks, k \in Keys : Fetch(c, k)
  \/ LoopJob
  \/ \E p \in posts : LoopReply(p)
  \/ Clean
  \/ Tick

Spec == Init /\ [][Next]_vars

\* The loop thread keeps running its jobs and timers, the client completes
\* every request (with its timeout if need be), and time goes on.
FairSpec ==
  /\ Spec
  /\ WF_vars(LoopJob)
  /\ WF_vars(\E p \in posts : LoopReply(p))
  /\ WF_vars(Clean)
  /\ WF_vars(Tick)

-----------------------------------------------------------------------------
(* Properties *)

\* An entry with no request in flight has something to serve.
TypeOK ==
  /\ jobs \in Seq(Job)
  /\ cache \in [Keys -> Entry \cup {NoEntry}]
  /\ \A k \in Keys : Cached(k) => InFlight(k) \/ HasResponse(k)
  /\ cleanIn \in Int
  /\ posts \subseteq Post
  /\ spared \subseteq Keys
  /\ asked \subseteq Callbacks
  /\ waited \in [Callbacks -> Nat]
  /\ answer \in [Callbacks -> Answers \cup {"none"}]

\* "Concurrent calls with the same key coalesce onto a single upstream request"
\* (proxycache.hpp:58), also when they refresh an expired entry.  A response
\* finds its entry, with somebody waiting for it.
OneRequestPerKey ==
  /\ \A p1, p2 \in posts : p1.key = p2.key => p1 = p2
  /\ {p.key : p \in posts} = {k \in Keys : InFlight(k)}
  /\ \A k \in Keys : InFlight(k) <=> Waiters(k) # {}

\* A callback that is still to be called is in one job or waits in one entry,
\* and one that was called is in none: refreshes, stale answers and clean-ups
\* neither lose a callback nor keep one.
HeldOnce ==
  \A c \in Callbacks :
    Cardinality({i \in DOMAIN jobs : jobs[i].cb = c}
                \cup {k \in Keys : c \in Waiters(k)})
      = IF c \in Pending THEN 1 ELSE 0

\* Nothing outlives ttl and stale_grace by a clean interval unless a request
\* was in flight for it each time that clean() ran.
IdleEntriesGo ==
  \A k \in Keys :
    HasResponse(k) /\ cache[k].response.left + StaleGrace + CleanInterval + Slack < 0
      => k \in spared

Deadline == UpstreamTimeout + 2 * Slack

Service == INSTANCE LookupService WITH
  Results <- Answers, NoResult <- "none", forsaken <- {}

\* The proxy implements the lookup service: one answer each, all of them within
\* Deadline, and none forsaken.
ServicePromise == Service!Spec

\* Every fetch is answered, with a failure if need be: "the response is still
\* delivered to waiters" (proxycache.hpp:45).
EveryFetchAnswered ==
  \A c \in Callbacks : c \in asked ~> answer[c] # "none"

\* "deliver it fresh without storing" (proxycache.cpp:176): once an answer has
\* been passed on without being cached, an older response that it left in its
\* place is not taken for fresh: a hit is never older than what somebody has
\* already been told.
HitsAreLatest ==
  [][\A c \in Callbacks : answer[c] = "none" /\ answer'[c] = "hit" =>
       cache[Head(jobs).key].response.latest]_vars
=============================================================================
