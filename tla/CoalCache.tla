------------------------------ MODULE CoalCache ------------------------------
(***************************************************************************)
(* The coalescing cache of getSignatureStatuses lookups (coalcache.hpp,    *)
(* coalcache.cpp).  The uWS thread calls lookup(); everything else runs on *)
(* the libquic loop thread, one job, timer or upstream response at a time. *)
(*                                                                         *)
(* Time is relative: a point in time of the code is kept as the time left  *)
(* until it (negative once it has passed), and Tick lets one unit go by.   *)
(* So "expiry <= now" in the code is left <= 0 here.  The loop thread is   *)
(* punctual up to Slack: it runs whatever is due at most Slack late.       *)
(*                                                                         *)
(* A lookup is named by its callback, and each callback is used once.      *)
(***************************************************************************)
EXTENDS Integers, Sequences, FiniteSets

CONSTANTS
  Keys,               \* the signatures that are looked up
  Callbacks,          \* one per call of lookup()
  NoItem,             \* the key is not in the cache
  MaxCoalesce,        \* max_coalesce
  CoalesceTime,       \* coalesce_time
  PositiveCacheTime,  \* positive_cache_time, may be <= 0
  NegativeCacheTime,  \* negative_cache_time, may be <= 0
  CleanInterval,      \* the 1s of the cache_clean_timer
  UpstreamTimeout,    \* the client's upstream_timeout
  Replies,            \* the kinds of upstream reply considered
  ByHand,             \* whether send_coalesced() is also called by hand
  Slack,              \* how late the loop thread may run what is due
  WaitCap             \* where the count of waiting time saturates

(***************************************************************************)
(* What load() tells apart: a null value, a found one (processed,          *)
(* confirmed, finalized or unknown) and one it throws on.                  *)
(***************************************************************************)
Statuses == {"null", "found"}
Values == Statuses \cup {"malformed"}
Answers == {"none", "failed"} \cup Statuses

Item == [conf_status : Statuses, left : Int]

(***************************************************************************)
(* "values": a 2xx reply with one value per key.  "failure": any reply the *)
(* handler turns into nullptr for every callback (a status outside 2xx,    *)
(* the client's timeout, an unparsable body, a wrong number of values).    *)
(* "rpc_error": a 2xx body that is rejected after resp was assigned a JSON *)
(* object or scalar, such as {"jsonrpc": "2.0", "error": ...}.             *)
(***************************************************************************)
ReplyKinds == {"values", "failure", "rpc_error"}

ASSUME CoalCacheAssumption ==
  /\ IsFiniteSet(Keys)
  /\ NoItem \notin Item
  /\ MaxCoalesce \in Nat
  /\ CoalesceTime \in Nat
  /\ PositiveCacheTime \in Int
  /\ NegativeCacheTime \in Int
  /\ CleanInterval \in Nat \ {0}
  /\ UpstreamTimeout \in Nat \ {0}
  /\ Replies \subseteq ReplyKinds
  /\ ByHand \in BOOLEAN
  /\ Slack \in Nat
  /\ WaitCap \in Nat

VARIABLES
  jobs,          \* jobs queued for the loop thread by other threads, FIFO
  cache,         \* cache[k]: the cached item or NoItem
  cleanIn,       \* time until cache_clean_timer fires
  q_coalescing,  \* q_coalescing[k]: callbacks of k, {} when k is absent
  q_sent,        \* q_sent[k]: callbacks of k, {} when k is absent
  q_num,         \* the batch number that timers capture
  timers,        \* pending call_later timers of lookup()
  draining,      \* the loop thread is in a send_coalesced() that never returns
  posts,         \* upstream requests in flight
  sends,         \* history: how often the queue was sent so far
  wedged,        \* history: keys whose response handler threw
  asked,         \* history: callbacks handed to lookup()
  waited,        \* history: how long a callback has been waiting
  answer         \* history: what a callback was called with

queues == <<q_coalescing, q_sent, q_num, timers, draining, posts, sends>>
history == <<wedged, asked, waited, answer>>
vars == <<jobs, cache, cleanIn, queues, history>>

Timer == [left : Int, q_num : Int, batch : Nat]
Post == [keys : SUBSET Keys, left : Int]
LookupJob == [op : {"lookup"}, cb : Callbacks, key : Keys]
SendJob == [op |-> "send"]

Pending == {c \in asked : answer[c] = "none"}
QueuedIn(q) == {k \in Keys : q[k] # {}}
\* Mutant: lookup() does not look into q_sent.
NeverHasRequest(k) == FALSE
HasRequest(k) == q_sent[k] # {}
InFlight == UNION {p.keys : p \in posts}

Init ==
  /\ jobs = <<>>
  /\ cache = [k \in Keys |-> NoItem]
  /\ cleanIn = CleanInterval
  /\ q_coalescing = [k \in Keys |-> {}]
  /\ q_sent = [k \in Keys |-> {}]
  /\ q_num = 0
  /\ timers = {}
  /\ draining = FALSE
  /\ posts = {}
  /\ sends = 0
  /\ wedged = {}
  /\ asked = {}
  /\ waited = [c \in Callbacks |-> 0]
  /\ answer = [c \in Callbacks |-> "none"]

-----------------------------------------------------------------------------
(* The uWS thread. *)

\* lookup() of a cached key: the callback gets a copy of the item at once,
\* whether or not the item has expired.
LookupHit(c, k) ==
  /\ c \notin asked
  /\ cache[k] # NoItem
  /\ asked' = asked \cup {c}
  /\ answer' = [answer EXCEPT ![c] = cache[k].conf_status]
  /\ UNCHANGED <<jobs, cache, cleanIn, queues, wedged, waited>>

\* lookup() of any other key: the rest of it is a job for the loop thread.
LookupMiss(c, k) ==
  /\ c \notin asked
  /\ cache[k] = NoItem
  /\ asked' = asked \cup {c}
  /\ jobs' = Append(jobs, [op |-> "lookup", cb |-> c, key |-> k])
  /\ UNCHANGED <<cache, cleanIn, queues, wedged, waited, answer>>

\* send_coalesced() called by hand on another thread, as coalcache.hpp allows
\* (nothing in main.cpp does).  Bound: one such job is queued at a time.
CallSendCoalesced ==
  /\ ByHand
  /\ \A i \in DOMAIN jobs : jobs[i] # SendJob
  /\ jobs' = Append(jobs, SendJob)
  /\ UNCHANGED <<cache, cleanIn, queues, history>>

-----------------------------------------------------------------------------
(* The loop thread.  Once draining it runs nothing else any more. *)

\* The batches that send_coalesced() makes of q, which it walks in the arbitrary
\* order of an unordered_map: it calls itself until q is empty, so every batch
\* is full except perhaps the last.  If max_coalesce is 0 it makes the empty
\* batch, again and again.
Batchings(q) ==
  IF MaxCoalesce = 0 /\ QueuedIn(q) # {} THEN {{{}}}
  ELSE {P \in SUBSET SUBSET QueuedIn(q) :
          /\ UNION P = QueuedIn(q)
          /\ \A K \in P : Cardinality(K) \in 1..MaxCoalesce
          /\ \A K, L \in P : K # L => /\ K \cap L = {}
                                      /\ MaxCoalesce \in {Cardinality(K), Cardinality(L)}}

\* Mutant: keys are copied from and never erased.
EraseNone(q, K) == q
\* it = q_coalescing.erase(it) for every key of the batch K.
EraseKeys(q, K) == [k \in Keys |-> IF k \in K THEN {} ELSE q[k]]

\* send_coalesced() on the loop thread, with q the value of q_coalescing and its
\* recursion: the whole queue leaves, or the call never returns.
SendCoalesced(q) ==
  \E P \in Batchings(q) :
    /\ q_coalescing' = EraseKeys(q, UNION P)
    /\ q_sent' = [k \in Keys |-> IF k \in UNION P THEN q_sent[k] \cup q[k]
                                                  ELSE q_sent[k]]
    /\ posts' = posts \cup {[keys |-> K, left |-> UpstreamTimeout] : K \in P}
    /\ sends' = IF UNION P = {} THEN sends ELSE sends + 1
    /\ draining' = (UNION P # QueuedIn(q))

Dequeue(job) ==
  /\ ~draining
  /\ jobs # <<>>
  /\ Head(jobs) = job
  /\ jobs' = Tail(jobs)

\* The job of lookup() for a key that has a request in flight.
JoinSent(c, k) ==
  /\ Dequeue([op |-> "lookup", cb |-> c, key |-> k])
  /\ HasRequest(k)
  /\ q_sent' = [q_sent EXCEPT ![k] = @ \cup {c}]
  /\ UNCHANGED <<cache, cleanIn, q_coalescing, q_num, timers, draining, posts,
                 sends, history>>

\* Mutant: the timer is started once and never again.
OpensFirstBatch == sends = 0 /\ QueuedIn(q_coalescing) = {}
OpensBatch == QueuedIn(q_coalescing) = {}
NewTimer == [left |-> CoalesceTime, q_num |-> q_num, batch |-> sends]
\* Mutant: > for >=.
BatchOverfull(q) == Cardinality(QueuedIn(q)) > MaxCoalesce
BatchFull(q) == Cardinality(QueuedIn(q)) >= MaxCoalesce

\* The job of lookup() for any other key: the first key of a batch starts the
\* timer, and the key that fills the batch sends it.
Enqueue(c, k) ==
  LET q == [q_coalescing EXCEPT ![k] = @ \cup {c}]
  IN  /\ Dequeue([op |-> "lookup", cb |-> c, key |-> k])
      /\ ~HasRequest(k)
      /\ timers' = IF OpensBatch THEN timers \cup {NewTimer} ELSE timers
      /\ IF BatchFull(q)
         THEN SendCoalesced(q)
         ELSE /\ q_coalescing' = q
              /\ UNCHANGED <<q_sent, draining, posts, sends>>
      /\ UNCHANGED <<cache, cleanIn, q_num, history>>

\* The job of a send_coalesced() called on another thread.
RunSendJob ==
  /\ Dequeue(SendJob)
  /\ SendCoalesced(q_coalescing)
  /\ UNCHANGED <<cache, cleanIn, q_num, timers, history>>

\* A timer of lookup() is ignored when q_num has advanced since it was started.
FireTimer(t) ==
  /\ ~draining
  /\ t \in timers
  /\ t.left <= 0
  /\ timers' = timers \ {t}
  /\ IF t.q_num = q_num
     THEN SendCoalesced(q_coalescing)
     ELSE UNCHANGED <<q_coalescing, q_sent, draining, posts, sends>>
  /\ UNCHANGED <<jobs, cache, cleanIn, q_num, history>>

\* Mutant: the clean-up grants an item one more interval.
LongExpired(k) == cache[k] # NoItem /\ cache[k].left + CleanInterval <= 0
Expired(k) == cache[k] # NoItem /\ cache[k].left <= 0

\* clean_cache()
CleanCache ==
  /\ ~draining
  /\ cleanIn <= 0
  /\ cleanIn' = CleanInterval
  /\ cache' = [k \in Keys |-> IF Expired(k) THEN NoItem ELSE cache[k]]
  /\ UNCHANGED <<jobs, queues, history>>

\* Mutant: the callbacks get an item that failed to load.
Unchecked(s) == s
\* What a callback is called with for the value s; nullptr if load() threw.
Loaded(s) == IF s = "malformed" THEN "failed" ELSE s

\* The callbacks that are called when the keys K are answered, each with the
\* result that v gives its key.
Deliver(K, v) ==
  /\ answer' = [c \in Callbacks |->
                  IF \E k \in K : c \in q_sent[k]
                  THEN v[CHOOSE k \in K : c \in q_sent[k]] ELSE answer[c]]
  /\ q_sent' = EraseKeys(q_sent, K)

\* How long a loaded item is cached.  operator bool of an item is !is_null(),
\* so it is a found item that is given negative_cache_time.
CacheTime(s) == IF s # "null" THEN NegativeCacheTime ELSE PositiveCacheTime

\* The response handler on a reply that has a value for each key of the batch.
ReplyValues(p, v) ==
  /\ "values" \in Replies
  /\ ~draining
  /\ p \in posts
  /\ v \in [p.keys -> Values]
  /\ posts' = posts \ {p}
  /\ cache' = [k \in Keys |->
                 IF k \in p.keys /\ v[k] # "malformed" /\ CacheTime(v[k]) > 0
                 THEN [conf_status |-> v[k], left |-> CacheTime(v[k])]
                 ELSE cache[k]]
  /\ Deliver(p.keys, [k \in p.keys |-> Loaded(v[k])])
  /\ UNCHANGED <<jobs, cleanIn, q_coalescing, q_num, timers, draining, sends,
                 wedged, asked, waited>>

\* The response handler on a reply that failed as a whole.
ReplyFailure(p) ==
  /\ "failure" \in Replies
  /\ ~draining
  /\ p \in posts
  /\ posts' = posts \ {p}
  /\ Deliver(p.keys, [k \in p.keys |-> "failed"])
  /\ UNCHANGED <<jobs, cache, cleanIn, q_coalescing, q_num, timers, draining,
                 sends, wedged, asked, waited>>

\* The response handler on a reply that was rejected when resp already held a
\* JSON object: resp[i] throws outside the try block, the client logs and drops
\* the exception, no callback is called and q_sent keeps the keys.
ReplyThrows(p) ==
  /\ "rpc_error" \in Replies
  /\ ~draining
  /\ p \in posts
  /\ posts' = posts \ {p}
  /\ wedged' = wedged \cup p.keys
  /\ UNCHANGED <<jobs, cache, cleanIn, q_coalescing, q_sent, q_num, timers,
                 draining, sends, asked, waited, answer>>

-----------------------------------------------------------------------------
(* Time *)

JobCallbacks ==
  {c \in Callbacks : \E i \in DOMAIN jobs :
                        jobs[i].op = "lookup" /\ jobs[i].cb = c}

\* Time goes by unless the loop thread would be more than Slack late with a
\* job, a timer or a response (the client's timeout answers every request).
Tick ==
  /\ \A c \in JobCallbacks : waited[c] < Slack
  /\ \A t \in timers : t.left > -Slack
  /\ \A p \in posts : p.left > -Slack
  /\ cleanIn > -Slack
  /\ cleanIn' = cleanIn - 1
  /\ timers' = {[t EXCEPT !.left = @ - 1] : t \in timers}
  /\ posts' = {[p EXCEPT !.left = @ - 1] : p \in posts}
  /\ cache' = [k \in Keys |-> IF cache[k] = NoItem THEN NoItem
                              ELSE [cache[k] EXCEPT !.left = @ - 1]]
  /\ waited' = [c \in Callbacks |->
                  IF c \in Pending /\ waited[c] < WaitCap
                  THEN waited[c] + 1 ELSE waited[c]]
  /\ UNCHANGED <<jobs, q_coalescing, q_sent, q_num, draining, sends, wedged,
                 asked, answer>>

-----------------------------------------------------------------------------

LoopJob == \/ \E c \in Callbacks, k \in Keys : JoinSent(c, k) \/ Enqueue(c, k)
           \/ RunSendJob

LoopTimer == CleanCache \/ \E t \in timers : FireTimer(t)

LoopReply(p) == \/ \E v \in [p.keys -> Values] : ReplyValues(p, v)
                \/ ReplyFailure(p)
                \/ ReplyThrows(p)

Next ==
  \/ \E c \in Callbacks, k \in Keys : LookupHit(c, k) \/ LookupMiss(c, k)
  \/ CallSendCoalesced
  \/ LoopJob
  \/ LoopTimer
  \/ \E p \in posts : LoopReply(p)
  \/ Tick

Spec == Init /\ [][Next]_vars

\* The loop thread keeps running its jobs and its timers, the client completes
\* every request (with its timeout if need be), and time goes on.
Fairness ==
  /\ WF_vars(LoopJob)
  /\ WF_vars(LoopTimer)
  /\ WF_vars(\E p \in posts : LoopReply(p))
  /\ WF_vars(Tick)

FairSpec == Spec /\ Fairness

-----------------------------------------------------------------------------
(* Properties *)

TypeOK ==
  /\ jobs \in Seq(LookupJob \cup {SendJob})
  /\ cache \in [Keys -> Item \cup {NoItem}]
  /\ cleanIn \in Int
  /\ q_coalescing \in [Keys -> SUBSET Callbacks]
  /\ q_sent \in [Keys -> SUBSET Callbacks]
  /\ q_num \in Int
  /\ timers \subseteq Timer
  /\ draining \in BOOLEAN
  /\ posts \subseteq Post
  /\ sends \in Nat
  /\ wedged \subseteq Keys
  /\ asked \subseteq Callbacks
  /\ waited \in [Callbacks -> Nat]
  /\ answer \in [Callbacks -> Answers]

\* Coalescing: a key is carried by at most one request in flight, a key that is
\* being collected for the next batch has none, and the keys registered in
\* q_sent are exactly those with a request (or with one whose handler threw).
OneRequestPerKey ==
  /\ \A p1, p2 \in posts : p1 # p2 => p1.keys \cap p2.keys = {}
  /\ QueuedIn(q_coalescing) \cap QueuedIn(q_sent) = {}
  /\ InFlight \cap wedged = {}
  /\ QueuedIn(q_sent) = InFlight \cup wedged

Places(c) == {<<"job", i>> : i \in {j \in DOMAIN jobs :
                               jobs[j].op = "lookup" /\ jobs[j].cb = c}}
             \cup {<<"coalescing", k>> : k \in {x \in Keys : c \in q_coalescing[x]}}
             \cup {<<"sent", k>> : k \in {x \in Keys : c \in q_sent[x]}}

\* No lookup is lost or registered twice on its way from the job queue through
\* q_coalescing and q_sent: a callback that is still to be called is held in
\* exactly one place, and one that was called (or never used) in none.
HeldOnce ==
  \A c \in Callbacks : Cardinality(Places(c)) = IF c \in Pending THEN 1 ELSE 0

\* lookup() does not look at the expiry of what it finds; what keeps it from
\* serving an old status for ever is that clean_cache() comes round.  Nothing
\* is in the cache, to be served, a clean interval past its expiry.
StalenessBound ==
  \A k \in Keys : cache[k] # NoItem => cache[k].left + CleanInterval + Slack > 0

Deadline == CoalesceTime + UpstreamTimeout + 3 * Slack

\* A callback is called within coalesce_time and the upstream timeout of its
\* lookup, whatever the limit, the stale timers and the upstream do, unless its
\* key was left behind by a response handler that threw.
AnsweredInTime ==
  \A c \in Pending :
    waited[c] <= Deadline \/ \E k \in wedged : c \in q_sent[k]

\* max_coalesce bounds every upstream request, and between two steps the queue
\* never holds a full batch, so what leaves always fits into one request.
BatchLimit ==
  /\ \A p \in posts : Cardinality(p.keys) \in 1..MaxCoalesce
  /\ Cardinality(QueuedIn(q_coalescing)) < MaxCoalesce
  /\ ~draining

\* A callback is called once: no later response, and no reuse of its key,
\* calls it again.
CalledOnce ==
  [][\A c \in Callbacks : answer[c] # "none" => answer'[c] = answer[c]]_vars

\* The lookups that are owed an answer nobody will give: the code wipes them
\* from its books only at exit.
Forsaken == {c \in Pending : \E k \in wedged : c \in q_sent[k]}

Service == INSTANCE LookupService WITH
  Results <- Answers \ {"none"}, NoResult <- "none", forsaken <- Forsaken

\* The queues, the batches and the timers together implement the service: one
\* answer each, none to a lookup that was forsaken, and all within Deadline.
ServicePromise == Service!Spec

\* Nothing is collected for ever: a lookup is answered, or left behind by a
\* response handler that threw.
EveryLookupSettled ==
  \A c \in Callbacks : c \in asked ~> answer[c] # "none" \/ c \in Forsaken

\* Every lookup is answered: "calls the callback when the result is available"
\* (coalcache.hpp:90).
EveryLookupAnswered ==
  \A c \in Callbacks : c \in asked ~> answer[c] # "none"

\* "If q_num has advanced then something already triggered the coalesced send,
\* and so the timer is stale" (coalcache.cpp:112): a timer whose batch is gone
\* sends nothing when it fires.
StaleTimerSendsNothing ==
  [][\A t \in timers : t \notin timers' /\ t.batch < sends /\ t.left <= 0
        => posts' = posts]_vars

\* "How long, in ms, we cache not-found signature-status results; 0 or negative
\* to never cache them" (main.cpp:188).
NotFoundNotCached ==
  NegativeCacheTime <= 0 =>
    \A k \in Keys : cache[k] # NoItem => cache[k].conf_status # "null"
=============================================================================
