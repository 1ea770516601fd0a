# coalcache in TLA+

coalcache is a caching reverse proxy for blockchain RPC providers. A
uWebSockets server takes POST requests on one thread. Everything that talks to
an upstream runs on another, the event loop of libquic with libcurl in it. This
directory holds TLA+ models of the server, the dispatch of requests, the caches
and the HTTP client, TLC configurations that check them on small instances, and
TLAPS proofs, for every value of the constants, of all the safety properties that
the passing runs check, refinements included. Paths below are relative to the
repository, `tla/` left aside.

## The system

| Component | Source | State | Operations |
|---|---|---|---|
| CoalCache | `src/coalcache.*` | `cache` (mutex), `q_coalescing`, `q_sent`, `q_num` (loop thread only), the clean-up ticker, one-shot timers | `lookup`, `send_coalesced`, the response handler, `clean_cache` |
| ReqCache | `src/reqcache.*` | `cache` of pending or done items, the clean-up ticker | `lookup`, the response handler, `clean_cache` |
| ProxyCache | `src/proxycache.*` | `cache` of entries (response, expiry, in_flight, callbacks), the cleaner | `fetch`, `on_response`, `clean` |
| Server | `src/server.*` | `req_data` per request (`res`, `_aborted`, body), uWS's deferred calls | `run` (accept, body chunks, abort), `send_response`, `send_json_response`, `stop` |
| handle_solana | `src/main.cpp` | the `collected` object of a getSignatureStatuses request, shared by its callbacks | one CoalCache lookup per signature, or one ReqCache lookup |
| main | `src/main.cpp` | options, routes, one CoalCache and one ReqCache per Solana route, one ProxyCache | construction, dispatch of a request by route and class, shutdown in reverse order |
| Client | `src/client.*` | libcurl's multi handle, one timer, `active_reqs` | `post`, socket and timer callbacks, `check_multi_info`, destructor |
| Routes | `src/routes.*` | a set of methods already warned about | `classify` and the ttl functions |
| Config | `src/config.*` | the route table | `parse_route`, `match` |
| Python tools | `tronwallet.py`, `tron-rpc-check.py` | none shared with the program | stand-alone scripts |

A request goes: uWS thread, body complete, `main`'s handler, `Config::match`,
then one of

* `handle_solana`, for getSignatureStatuses: `CoalCache::lookup` per signature.
  A hit calls the callback at once, on the uWS thread; a miss goes to the loop
  thread, which collects keys for `coalesce_time` or until there are
  `max_coalesce`, sends one request for them, and calls the callbacks when it
  is answered. The callbacks of one request therefore run on two threads.
* `handle_solana`, for other methods: `ReqCache::lookup`, entirely on the loop
  thread.
* `classify`, then `ProxyCache::fetch` (loop thread) or a plain `Client::post`.

A response produced on the loop thread goes back to the uWS thread by `defer`.
Between the two the client may abort, and then uWS frees the response object.

What is hard here: the hand-over between the threads (a key can change its state
between the look into the cache and the job on the loop); the several ways a batch
can leave, each of which leaves timers behind; response handlers that may fail
half way; shared requests, where one callback's fate decides the others'; an
abort racing a deferred response; relaxed atomics in `collected`; and expiry,
which no cache looks at when it serves a hit except ProxyCache; a routing table and a
caching policy whose mistakes show only in the answer that a later request gets;
and libcurl's callbacks, which may delete what the caller is about to use.
Nothing is persisted, so there is no crash recovery. `PROJECT.json` lists these hazards
one by one, at the line where each bites.

## Modules

| Module | Models | Role |
|---|---|---|
| `LookupService` | nothing in particular | the abstract promise of all three caches: one answer per lookup, within a deadline, or the lookup is declared forsaken |
| `CoalCache` | `src/coalcache.*` | both threads' halves of `lookup`, batching, timers, the response handler, clean-up, time |
| `MCCoalCache` | | model checking of the above |
| `Server` | `src/server.*` | body chunks, life of `res`, aborts, direct and deferred responses; `ServerSpec` is the server under any well-behaved handler |
| `SigStatuses`, `MCSigStatuses` | `src/main.cpp:64-116` | the callbacks of getSignatureStatuses, one shared access per step, EXTENDS `Server` and implements `ServerSpec` |
| `ReqCache`, `MCReqCache` | `src/reqcache.*` | request cache, with the callbacks of `handle_solana` that may throw |
| `ProxyCache`, `MCProxyCache` | `src/proxycache.*` | fetch, join, refresh, stale answers, clean-up |
| `Routes` | `src/routes.*` | the caching policy: `classify` and the ttl functions, as operators |
| `Config` | `src/config.*` | the route table: `parse_route` and `match`, as operators |
| `Dispatch`, `MCDispatch` | `src/main.cpp` | start-up, and every way of a request through the program; EXTENDS `SigStatuses` (hence `Server`) and `Config` (hence `Routes`), and implements `ServerSpec` |
| `Client`, `MCClient` | `src/client.*` | `post`, the callbacks of libcurl and libevent, `check_multi_info`; implements `LookupService` |
| `ServerProofs` | | theorems about `ServerSpec` |
| `CoalCacheProofs`, `SigStatusesProofs`, `ReqCacheProofs`, `ProxyCacheProofs`, `ClientProofs`, `DispatchProofs` | | theorems about the module of that name; `SigStatusesProofs` and `DispatchProofs` EXTEND `ServerProofs` |
| `CommonLemmas` | | lemmas that several of these cite: the least of a set of numbers, the callbacks in a queue of jobs |

### How the models correspond to the code

**Threads.** A step is what one thread does without giving the other a chance
to interfere. On the loop thread that is a whole job, timer or response handler,
because nothing else runs there meanwhile. On the uWS thread `CoalCache::lookup`
is one step: it takes the lock once and then posts a job. In `SigStatuses`,
where two threads share an object, a step is one access to that object.

**Jobs.** `loop.call` from another thread appends to `jobs`, a FIFO; on the loop
thread it runs at once, as does the `loop.call` inside `Client::post` and the
one inside CoalCache's handler.

**The send.** `send_coalesced` calls itself until the queue is empty, all in one
job. `Batchings(q)` is the set of ways that the recursion may cut the queue into
batches (the map's order is arbitrary), `SendCoalesced(q)` sends them all. With
`max_coalesce` 0 a batch takes no key and the recursion has no end: `draining`
becomes TRUE and the loop thread takes no further step.

**Time.** A point in time is kept as the time left until it. `Tick` lets one
unit pass, and is disabled while the loop thread is more than `Slack` late with
a job, timer or response. All bounds are stated in terms of `Slack`, so that a
punctual loop (`Slack = 0`) is one instance and a busy one another. Requests
carry the client's timeout; a reply may come at any time up to it.

**Failures.** A handler is given the status that libcurl has, whatever became of
the transfer (`src/client.cpp:203`). One that fails or times out before the header
of its reply is read comes as status 0. After that it comes with the status of the
header and as much of the body as there was: in `Client` the outcome `"cut"`, which is
neither a `"reply"` nor `"failed"`. What such a body is to the handlers follows from
what they do with it. CoalCache and ReqCache parse it, and take a 2xx status with a
body that does not parse for a failure. ProxyCache passes it on and caches it if the
ttl function says so: in `Dispatch` it is a reply that is no JSON, and in `ProxyCache`
one with whatever ttl.

**Data.** A signature, a request body or a response is a model value; statuses
are reduced to what `load()` and the cache times tell apart (null, found,
malformed). In `ProxyCache` the ttl function of a request returns any member of
`Ttls`, and `latest` records whether no newer answer was passed on since. In
`Routes`, `Config` and `Dispatch` a path or URL is a sequence of pieces ("/" or
part of a name), so that boundaries and seams can be told, and a body is a record
of what the code reads of it: whether it parses, the method, the first parameter
and the id. A reply is data, missing (null or empty), an error, or no JSON.

**Composition.** `Dispatch` has the server and the getSignatureStatuses handler
in full, step by step. The other parts it takes by what their modules show: a
ReqCache lookup or a post is answered once, on the loop thread, one callback
per step; and of ProxyCache it keeps the entries, who made them and who waits,
while the clock is replaced by `Expire` and `Clean`, which may come at any time.
CoalCache may answer a queued callback at any time or never, and a ReqCache lookup
may end without an answer, or with the process. When either posts is left open too
(`PostSignatures`, `PostLookup`): a request that joined another one's has no post of its own.
`CoalCache`, `ReqCache` and `ProxyCache` in turn take a post to be answered
within `UpstreamTimeout + Slack`. They post from the loop thread, where there is
no job to wait for, and `Client` then answers within `UpstreamTimeout` and two
delays of its own (`AnsweredInTime`, proved as `ClientAnsweredInTime`): the caches'
`Slack` of a reply stands for both. A post from the uWS thread (`main`'s pass-through)
waits for its job first, which makes three.

**libcurl.** `Client` has the code's callbacks and, marked external in the map,
what libcurl and libevent do between them: a transfer starts, goes on or ends
when libcurl is told of its socket or of the time; libcurl then asks for sockets
to be watched and for a time to be called again. `active` are the events that
libevent found due in one turn of the loop, each of which runs later, after other
callbacks may have deleted its context. A connection may fail at once, be new or
kept; a reply may come in one piece, or its header first. A socket carries one
transfer at a time (no HTTP/2 multiplexing).

**Replies.** CoalCache's handler has three outcomes: values for all keys (each
of which may fail to load), a failure of the whole (nullptr for everyone), and
an exception at `resp[i]`, outside the try block, when a 2xx body was rejected
after `resp` had been assigned an object. `Client::check_multi_info` swallows that
exception. `wedged` records the keys concerned. In ReqCache the exception is
that of a callback, at `result["id"] = id`. Thrown from the response handler it
leaves the other callbacks uncalled (`lost`); thrown on a hit it leaves a job of the
loop, where nothing in `src/` catches it, and the process ends (`down`; in `Dispatch`,
`proc = "crashed"`).

**History variables** (`asked`, `waited`, `answer`, `sends`, `wedged`, `lost`,
`spared`, `latest`, `sent`, `posted`, `unseen`, `misused`, `lateJob`, `timely`) record what happened; no step of the code is
conditioned on one, except that a callback is used for one lookup only, and
that time stops while what `unseen` counts is overdue.

## Runs

| Run | Expect | What it asks |
|---|---|---|
| `coalcache_orders` | pass | three lookups of two keys, all replies, sends by hand, punctual loop: types, coalescing (`OneRequestPerKey`), no callback lost, doubled or called again (`HeldOnce`, `CalledOnce`), `BatchLimit` |
| `coalcache_late` | pass | two lookups, loop up to one unit late, fair: `StalenessBound`, the refinement `ServicePromise` (with it the waiting time), `EveryLookupSettled` |
| `coalcache_rpc_error` | violation | a JSON-RPC error leaves lookups without an answer |
| `coalcache_disabled` | violation | `--sigstat-coalesce 0` answers nothing |
| `coalcache_stale_timer` | violation | `q_num` never advances, so a stale timer sends the next batch early |
| `coalcache_not_found` | violation | the positive and negative cache times are swapped |
| `sigstatuses` | pass | requests for two signatures, one and none, and a CoalCache that may forsake a callback: `OneWholeResponse`, `NoValueRace`, `ResUsedWhileLive`, `KeepsServerRule` (refinement), `EveryRequestAnswered`, `ResponseArrives` |
| `reqcache` | pass | three lookups of two keys, all replies, loop up to one unit late: `OneRequestPerKey`, `HeldOnce`, `StalenessBound`, `ServicePromise`, `EveryLookupSettled` |
| `proxycache` | pass | three fetches of two keys, all outcomes: `OneRequestPerKey`, `HeldOnce`, `IdleEntriesGo`, `HitsAreLatest`, `ServicePromise`, `EveryFetchAnswered` |
| `client` | pass | two posts, loop up to one unit late, upstreams that do anything: `ContextUsedWhileLive`, `AnsweredInTime`, `TimelyReplyKept`, `ServicePromise`, `EveryPostAnswered` |
| `dispatch` | pass | two requests of any of fourteen kinds: `ForwardedRight`, `RightAnswer`, `KeptByPolicy`, `KeepsServerRule` (refinement), `EveryRequestSettled` |
| `dispatch_kept` | violation | null results and errors are kept for hours as immutable data |

The violations are properties that a comment, an option's help text or a header
states and that the code does not keep; `PROJECT.json` quotes each under
"findings". Other deviations, which the models show and no run is spent on:

* An empty list of signatures makes no callback, and the request is never
  answered (`src/main.cpp:80`). The runs have such a request, and
  `EveryRequestAnswered` and `EveryRequestSettled` exempt it openly.
* What `coalcache_rpc_error` shows of CoalCache keeps the HTTP request waiting, too:
  the two properties promise a response only if CoalCache calls back.
* A 2xx body that is JSON but no object makes the first callback of ReqCache
  throw at `result["id"] = id`; it and the others are never called
  (`src/reqcache.cpp:107`). The result stays cached, and the next lookup of it throws in
  its own job (`src/reqcache.cpp:47`), which ends the process. `EveryLookupSettled` says
  that nothing else loses a callback.
* A transfer that times out or breaks off in its body reaches the handlers as, say, a
  200 with a truncated body (`src/client.cpp:203`), while a comment says of timeouts
  that "CURLINFO_RESPONSE_CODE is 0 for these" (`src/client.cpp:183`). With
  `const_ttl` such a body is cached for hours. `TimelyReplyKept` says which replies are whole.
* The headers of a Solana route are not sent. Its caches post to the bare upstream with
  an empty list of headers (`src/reqcache.cpp:60`, `src/coalcache.cpp:161`), although
  the route's requests are "optionally sent with extra `headers` (e.g. provider auth)"
  (`src/config.hpp:14`). `ForwardedRight` says what is sent where.
* blake2b takes keys of up to 64 bytes and `ProxyCache::hash` ignores its result:
  all cacheable requests with a longer path share the all-zero hash, hence one
  entry, although "different methods/paths never collide"
  (`src/proxycache.hpp:61`). `RightAnswer` excepts two such paths, and no others.
* A stale answer may be older than one already given out, and may be about the
  chain head (`src/proxycache.cpp:187`), where a comment calls stale values still
  correct. `HitsAreLatest` says that a hit at least is not.
* ProxyCache replays a JSON-RPC body with the id of the request that fetched it.
* A route prefix that ends in "/", the catch-all "/" among them, loses the slash
  between upstream and path (`ForwardedRight` exempts it, and the run has such a
  route), and `src/config.hpp:13` says "with the matched prefix preserved", which it is not.
* uWS's `getUrl` leaves out the query, so it is neither forwarded nor in the key.
* `--upstream-timeout 0` is no timeout at all.
* `active_reqs` of the client is never filled, so that `~Client` frees nothing. It
  runs only when the server could not start; nothing is in flight then.
* "an entry lives at most ttl + stale_grace past its last refresh"
  (`src/proxycache.hpp:51`) ignores entries in flight, which `clean()` spares.
  `IdleEntriesGo` states what does hold: only an entry that had a request in
  flight each time `clean()` ran outlives that bound.

### Bounds, and why they are enough

* Two keys: one that shares a batch or a request with the other, or overtakes
  it. With `MaxCoalesce = 2` the second fills the batch. `coalcache_stale_timer`
  has three keys, so that a batch can form behind a full one.
* Three lookups (each used once): one that starts a request, one that joins it,
  and one that comes after it (a hit, a refresh, or a new batch while an old
  timer is pending). `coalcache_late` has two, because lateness multiplies its states.
* `CoalesceTime`, the cache times, `CleanInterval` and `UpstreamTimeout` of one or
  two units: their order matters, not their size, and `Slack` 0 or 1 puts every
  pair of them in both orders.
* `WaitCap` saturates the count of waiting time. It exceeds `Deadline` in every
  run that checks a bound on it, so the bound is not met by saturation.
* `ByHand` allows one `send_coalesced()` job in the queue at a time.
* `LastAge` in `ProxyCache` stops counting the age of a response that is older
  than any comparison of the code can tell.
* Symmetry (of keys and of callbacks) is used only by runs without liveness
  properties. `CalledOnce` is an action property and symmetric.
* `MaxChunks` bounds the chunks of a body: 2, in `sigstatuses`, lets an abort come
  between them; `dispatch` has 1.
* `sigstatuses` has three requests: for two signatures (the least that can race), for
  one, and for none, which nobody answers.
* Two requests in `dispatch`: two that collide, join, or find what the other left,
  of every pair of kinds. A joiner that gets a stale answer needs three, which
  `proxycache` has. A list of signatures has one or none there, as `sigstatuses` has two.
  The statuses are 200 and 0 (no response); the routes are nested, one of their
  prefixes and two of their upstreams end in "/", and one path is on no boundary.
  The constraint `InOrder` leaves out one of two behaviours that differ in the names
  of the requests alone, as `FirstIsP1` does in `client`.
* `MaxDomain` stands for blake2b's 64 bytes. In `dispatch` it is 4 pieces, and there are
  two wallet paths within it and two beyond.
* `client` has `UpstreamTimeout` 2, so that a reply can be complete with time to
  spare; `WaitCap` 6 is above its `Deadline` of 5.
* Two posts and two sockets in `client`: two that end in one call of libcurl, or
  one whose end makes the other's event void, or one that uses the other's
  socket again.

Deadlock is checked in every run but `coalcache_disabled`, where the endless
recursion really stops the process.

### Fairness

`FairSpec` asks that the loop thread goes on running its jobs, its timers and
the responses (weak fairness of each: libquic's loop runs what is ready), that
the client completes every request (libcurl's `CURLOPT_TIMEOUT_MS` does so even
when the upstream is silent), and that time goes on. In `SigStatuses` it asks
that both threads go on with the callback they are in and that uWS runs what was
deferred; in `Dispatch` that both threads go on with what they have begun, and that
every ReqCache lookup comes back (with an answer, or lost or fatal for an exception) and
every post does. Nothing is asked of CoalCache in either: that it calls back is a condition
of the two properties (`CoalCacheAnswers`), as its handler may throw. In `Client` nothing is asked of upstreams: the timer alone
must do. No fairness is asked of clients (new requests, aborts) or of the upstream's kind of reply.

`EveryLookupSettled` is what remains true of the documented
`EveryLookupAnswered` when a response handler may throw: a lookup is answered,
or it is one of those that the exception left behind.

## Proofs

Every invariant and every action property or refinement that a passing run checks
is also a theorem, for every value of the constants. A theorem rests on the named
assumptions of its module (sets that are disjoint, times and bounds that are
numbers, values such as `NoItem` that are none of the others) and, where the tables
say so, on a condition.

### CoalCache

`CoalCacheProofs` proves, for every set of lookups, finite set of keys, and all
times and limits:

| Theorem | States | Needs |
|---|---|---|
| `TypeCorrect` | `TypeOK` | |
| `StalenessBounded` | `StalenessBound` | |
| `Coalesces` | `OneRequestPerKey` | |
| `NeverCalledTwice` | `CalledOnce` | |
| `CallbacksHeldOnce` | `HeldOnce` | |
| `LimitKept` | `BatchLimit` | `MaxCoalesce > 0` |
| `AnsweredWithinDeadline` | `AnsweredInTime` | `MaxCoalesce > 0` |
| `ImplementsService` | `ServicePromise` | `MaxCoalesce > 0`, `WaitCap > Deadline` |

They rest on `CoalCacheAssumption` alone. The two conditions are necessary:
`coalcache_disabled` shows what a limit of 0 does, and a `WaitCap` at or below
`Deadline` would freeze the count before the bound.

The argument. Type correctness is inductive as it stands, and so is
`OneRequestPerKey`. The others need strengthening:

* `CleanInv`: an item's age past its expiry never exceeds the time since the
  last clean-up. `cleanIn > -Slack` is what lets time pass, hence
  `StalenessBound`. An item found expired by the clean-up goes, and a new one has
  a positive time left.
* `HeldInv`: a pending callback is in the job queue or in one of the two maps
  (`Holds`), jobs carry different callbacks (`JobsDistinct`), and no callback is
  under two keys or in both maps (`Exclusive`). `HeldOnce` is its restatement
  in terms of cardinality; `CalledOnce` follows because only held callbacks are
  called.
* `BatchLimit` is inductive with `TypeOK`: a lookup adds one key at most, and a
  full queue leaves in the same step. `OneBatch` shows that what leaves is then
  one batch.
* `DueInv`: a callback in a job has waited no longer than `Slack`; one in
  `q_coalescing` has a pending timer whose remaining time and its own waiting
  time add up to `Slack + CoalesceTime` at most (`QueueDue`; as `q_num` never
  changes any pending timer will do, also one of an earlier batch, which is why
  stale timers make a batch early and never late); one in `q_sent` is covered by
  a request in the same way (`SentDue`).
  With `BatchLimit` no key is left behind by a send. `AnsweredInTime` follows
  from `DueInv` and the guard of `Tick`.
* The refinement maps `forsaken` to the pending callbacks under a wedged key.
  Every step is `Ask`, `Answer`, `Forsake`, `Tick` or a stutter of
  `LookupService`; that `Tick` maps to `Tick` is where `AnsweredInTime` is used. No run
  checks `AnsweredInTime` of its own, since `ServicePromise` implies it.

### Server and its handlers

`ServerProofs` proves `ServerTypeCorrect` and `NeverUsedAfterFree`
(`ResUsedWhileLive`) of `ServerSpec`, for any requests, messages and bound on the
chunks (`ServerAssumption`). A direct or deferred write is safe if `_aborted` is
set for exactly the freed objects (`AbortsKnown`), and if what is written to has
not ended: true of a request that waits for its response (`WaitingNotEnded`)
and of each deferred one (`DeferredNotEnded`), and it stays true because no
request is deferred twice (`DeferredOnce`).

That a handler keeps to one response per request is proved of the two that there
are. `ServerSpec` has the variables of the server alone, so no mapping is needed:
each step of the handler is shown to be one of the server's or a stutter, and the
only thing to show is that what is sent goes to a request that was handled and has
no response yet. `ResUsedWhileLive` of the handlers then follows from
`NeverUsedAfterFree` instead of from a proof of its own.

| Theorem of `SigStatusesProofs` | States |
|---|---|
| `SigTypeCorrect` | `TypeOK` |
| `AtMostOneWholeResponse` | `OneWholeResponse` |
| `ValuesNeverRace` | `NoValueRace` |
| `SigHandlerKeepsRule` | `KeepsServerRule` |
| `SigResponsesSafe` | `ResUsedWhileLive` |

They hold for any number of requests and of signatures of each. None of the invariants is
inductive alone; `SigInv` adds what the atomics of `collected` are for:

* `Apart`: the lookup of a signature has not begun, or its callback is queued, or
  one thread runs it, or it is over. A signature is in one of these only, so that
  no callback stores or counts twice.
* `Stored` and `CountInv`: `remaining` is `NumKeys` less the values that are stored
  and counted. A value is counted after it is stored, and the decrement is atomic;
  hence whoever counts down to 0 finds all values there.
* `LastInv`: one thread at most is past the last count of a request. With `Stored`
  this gives `NoValueRace`: no callback that has yet to store is left.
* `ClaimInv`: only who has claimed a request sends. The relaxed load may miss a
  claim (`seen` has no part in the invariant); the exchange cannot.

| Theorem of `DispatchProofs` | States |
|---|---|
| `DispatchTypeCorrect` | `DispatchTypeOK` |
| `DispatchKeepsRule` | `KeepsServerRule` |
| `DispatchResponsesSafe` | `ResUsedWhileLive` |
| `PostsGoRight` | `ForwardedRight` |
| `AnswersAreRight` | `RightAnswer` |
| `CacheKeepsPolicy` | `KeptByPolicy` |

They hold for any options, requests, statuses, signatures and `MaxDomain`.
The parts of `DispatchInv`:

* `OwnInv`: exactly one of the callbacks of a getSignatureStatuses, the handler on the
  uWS thread, a task on the loop thread and a callback that is due owes a
  request its response, and only while it has none (or, of the first, until the
  claim). Where two paths of the code might both respond, this is what fails.
* `BuildInv`: who builds the response of a getSignatureStatuses won its claim, alone.
* `RoutesInv`: when the server listens the routes are those of the options, all of
  them valid, and no request arrives before.
* `WaitInv`: what is posted for a request is what its own route says, by the kind of
  the route: `PostOf` on a proxied one, and `SolanaPostOf` on a Solana route, to which
  the request must belong that has signatures or a lookup under way.
  `PostsGoRight` then is about `match` and `fwd_url` alone: `MatchesIsOn`, `MatchIsBest`
  and `TrimmedAt` show, of any table of routes, that `match` finds the longest prefix
  on a boundary, and that trimming an upstream takes its last slashes and no more;
  `SeamHasSlash`, that a path goes on with a slash behind a prefix on a boundary.
* `EntriesInv`: an entry is a 2xx answer to a cacheable request, under its key,
  alone, with the ttl that the policy gives to it. `CacheKeepsPolicy` follows.
* `AnswersInv`: an answer that is sent or due was made for the request or for one
  that shares its key. A shared key is the same path and the same body but for the
  id, or else the all-zero hash of two paths too long; a volatile method has none.

### ReqCache and ProxyCache

| Theorem of `ReqCacheProofs` | States | Needs |
|---|---|---|
| `ReqTypeCorrect` | `TypeOK` | |
| `ReqOneRequest` | `OneRequestPerKey` | |
| `ReqHeldOnce` | `HeldOnce` | |
| `ReqStalenessBounded` | `StalenessBound` | `CacheExpiry >= 0` |
| `ReqImplementsService` | `ServicePromise` | |

| Theorem of `ProxyCacheProofs` | States |
|---|---|
| `ProxyTypeCorrect` | `TypeOK` |
| `ProxyOneRequest` | `OneRequestPerKey` |
| `ProxyHeldOnce` | `HeldOnce` |
| `ProxyIdleEntriesGo` | `IdleEntriesGo` |
| `ProxyHitsLatest` | `HitsAreLatest` |
| `ProxyImplementsService` | `ServicePromise` |

They hold for any keys, lookups, times, ttls and replies. The condition is
not idle: nothing rejects a negative `--cache-time` (`src/main.cpp:182`), and with one
that is low enough an item is past the bound when it is stored.

* `HeldInv`, as in CoalCache: a callback that was asked and neither answered nor lost
  is in one job or waits under one key.
* `KeysInv` of ReqCache: a pending entry has sent its request.
* `CleanInv` and `IdleInv`: what is done (in ProxyCache: what no request has spared)
  is no older than the last clean-up allows, and `cleanIn >= -Slack`.
* `FreshInv`: a response that is being refreshed, or is no longer the latest, has
  expired, and expired responses are no hits. Hence `HitsAreLatest`.
* `DueInv`: a callback in a job has waited no longer than `Slack`; one that waits
  for a request adds up with the time left of that request to `Slack +
  UpstreamTimeout` at most. This shows that `Tick` maps to the `Tick` of
  `LookupService`, which stops at the deadline. The exception in a callback of
  ReqCache maps to `Forsake`; in ProxyCache nobody is ever forsaken.

### Client

| Theorem of `ClientProofs` | States |
|---|---|
| `ContextNeverStale` | `ContextUsedWhileLive` |
| `ClientTypeCorrect` | `TypeOK` |
| `ClientAnsweredInTime` | `AnsweredInTime` |
| `ClientReplyKept` | `TimelyReplyKept` |
| `ClientImplementsService` | `ServicePromise` |

They hold for any posts, sockets, times and upstreams.

* `CtxInv`: each event that is due has its context (`ActiveHaveContext`): libevent
  wakes only sockets that are watched, and every call of libcurl that deletes
  contexts deletes their events with them.
* `messages = {}` and `OnceInv`: `check_multi_info` reads all there is before the turn
  of the loop is over, so a transfer is over exactly when its handler was called.
* `SocketsInv` and `WireInv`: each transfer under way has a socket of its own, watched
  for what it needs next. A reply that is there is thus an event that the loop
  gets to within `Slack`.
* `TimelyInv`: of a reply that was complete with more than `Slack` left, the time left
  and the time it has gone unread add up to more than `Slack`. Unread for `Slack` at most,
  the transfer is not over when libcurl is told of its socket, whoever else's event or
  timer comes first: hence `TimelyReplyKept`.
* `TimerInv`: while a transfer is under way the one timer is set, and to no later
  than the first of their ends. That libcurl asks for the least of the times
  left is where `LeastExists` of `CommonLemmas` is needed.
* `DueInv` adds up waiting time and time left as above. The timer's start of the transfer
  and its end may each be `Slack` late, and so may the job of a post from another
  thread, which `lateJob` records: hence two delays or three in `AnsweredInTime`.

### What only TLC checks

* All liveness: `EveryLookupSettled`, `EveryFetchAnswered`, `EveryPostAnswered`,
  `EveryRequestAnswered`, `ResponseArrives` and `EveryRequestSettled`. They need fairness and
  ENABLED, which are beyond the prover. The refinements of `LookupService` are of its
  safety: one answer each, none after the deadline.
* The violations: a counterexample is a behaviour, and TLC's to find.
* That the parts which `Dispatch` takes by what their modules show (see Composition)
  are those modules: no run or theorem puts them together.

## Not modelled

* The parsing and building of JSON, HTTP headers and remote addresses, logging,
  the warnings about unknown methods, CLI11's parsing of options.
* `Server::stop`, which nothing calls, and the order of destruction in `main`,
  which only a failed start reaches.
* What libcurl does inside: connection pool, HTTP/2 multiplexing, DNS, TLS, redirects.
* That `curl_perform_c` does not touch its context after the call that may delete it
  (`src/client.cpp:93`): what follows uses the client alone, which was read before.
  Other events of the same turn, which may have lost their context, are modelled.
* The Python tools: they are not part of the running program.

## Plan

Done: every component of the program is modelled and checked, and every safety
property of a passing run is proved of its module.

Next: a proof that ties `Dispatch` to `ProxyCache` (that the entries and waiting
requests of the one are those of the other with its clock left out), and common
lemmas for what the proofs of the three caches still say each on its own (`HeldInv`,
`DueInv`).
