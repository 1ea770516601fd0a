------------------------------ MODULE Dispatch ------------------------------
(***************************************************************************)
(* main() (main.cpp): start-up, and what becomes of a request, by route    *)
(* and by classification.  This composes the server and the handler of     *)
(* getSignatureStatuses with the route table and the caching policy.       *)
(*                                                                         *)
(* CoalCache, ReqCache and the client are taken by what their own modules  *)
(* show of them: a lookup or a post is answered once, on the loop thread,  *)
(* one callback per step, or a lookup is forsaken for an exception.  Of    *)
(* ProxyCache this keeps what it holds and who gets it, not its clock: an  *)
(* entry may expire and be cleaned at any time.                            *)
(***************************************************************************)
EXTENDS SigStatuses, Config
LOCAL INSTANCE SequencesExt

CONSTANTS
  RouteSpecs,   \* the --route options, a sequence of specs
  Incoming,     \* the requests that clients may make
  Statuses,     \* the HTTP statuses of upstreams; 0: no response
  MaxDomain     \* the longest key that blake2b takes: 64 bytes, here pieces

ok(status) == status \in 200..299

\* A request: its path, whether its content type is application/json, its
\* body, whether that is a JSON-RPC 2.0 request, and whether a list of
\* strings is its first parameter.
IncomingType == [path : Seq(STRING), json_type : BOOLEAN, body : Bodies,
                 rpc : BOOLEAN, list : BOOLEAN]

Text(status) == [status |-> status]
\* A JSON-RPC result under the given id.
Result(id) == [status |-> 200, id |-> id]
\* The response that an upstream gave to request r.
Relayed(status, r) == [status |-> status, of |-> r]

\* http_status_line()
StatusLine(status) == IF status \in 200..599 THEN status ELSE 502

ASSUME DispatchAssumption ==
  /\ Incoming \subseteq IncomingType
  /\ Statuses \subseteq Nat
  /\ MaxDomain \in Nat
  /\ {Text(s) : s \in {400, 404, 500, 502}} \subseteq Messages
  /\ {Result(m.body.id) : m \in Incoming} \subseteq Messages
  /\ {Relayed(StatusLine(s), r) : s \in Statuses, r \in Requests} \subseteq Messages

\* The --route options; their values are paths, URLs and strings.
Specs == {RouteSpecs[i] : i \in DOMAIN RouteSpecs}
ASSUME RouteSpecsAssumption ==
  /\ RouteSpecs \in Seq(Specs)
  /\ \A spec \in Specs :
       /\ \A key \in {"prefix", "upstream"} : Given(spec, key) \in Seq(Seq(STRING))
       /\ \A key \in {"kind", "header"} : Given(spec, key) \in Seq(STRING)

VARIABLES
  proc,     \* the process: "starting", "serving", "exited" or "crashed"
  routes,   \* config.routes
  what,     \* what each request is
  waiting,  \* what a request waits for on the loop thread: "job" (a fetch),
            \* "post" (its upstream), "join" (that of another request) or
            \* "lookup" (ReqCache)
  entries,  \* ProxyCache: the entries with a response
  calls,    \* the callbacks that a response on the loop is still to make
  posted,   \* history: what was posted for a request, its URL and the headers
            \* of its own (libcurl's and the content type are left out)
  lost      \* history: requests whose ReqCache callback was dropped

dispatch_vars == <<proc, routes, what, waiting, entries, calls, posted, lost>>
all_vars == <<vars, dispatch_vars>>

Nothing == [path |-> <<>>]
NotPosted == <<>>
DispatchInit ==
  /\ Init
  /\ proc = "starting"
  /\ routes = <<>>
  /\ what = [r \in Requests |-> Nothing]
  /\ waiting = [r \in Requests |-> "none"]
  /\ entries = {}
  /\ calls = {}
  /\ posted = [r \in Requests |-> NotPosted]
  /\ lost = {}

-----------------------------------------------------------------------------
(* Start-up. *)

Options == <<proc, routes>>
Fetching == <<waiting, entries, calls, posted, lost>>

\* The options are parsed and the server listens.
Start ==
  /\ proc = "starting"
  /\ RouteSpecs # <<>>
  /\ \A i \in DOMAIN RouteSpecs : ValidSpec(RouteSpecs[i])
  /\ routes' = [i \in DOMAIN RouteSpecs |-> parse_route(RouteSpecs[i])]
  /\ proc' = "serving"
  /\ UNCHANGED <<vars, what, Fetching>>

\* There is no route, or a spec is not valid, or the port cannot be bound.  In
\* the last case ~Server and ~Client run, with nothing to stop or to free.
Exit ==
  /\ proc = "starting"
  /\ proc' = "exited"
  /\ UNCHANGED <<vars, routes, what, Fetching>>

-----------------------------------------------------------------------------
(* The uWS thread. *)

RouteOf(r) == match(routes, what[r].path)

\* The headers of r are in.
Arrive(r, m) ==
  /\ proc = "serving"
  /\ At("uws", "idle")
  /\ Accept(r)
  /\ what' = [what EXCEPT ![r] = m]
  /\ UNCHANGED <<pc, frame, queued, collected, Options, Fetching>>

\* What the server does for requests that it knows.
Serve(r) ==
  /\ res[r] # "none"
  /\ UwsEvent(r) \/ Handle(r, "handler")
  /\ UNCHANGED dispatch_vars

\* The handler of the server is about to look at request r.
InHandler(r) == At("uws", "handler") /\ frame["uws"].req = r

\* Mutant: no return after the response.
RefuseAndGoOn(r, status) ==
  /\ SendResponse("uws", r, Text(status))
  /\ UNCHANGED <<pc, frame, queued, collected, dispatch_vars>>
\* The handler answers r itself.
Refuse(r, status) ==
  /\ SendResponse("uws", r, Text(status))
  /\ Goto("uws", "idle")
  /\ UNCHANGED <<frame, queued, collected, dispatch_vars>>

NoRoute(r) == InHandler(r) /\ RouteOf(r) = 0 /\ Refuse(r, 404)

ForSolana(r) ==
  InHandler(r) /\ RouteOf(r) # 0 /\ routes[RouteOf(r)].kind = "solana"

\* handle_solana() on the wrong content type or on a malformed request.
Malformed(r) ==
  /\ ForSolana(r)
  /\ ~what[r].json_type \/ ~what[r].rpc
  /\ Refuse(r, 400)

IsSigStatuses(r) == what[r].body.method = "getSignatureStatuses"

\* params[0] is no list of strings: an exception before the first lookup.
BadParams(r) ==
  /\ ForSolana(r)
  /\ what[r].json_type /\ what[r].rpc
  /\ IsSigStatuses(r) /\ ~what[r].list
  /\ Refuse(r, 500)

\* getSignatureStatuses: the loop over the signatures begins (SigStatuses).
LookUpSignatures(r) ==
  /\ ForSolana(r)
  /\ what[r].json_type /\ what[r].rpc
  /\ IsSigStatuses(r) /\ what[r].list
  /\ Goto("uws", "lookup")
  /\ UNCHANGED <<server_vars, frame, queued, collected, dispatch_vars>>

\* The handler leaves r to the loop thread.
HandOver(r, task) ==
  /\ waiting' = [waiting EXCEPT ![r] = task]
  /\ Goto("uws", "idle")
  /\ UNCHANGED <<server_vars, frame, queued, collected, Options, what, entries,
                 calls, lost>>

LookUpRequest(r) ==
  /\ ForSolana(r)
  /\ what[r].json_type /\ what[r].rpc
  /\ ~IsSigStatuses(r)
  /\ HandOver(r, "lookup")
  /\ UNCHANGED posted

\* Mutant: the prefix is kept.
KeepsPrefix(route, path) == route.upstream \o path
fwd_url(route, path) ==
  route.upstream \o SubSeq(path, Len(route.prefix) + 1, Len(path))

\* What is posted upstream for r, on a proxied route and on a Solana route, whose
\* caches know no more of it than the URL.
PostOf(r) ==
  LET route == routes[RouteOf(r)]
  IN  <<fwd_url(route, what[r].path), route.headers>>
SolanaPostOf(r) == <<routes[RouteOf(r)].upstream, <<>>>>

Proxied(r) ==
  InHandler(r) /\ RouteOf(r) # 0 /\ routes[RouteOf(r)].kind # "solana"

DispositionOf(r) ==
  classify(routes[RouteOf(r)].kind, what[r].path, what[r].body)

\* Not cacheable: the request goes upstream as it is.
Forward(r) ==
  /\ Proxied(r)
  /\ ~DispositionOf(r).cacheable
  /\ HandOver(r, "post")
  /\ posted' = [posted EXCEPT ![r] = PostOf(r)]

Fetch(r) ==
  /\ Proxied(r)
  /\ DispositionOf(r).cacheable
  /\ HandOver(r, "job")
  /\ UNCHANGED posted

Handler(r) == \/ NoRoute(r) \/ Malformed(r) \/ BadParams(r) \/ LookUpSignatures(r)
              \/ LookUpRequest(r) \/ Forward(r) \/ Fetch(r)

-----------------------------------------------------------------------------
(* The loop thread: the answers to what the handler left to it. *)

LoopTurn(r, task) == At("loop", "idle") /\ waiting[r] = task

Posts(r, post) ==
  /\ posted[r] = NotPosted
  /\ posted' = [posted EXCEPT ![r] = post]
  /\ UNCHANGED <<vars, Options, what, waiting, entries, calls, lost>>

\* CoalCache sends a batch with signatures of r.
PostSignatures(r) ==
  /\ At("loop", "idle")
  /\ \E i \in Index(r) : <<r, i>> \in queued
  /\ Posts(r, SolanaPostOf(r))

\* ReqCache finds neither a response nor another request to wait for.
PostLookup(r) == LoopTurn(r, "lookup") /\ Posts(r, SolanaPostOf(r))

\* The callback of r alone is called, with m.
Done(r, m) ==
  /\ SendResponse("loop", r, m)
  /\ waiting' = [waiting EXCEPT ![r] = "none"]
  /\ UNCHANGED <<pc, frame, queued, collected, Options, what, entries, calls,
                 posted, lost>>

\* result["id"] = id
OwnId(r) == what[r].body.id

\* ReqCache calls back with a result, or with nullptr.
LookupDone(r) ==
  /\ LoopTurn(r, "lookup")
  /\ \E m \in {Result(OwnId(r)), Text(502)} : Done(r, m)

\* The result is no object: the callback throws, and ReqCache forgets it.
LookupLost(r) ==
  /\ LoopTurn(r, "lookup")
  /\ lost' = lost \cup {r}
  /\ waiting' = [waiting EXCEPT ![r] = "none"]
  /\ UNCHANGED <<vars, Options, what, entries, calls, posted>>

\* The result, which ReqCache kept, was no object for an earlier request either:
\* the callback throws in a job of the loop, where nothing catches it.
LookupCrash(r) ==
  /\ LoopTurn(r, "lookup")
  /\ \E q \in lost : RouteOf(q) = RouteOf(r) /\ deid(what[q].body) = deid(what[r].body)
  /\ proc' = "crashed"
  /\ UNCHANGED <<vars, routes, what, Fetching>>

\* Mutant: the key is the body alone.
NoDomain(r) == <<>>
\* The cache-key domain: the full path.
KeyDomain(r) == what[r].path

\* ProxyCache::hash().  blake2b takes the domain as its key.  It refuses one
\* that is too long, which nobody asks about, and leaves the hash all zero.
ZeroHash == "zero"
hash(key_body, key_domain) ==
  IF Len(key_domain) <= MaxDomain THEN <<key_body, key_domain>> ELSE <<ZeroHash>>

Cacheable(r) == DispositionOf(r).cacheable
Key(r) == hash(DispositionOf(r).key_body, KeyDomain(r))
EntriesOf(r) == {e \in entries : Cacheable(r) /\ e.key = Key(r)}

\* The requests with the key of r that wait for the upstream, in their own
\* right or with another.
WithKeyOf(r, task) ==
  {q \in Requests : waiting[q] = task /\ Cacheable(q) /\ Cacheable(r) /\ Key(q) = Key(r)}

\* ProxyCache::fetch() finds a fresh entry,
Hit(r) ==
  /\ LoopTurn(r, "job")
  /\ \E e \in EntriesOf(r) : e.fresh /\ Done(r, Relayed(e.status, e.of))

\* or else joins a request in flight or posts one.
Miss(r) ==
  /\ LoopTurn(r, "job")
  /\ \A e \in EntriesOf(r) : ~e.fresh
  /\ IF WithKeyOf(r, "post") # {}
     THEN waiting' = [waiting EXCEPT ![r] = "join"] /\ UNCHANGED posted
     ELSE /\ waiting' = [waiting EXCEPT ![r] = "post"]
          /\ posted' = [posted EXCEPT ![r] = PostOf(r)]
  /\ UNCHANGED <<vars, Options, what, entries, calls, lost>>

\* How long a 2xx reply to r is cached.
Lifetime(r, reply) == IF Cacheable(r) THEN DispositionOf(r).ttl[reply] ELSE 0

Entry(r, status, reply) ==
  [key |-> Key(r), of |-> r, status |-> status, reply |-> reply,
   ttl |-> Lifetime(r, reply), fresh |-> TRUE]

\* Mutant: only the first callback is called.
FirstCallback(r) == {r}
\* e.callbacks
Callbacks(r) == {r} \cup WithKeyOf(r, "join")

\* Everybody who waits for the upstream of r is to be called with m.
CallAll(r, m) ==
  LET callees == Callbacks(r)
  IN  /\ calls' = callees \X {m}
      /\ waiting' = [q \in Requests |-> IF q \in callees THEN "none" ELSE waiting[q]]
      /\ Goto("loop", "calls")
      /\ UNCHANGED <<server_vars, frame, queued, collected, Options, what,
                     posted, lost>>

\* Mutant: whatever the status is.
KeptAnyway(r, status, reply) == Lifetime(r, reply) > 0
\* if (ok && ttl_ms > 0ms)
Kept(r, status, reply) == ok(status) /\ Lifetime(r, reply) > 0

\* The upstream's response to r is passed on, and cached if the ttl says so.
Reply(r, status, reply) ==
  /\ LoopTurn(r, "post")
  /\ ok(status) \/ EntriesOf(r) = {}
  /\ CallAll(r, Relayed(StatusLine(status), r))
  /\ entries' = IF Kept(r, status, reply)
                THEN (entries \ EntriesOf(r)) \cup {Entry(r, status, reply)}
                ELSE entries

\* The upstream fails a refresh: the response that is still cached is served.
Stale(r, status) ==
  /\ LoopTurn(r, "post")
  /\ ~ok(status)
  /\ \E e \in EntriesOf(r) : CallAll(r, Relayed(e.status, e.of))
  /\ UNCHANGED entries

CallNext ==
  /\ At("loop", "calls")
  /\ \E c \in calls : SendResponse("loop", c[1], c[2]) /\ calls' = calls \ {c}
  /\ Goto("loop", IF calls' = {} THEN "idle" ELSE "calls")
  /\ UNCHANGED <<frame, queued, collected, Options, what, waiting, entries,
                 posted, lost>>

\* The time of an entry is over.
Expire(e) ==
  /\ e.fresh
  /\ entries' = (entries \ {e}) \cup {[e EXCEPT !.fresh = FALSE]}
  /\ UNCHANGED <<vars, Options, what, waiting, calls, posted, lost>>

\* Its grace period is over, and clean() finds it with no request in flight.
Clean(e) ==
  /\ At("loop", "idle")
  /\ ~e.fresh
  /\ \A r \in Requests : waiting[r] = "post" => e \notin EntriesOf(r)
  /\ entries' = entries \ {e}
  /\ UNCHANGED <<vars, Options, what, waiting, calls, posted, lost>>

ProxyStep(r) == \/ LookupDone(r) \/ LookupLost(r) \/ LookupCrash(r)
                \/ Hit(r) \/ Miss(r)
                \/ \E s \in Statuses : \/ Stale(r, s)
                                       \/ \E reply \in Replies : Reply(r, s, reply)

-----------------------------------------------------------------------------

\* The threads' steps in the loop over the signatures and in its callbacks.
SignatureStep(step) == step /\ UNCHANGED dispatch_vars

\* What each thread does with what it has begun.
UwsThread ==
  /\ proc = "serving"
  /\ SignatureStep(UwsStep) \/ \E r \in Requests : Handler(r)
LoopThread ==
  /\ proc = "serving"
  /\ SignatureStep(RunCallback("loop")) \/ CallNext \/ \E r \in Requests : ProxyStep(r)

\* What comes to it from clients, uWS, CoalCache, upstreams and the clock.
Event ==
  /\ proc = "serving"
  /\ \/ \E r \in Requests : Serve(r) \/ \E m \in Incoming : Arrive(r, m)
     \/ SignatureStep(DeliverDeferred)
     \/ SignatureStep(CoalCacheStep)
     \/ \E r \in Requests : PostSignatures(r) \/ PostLookup(r)
     \/ \E e \in entries : Expire(e) \/ Clean(e)

\* The process is over, or has responded to all the requests that the model has.
Idle ==
  /\ \/ proc \in {"exited", "crashed"}
     \/ /\ \A r \in Requests : res[r] \in {"ended", "freed"} \/ r \in lost
        /\ \A t \in Threads : At(t, "idle")
  /\ UNCHANGED all_vars

DispatchNext == Start \/ Exit \/ UwsThread \/ LoopThread \/ Event \/ Idle

DispatchSpec == DispatchInit /\ [][DispatchNext]_all_vars

\* Both threads go on with what they have begun, every lookup of ReqCache's comes
\* back unless an exception is in the way, and every post does.  Nothing is asked
\* of CoalCache and of uWS's deferred calls.
DispatchFairSpec ==
  /\ DispatchSpec
  /\ WF_all_vars(UwsThread)
  /\ WF_all_vars(LoopThread)

-----------------------------------------------------------------------------
(* Properties *)

DispatchTypeOK ==
  /\ ServerTypeOK
  /\ pc \in [Threads -> {"idle", "handler", "lookup", "check", "fail", "store",
                         "count", "claim", "build", "calls"}]
  /\ proc \in {"starting", "serving", "exited", "crashed"}
  /\ routes \in Seq([prefix : Seq(STRING), kind : CacheKinds,
                     upstream : Seq(STRING), headers : Seq(STRING)])
  /\ what \in [Requests -> Incoming \cup {Nothing}]
  /\ waiting \in [Requests -> {"none", "job", "post", "join", "lookup"}]
  /\ \A e \in entries : /\ ok(e.status) /\ e.ttl > 0 /\ e.of \in Requests
                        /\ \A f \in entries : f.key = e.key => f = e
  /\ calls \subseteq Requests \X Messages
  /\ lost \subseteq Requests

\* "Longest-prefix match wins" (main.cpp:162), "Match only on a path boundary"
\* (config.cpp:13), "the forwarded URL is upstream + (path - prefix)"
\* (config.hpp:14), "A trailing slash on the upstream would double up"
\* (config.cpp:76): whatever is posted for a request goes to the upstream of the
\* most specific route that is for its path, with the credentials of that route
\* and no other's, keeps all of the path behind the prefix, and has one slash
\* where the two meet.  Two exceptions the code makes: a prefix that ends in "/"
\* takes the slash away, and a Solana route's requests go to its bare upstream
\* without its headers.
On(prefix, path) ==
  \E i \in 1..Len(path) :
    /\ prefix = SubSeq(path, 1, i)
    /\ i = Len(path) \/ "/" \in {path[i], path[i + 1]}
\* The length of a base URL without the slashes at its end.
BareLength(base, n) ==
  /\ n \in 0..Len(base)
  /\ n > 0 => base[n] # "/"
  /\ \A i \in n + 1..Len(base) : base[i] = "/"
Joins(url, base, prefix, path) ==
  \E n \in 0..Len(base) :
    /\ BareLength(base, n)
    /\ url = SubSeq(base, 1, n) \o SubSeq(path, Len(prefix) + 1, Len(path))
    /\ Len(url) > n /\ Last(prefix) # "/" => url[n + 1] = "/"
PostedRight(post, spec, path) ==
  LET base == Last(Given(spec, "upstream"))
      prefix == Last(Given(spec, "prefix"))
  IN  IF Last(Given(spec, "kind")) = "solana"
      THEN Joins(post[1], base, path, path) /\ post[2] = <<>>
      ELSE Joins(post[1], base, prefix, path) /\ post[2] = Given(spec, "header")
ForwardedRight ==
  LET Prefix(spec) == Last(Given(spec, "prefix"))
  IN  \A r \in Requests : posted[r] # NotPosted =>
        LET on == {s \in Specs : On(Prefix(s), what[r].path)}
        IN  \E spec \in on : /\ \A s \in on : Len(Prefix(s)) <= Len(Prefix(spec))
                            /\ PostedRight(posted[r], spec, what[r].path)

\* "use the request path as key_domain (so different methods/paths never
\* collide)" (proxycache.hpp:61), "requests differing only by id share a cache
\* entry" (routes.cpp:75), "caching a shared broadcaster's pending nonce would
\* manufacture nonce collisions" (routes.cpp:148): an upstream's answer that is
\* given to a request was made for it, or for one with the same path and the same
\* body but for its id; and for it alone if it asks an EVM node for its current
\* state or to write.  The exception the code makes: paths too long for blake2b
\* have one entry in common.
KindOf(r) == routes[RouteOf(r)].kind
Volatile == {"eth_call", "eth_getTransactionCount", "eth_sendRawTransaction"}
MayShare(q, r) ==
  /\ KindOf(r) = "evm_jsonrpc" => what[r].body.method \notin Volatile
  /\ \/ what[q].path = what[r].path /\ deid(what[q].body) = deid(what[r].body)
     \/ Len(what[q].path) > MaxDomain /\ Len(what[r].path) > MaxDomain
RightAnswer ==
  \A r \in Requests : \A i \in DOMAIN sent[r] :
    LET m == sent[r][i]
    IN  "of" \in DOMAIN m /\ m.of # r => MayShare(m.of, r)

\* "a not-yet-mined tx returns null and must not be cached long, or we'd keep
\* serving missing after it appears" (routes.cpp:48), and the same for the
\* wallet's empty objects; "A few seconds stale is harmless" (routes.cpp:39): an
\* answer that waits in the cache for later requests does not say of a receipt or
\* of a wallet's transaction that it is missing, and a block that was asked for as
\* the latest is fresh for seconds only.
WalletLookups == {"gettransactionbyid", "gettransactioninfobyid"}
AsksFor(path, method) ==
  LET n == Len(path) IN n > 1 /\ path[n - 1] = "/" /\ path[n] = method
KeptByPolicy ==
  \A e \in entries :
    LET q == what[e.of]
    IN  /\ KindOf(e.of) = "evm_jsonrpc" =>
             /\ q.body.method = "eth_getTransactionReceipt" => e.reply # "missing"
             /\ q.body.method = "eth_getBlockByNumber" /\ q.body.tag \in {"latest", "pending"}
                  => e.ttl <= TTL_HEAD
        /\ KindOf(e.of) = "tron_wallet" =>
             \A method \in WalletLookups : AsksFor(q.path, method) => e.reply # "missing"

\* Every request that main()'s handler is given is responded to, unless an
\* exception drops its callback (in ReqCache or, which keeps it queued for ever, in
\* CoalCache) or ends the process, or it asks for the status of no signature at all.
EmptyList(r) == IsSigStatuses(r) /\ what[r].list /\ NumKeys[r] = 0
EveryRequestSettled ==
  \A r \in Requests :
    CoalCacheAnswers(r) =>
      (r \in handled /\ ~EmptyList(r) ~> sent[r] # <<>> \/ r \in lost \/ proc = "crashed")

\* "Block-pinned / immutable data never changes, so its TTL is bounded only by
\* memory" (routes.cpp:34) and, of what is served after that, "a stale value is
\* still correct" (proxycache.cpp:184): the answers that are kept for hours are
\* data, and not the news that there is none yet or an error.
KeptIsImmutable ==
  \A e \in entries : e.ttl = TTL_IMMUTABLE => e.reply = "data"
=============================================================================
