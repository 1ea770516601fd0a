--------------------------- MODULE DispatchProofs ---------------------------
(***************************************************************************)
(* Theorems about Dispatch, for any routes, requests, statuses and         *)
(* messages: every request is responded to once at most, is forwarded to   *)
(* the right upstream, and gets no answer of another request's but of one  *)
(* that may share it.                                                      *)
(***************************************************************************)
EXTENDS Dispatch, ServerProofs, CommonLemmas
LOCAL INSTANCE SequencesExt

USE DEF Threads

-----------------------------------------------------------------------------
(* The inductive invariant *)

SigLabels == {"lookup", "check", "fail", "store", "count", "claim", "build"}

BaseType ==
  /\ TypeInv /\ ResInv
  /\ pc \in [Threads -> SigLabels \cup {"idle", "handler", "calls"}]
  /\ pc["uws"] # "calls" /\ pc["loop"] \notin {"handler", "lookup"}
  /\ frame \in [Threads -> Frame]
  /\ \A t \in Threads : pc[t] \in {"check", "store"} => frame[t].i \in Index(frame[t].req)
  /\ queued \subseteq Callback
  /\ claimed \in [Requests -> BOOLEAN]
  /\ values \in [Requests -> SUBSET Nat] /\ \A r \in Requests : values[r] \subseteq Index(r)
  /\ what \in [Requests -> Incoming \cup {Nothing}]
  /\ waiting \in [Requests -> {"none", "job", "post", "join", "lookup"}]
  /\ calls \subseteq Requests \X Messages
  /\ lost \subseteq Requests

\* The routes are those of the options from when the server listens, and no
\* request arrives before.
RoutesInv ==
  /\ proc \in {"starting", "serving", "exited", "crashed"}
  /\ routes = <<>> \/ /\ proc # "starting" /\ RouteSpecs # <<>>
                      /\ \A i \in DOMAIN RouteSpecs : ValidSpec(RouteSpecs[i])
                      /\ routes = [i \in DOMAIN RouteSpecs |-> parse_route(RouteSpecs[i])]
  /\ \A r \in Requests : res[r] # "none" => proc # "starting" /\ what[r] \in Incoming

\* Who owes r its response: the loop over its signatures with the callbacks, the
\* handler, the loop thread, or a call that is due.
Signing(r) ==
  \/ \E t \in Threads : pc[t] \in SigLabels /\ frame[t].req = r
  \/ \E i \in Index(r) : <<r, i>> \in queued
Waits(r) == waiting[r] # "none"
Called(r) == \E m \in Messages : <<r, m>> \in calls

\* One of them does, and only while r has none.
OwnOf(r) ==
  /\ Signing(r) => /\ r \in handled /\ ~InHandler(r) /\ ~Waits(r) /\ ~Called(r)
                   /\ claimed[r] \/ sent[r] = <<>>
  /\ InHandler(r) \/ Waits(r) \/ Called(r) => r \in handled /\ sent[r] = <<>>
  /\ ~(InHandler(r) /\ Waits(r)) /\ ~(InHandler(r) /\ Called(r)) /\ ~(Waits(r) /\ Called(r))
  /\ r \notin handled => sent[r] = <<>>
  /\ \A m, n \in Messages : <<r, m>> \in calls /\ <<r, n>> \in calls => m = n
OwnInv == \A r \in Requests : OwnOf(r)

\* Who builds the response has won the claim, alone.
BuildInv ==
  \A t \in Threads : At(t, "build") =>
    /\ claimed[frame[t].req] /\ sent[frame[t].req] = <<>>
    /\ \A u \in Threads \ {t} : ~(At(u, "build") /\ frame[u].req = frame[t].req)

Known(r) == res[r] # "none"

\* What the loop thread has for r goes to the route that its path has.
HasRoute(r) == RouteOf(r) # 0 /\ KindOf(r) # "solana"
HasSolana(r) == Known(r) /\ RouteOf(r) # 0 /\ KindOf(r) = "solana"
IsPost(r, post) == \/ Known(r) /\ HasRoute(r) /\ post = PostOf(r)
                   \/ HasSolana(r) /\ post = SolanaPostOf(r)
WaitInv ==
  /\ \A r \in Requests : waiting[r] \in {"job", "post", "join"} => HasRoute(r)
  /\ \A r \in Requests : waiting[r] = "lookup" \/ Signing(r) => HasSolana(r)
  /\ posted = [r \in Requests |-> posted[r]]
  /\ \A r \in Requests : posted[r] # NotPosted => IsPost(r, posted[r])

\* Each entry is the upstream's answer to a request that may be cached, kept
\* for as long as its ttl says, under its key, alone.
EntriesInv ==
  \A e \in entries :
    /\ e = [key |-> e.key, of |-> e.of, status |-> e.status, reply |-> e.reply,
            ttl |-> e.ttl, fresh |-> e.fresh]
    /\ e.of \in Requests /\ Known(e.of) /\ Cacheable(e.of) /\ e.key = Key(e.of)
    /\ e.status \in Statuses /\ ok(e.status)
    /\ e.reply \in Replies /\ e.ttl = Lifetime(e.of, e.reply) /\ e.ttl > 0
    /\ \A f \in entries : f.key = e.key => f = e

\* An answer that is given to r was made for it, or for a request with its key.
Shares(q, r) == Cacheable(q) /\ Cacheable(r) /\ Key(q) = Key(r)
MadeFor(m, r) == m.of \in Requests /\ Known(m.of) /\ Known(r) /\ (m.of # r => Shares(m.of, r))
SentTo(r, m) == \E i \in DOMAIN sent[r] : sent[r][i] = m
AnswersInv ==
  \A r \in Requests, m \in Messages :
    /\ <<r, m>> \in calls => "of" \in DOMAIN m /\ MadeFor(m, r)
    /\ SentTo(r, m) => ("of" \in DOMAIN m => MadeFor(m, r))

DispatchInv == BaseType /\ RoutesInv /\ OwnInv /\ BuildInv /\ WaitInv /\ EntriesInv /\ AnswersInv

-----------------------------------------------------------------------------
(* The server's rule: a response is sent to a request that has none. *)

LEMMA Framed ==
  ASSUME BaseType, NEW t \in Threads
  PROVE  /\ frame[t].req \in Requests /\ frame[t].i \in Nat
         /\ frame[t].null \in BOOLEAN
BY DEF BaseType, Frame

LEMMA OwedKnown ==
  ASSUME DispatchInv, NEW r \in Requests, InHandler(r) \/ Waits(r) \/ Called(r)
  PROVE  Known(r)
BY DEF DispatchInv, OwnInv, OwnOf, BaseType, ResInv, WaitingNotEnded, Known

LEMMA MessagesSent ==
  /\ \A r \in Requests : \A I \in SUBSET Index(r) : OkResponse(I) \in Messages
  /\ BadGateway \in Messages
  /\ \A s \in {400, 404, 500, 502} : Text(s) \in Messages
  /\ \A m \in Incoming : Result(m.body.id) \in Messages
  /\ \A s \in Statuses, r \in Requests :
       /\ Relayed(StatusLine(s), r) \in Messages
       /\ ok(s) => Relayed(s, r) \in Messages
<1>1. \A s \in Statuses : ok(s) => StatusLine(s) = s
  BY DispatchAssumption DEF ok, StatusLine
<1>2. \A r \in Requests : \A I \in SUBSET Index(r) : OkResponse(I) \in Messages
  BY SigStatusesAssumption
<1>3. BadGateway \in Messages
  BY SigStatusesAssumption
<1>4. \A s \in {400, 404, 500, 502} : Text(s) \in Messages
  BY DispatchAssumption
<1>5. \A m \in Incoming : Result(m.body.id) \in Messages
  BY DispatchAssumption
<1>6. \A s \in Statuses, r \in Requests : Relayed(StatusLine(s), r) \in Messages
  BY DispatchAssumption
<1>7. QED BY <1>1, <1>2, <1>3, <1>4, <1>5, <1>6

Responds == \E r \in Requests : Respond(r)

LEMMA RespondRule ==
  ASSUME NEW r \in handled, r \in Requests, sent[r] = <<>>,
         NEW t \in Threads, NEW m \in Messages, SendResponse(t, r, m)
  PROVE  Responds
BY DEF Respond, Responds

\* In the callbacks of the signatures, the claim decides who sends.
LEMMA SigServer ==
  ASSUME DispatchInv, NEW t \in Threads, RunCallback(t)
  PROVE  [Responds]_server_vars
<1>1. frame[t].req \in Requests
  BY Framed DEF DispatchInv
<1>2. pc[t] \in SigLabels => frame[t].req \in handled
  BY <1>1 DEF DispatchInv, OwnInv, OwnOf, Signing
<1>3. CASE Fail(t)
  <2>1. CASE ClaimWon(t)
    <3>1. sent[frame[t].req] = <<>> /\ frame[t].req \in handled
      BY <1>1, <1>2, <1>3, <2>1 DEF Fail, At, ClaimWon, SigLabels, DispatchInv, OwnInv, OwnOf, Signing
    <3>2. SendResponse(t, frame[t].req, BadGateway)
      BY <1>3, <2>1 DEF Fail
    <3>3. QED BY <1>1, <3>1, <3>2, MessagesSent, RespondRule
  <2>2. CASE ~ClaimWon(t)
    BY <1>3, <2>2 DEF Fail
  <2>3. QED BY <2>1, <2>2
<1>4. CASE Build(t)
  <2>1. sent[frame[t].req] = <<>> /\ frame[t].req \in handled
    BY <1>2, <1>4 DEF Build, At, SigLabels, DispatchInv, BuildInv
  <2>2. OkResponse(values[frame[t].req]) \in Messages
    BY <1>1, MessagesSent DEF DispatchInv, BaseType
  <2>3. SendResponse(t, frame[t].req, OkResponse(values[frame[t].req]))
    BY <1>4 DEF Build
  <2>4. QED BY <1>1, <2>1, <2>2, <2>3, RespondRule
<1>5. ASSUME CheckSent(t) \/ Store(t) \/ CountDown(t) \/ ClaimOk(t)
      PROVE  UNCHANGED server_vars
  BY <1>5 DEF CheckSent, Store, CountDown, ClaimOk
<1>6. QED BY <1>3, <1>4, <1>5 DEF RunCallback

\* So does the handler, that answers r itself or leaves it to somebody else.
LEMMA HandlerServer ==
  ASSUME DispatchInv, NEW r \in Requests, Handler(r)
  PROVE  [Responds]_server_vars
<1>1. CASE InHandler(r) /\ \E s \in {400, 404, 500} : SendResponse("uws", r, Text(s))
  <2>1. r \in handled /\ sent[r] = <<>>
    BY <1>1 DEF DispatchInv, OwnInv, OwnOf
  <2>2. PICK s \in {400, 404, 500} : SendResponse("uws", r, Text(s))
    BY <1>1
  <2>3. Text(s) \in Messages
    BY MessagesSent
  <2>4. QED BY <2>1, <2>2, <2>3, RespondRule
<1>2. CASE NoRoute(r) \/ Malformed(r) \/ BadParams(r)
  BY <1>1, <1>2 DEF NoRoute, Malformed, BadParams, ForSolana, Refuse
<1>3. CASE LookUpSignatures(r) \/ LookUpRequest(r) \/ Forward(r) \/ Fetch(r)
  BY <1>3 DEF LookUpSignatures, LookUpRequest, Forward, Fetch, HandOver
<1>4. QED BY <1>2, <1>3 DEF Handler

\* What the loop thread says to r by itself.
LEMMA DoneServer ==
  ASSUME DispatchInv, NEW r \in Requests, waiting[r] # "none",
         NEW m \in Messages, Done(r, m)
  PROVE  Responds
<1>1. r \in handled /\ sent[r] = <<>>
  BY DEF DispatchInv, OwnInv, OwnOf, Waits
<1>2. QED BY <1>1, RespondRule DEF Done

\* What is said to a request, by a callback or by the loop thread, is a message.
LEMMA Saying ==
  ASSUME DispatchInv
  PROVE  /\ \A r \in Requests : Known(r) => Result(OwnId(r)) \in Messages
         /\ Text(502) \in Messages
         /\ \A e \in entries : Relayed(e.status, e.of) \in Messages
<1>1. \A r \in Requests : Known(r) => Result(OwnId(r)) \in Messages
  BY MessagesSent DEF DispatchInv, RoutesInv, Known, OwnId
<1>2. QED BY <1>1, MessagesSent DEF DispatchInv, EntriesInv

LEMMA ProxyServer ==
  ASSUME DispatchInv, NEW r \in Requests, ProxyStep(r)
  PROVE  [Responds]_server_vars
<1>1. CASE LookupDone(r)
  <2>1. waiting[r] # "none" /\ Known(r)
    BY <1>1, OwedKnown DEF LookupDone, LoopTurn, Waits
  <2>2. PICK m \in {Result(OwnId(r)), Text(502)} : Done(r, m)
    BY <1>1 DEF LookupDone
  <2>3. m \in Messages
    BY <2>1, Saying
  <2>4. QED BY <2>1, <2>2, <2>3, DoneServer
<1>2. CASE Hit(r)
  <2>1. waiting[r] # "none"
    BY <1>2 DEF Hit, LoopTurn
  <2>2. PICK e \in entries : Done(r, Relayed(e.status, e.of))
    BY <1>2 DEF Hit, EntriesOf
  <2>3. QED BY <2>1, <2>2, Saying, DoneServer
<1>3. ASSUME \/ LookupLost(r) \/ LookupCrash(r) \/ Miss(r)
             \/ \E s \in Statuses : Stale(r, s) \/ \E reply \in Replies : Reply(r, s, reply)
      PROVE  UNCHANGED server_vars
  BY <1>3 DEF LookupLost, LookupCrash, Miss, Stale, Reply, CallAll, vars
<1>4. QED BY <1>1, <1>2, <1>3 DEF ProxyStep

LEMMA CallServer ==
  ASSUME DispatchInv, CallNext
  PROVE  Responds
<1>1. PICK r \in Requests, m \in Messages : <<r, m>> \in calls /\ SendResponse("loop", r, m)
  BY DEF CallNext, DispatchInv, BaseType
<1>2. r \in handled /\ sent[r] = <<>>
  BY <1>1 DEF DispatchInv, OwnInv, OwnOf, Called
<1>3. QED BY <1>1, <1>2, RespondRule

\* What else a step is to the server is its own affair; a request arrives in one
\* way only.
LEMMA ServerSteps ==
  ASSUME DispatchInv, [DispatchNext]_all_vars
  PROVE  \/ [Responds]_server_vars \/ RunDeferred
         \/ \E r \in Requests : \/ \E m \in Incoming : Arrive(r, m)
                                \/ /\ res[r] # "none"
                                   /\ Accept(r) \/ Chunk(r) \/ LastChunk(r) \/ Abort(r)
<1>1. ASSUME NEW r \in Requests, Serve(r)
      PROVE  res[r] # "none" /\ (Accept(r) \/ Chunk(r) \/ LastChunk(r) \/ Abort(r))
  BY <1>1 DEF Serve, UwsEvent, Handle
<1>2. CASE SignatureStep(DeliverDeferred)
  BY <1>2 DEF SignatureStep, DeliverDeferred
<1>3. CASE SignatureStep(UwsStep)
  BY <1>3, SigServer DEF SignatureStep, UwsStep, LookupHit, LookupMiss, LookupsDone
<1>4. CASE SignatureStep(LoopStep)
  BY <1>4, SigServer DEF SignatureStep, LoopStep, CoalCacheStep, Answer
<1>5. ASSUME NEW r \in Requests, Handler(r) PROVE [Responds]_server_vars
  BY <1>5, HandlerServer
<1>6. ASSUME NEW r \in Requests, ProxyStep(r) PROVE [Responds]_server_vars
  BY <1>6, ProxyServer
<1>7. CASE CallNext
  BY <1>7, CallServer
<1>8. ASSUME \/ Start \/ Exit \/ Idle \/ UNCHANGED all_vars
             \/ (\E r \in Requests : PostSignatures(r) \/ PostLookup(r))
             \/ \E e \in entries : Expire(e) \/ Clean(e)
      PROVE  UNCHANGED server_vars
  BY <1>8 DEF Start, Exit, Idle, PostSignatures, PostLookup, Posts, Expire, Clean, vars, all_vars
<1>9. QED
  BY <1>1, <1>2, <1>3, <1>4, <1>5, <1>6, <1>7, <1>8
  DEF DispatchNext, UwsThread, LoopThread, Event, SignatureStep, LoopStep

LEMMA ServerStep == DispatchInv /\ [DispatchNext]_all_vars => [ServerNext]_server_vars
BY ServerSteps DEF Responds, ServerNext, Arrive

-----------------------------------------------------------------------------
(* What a step leaves as it was *)

LEMMA Sending ==
  ASSUME BaseType, NEW r \in Requests, sent[r] = <<>>, NEW t, NEW m, SendResponse(t, r, m)
  PROVE  sent' = [sent EXCEPT ![r] = <<m>>] /\ UNCHANGED handled
<1>1. Append(<<>>, m) = <<m>>
  OBVIOUS
<1>2. QED BY <1>1 DEF SendResponse, BaseType, TypeInv, ServerTypeOK

\* Routes and requests change when the server starts and when a request arrives.
LEMMA OptionSteps ==
  ASSUME DispatchInv, [DispatchNext]_all_vars
  PROVE  \/ UNCHANGED <<routes, what>> /\ proc' \in {proc, "crashed"}
         \/ Start \/ Exit \/ \E r \in Requests : \E m \in Incoming : Arrive(r, m)
<1> DEFINE Same == UNCHANGED <<routes, what>> /\ proc' \in {proc, "crashed"}
<1>1. ASSUME NEW r \in Requests, Serve(r) PROVE Same
  BY <1>1 DEF Serve, dispatch_vars
<1>2. ASSUME UNCHANGED dispatch_vars PROVE Same
  BY <1>2 DEF dispatch_vars
<1>3. ASSUME NEW r \in Requests, Handler(r) PROVE Same
  BY <1>3 DEF Handler, NoRoute, Malformed, BadParams, Refuse, LookUpSignatures,
              LookUpRequest, Forward, Fetch, HandOver, Options, dispatch_vars
<1>4. ASSUME NEW r \in Requests, ProxyStep(r) PROVE Same
  BY <1>4 DEF ProxyStep, LookupDone, LookupLost, LookupCrash, Hit, Miss, Done, Stale, Reply,
              CallAll, Options
<1>5. CASE CallNext
  BY <1>5 DEF CallNext, Options
<1>6. ASSUME \/ Idle \/ UNCHANGED all_vars \/ \E e \in entries : Expire(e) \/ Clean(e)
             \/ \E r \in Requests : PostSignatures(r) \/ PostLookup(r)
      PROVE  Same
  BY <1>6 DEF Idle, PostSignatures, PostLookup, Posts, Expire, Clean, Options, all_vars,
              dispatch_vars
<1> HIDE DEF Same
<1>7. QED
  BY <1>1, <1>2, <1>3, <1>4, <1>5, <1>6
  DEF DispatchNext, UwsThread, LoopThread, Event, SignatureStep, Same

\* A request that has arrived stays, as it is, and so do the routes.
LEMMA KnownStays ==
  ASSUME DispatchInv, [DispatchNext]_all_vars, NEW r \in Requests, Known(r)
  PROVE  Known(r)' /\ what'[r] = what[r] /\ UNCHANGED routes
<1>1. Known(r)'
  <2>1. [ServerNext]_server_vars
    BY ServerStep
  <2>2. res \in [Requests -> {"none", "live", "freed", "ended"}]
    BY DEF DispatchInv, BaseType, TypeInv, ServerTypeOK
  <2>3. ASSUME NEW q, Write(q) PROVE res'[r] # "none"
    BY <2>2, <2>3 DEF Write, Known
  <2>4. QED
    BY <2>1, <2>2, <2>3 DEF ServerNext, server_vars, Accept, Chunk, LastChunk, OnData, Abort,
                            Respond, SendResponse, RunDeferred, Known
<1>2. proc # "starting"
  BY DEF DispatchInv, RoutesInv, Known
<1>3. ASSUME NEW q \in Requests, NEW m \in Incoming, Arrive(q, m)
      PROVE  what'[r] = what[r] /\ UNCHANGED routes
  BY <1>3 DEF Arrive, Accept, Known, Options, DispatchInv, BaseType
<1>4. QED
  BY <1>1, <1>2, <1>3, OptionSteps DEF Start, Exit

\* With it stays what depends on it: its route and how it may be answered.
LEMMA KnownSame ==
  ASSUME DispatchInv, [DispatchNext]_all_vars
  PROVE  \A r \in Requests : Known(r) =>
           /\ Known(r)' /\ what'[r] = what[r]
           /\ RouteOf(r)' = RouteOf(r) /\ KindOf(r)' = KindOf(r)
           /\ HasRoute(r)' = HasRoute(r) /\ PostOf(r)' = PostOf(r)
           /\ SolanaPostOf(r)' = SolanaPostOf(r)
           /\ Cacheable(r)' = Cacheable(r) /\ Key(r)' = Key(r)
           /\ \A reply : Lifetime(r, reply)' = Lifetime(r, reply)
<1> SUFFICES ASSUME NEW r \in Requests, Known(r)
             PROVE  /\ Known(r)' /\ what'[r] = what[r]
                    /\ RouteOf(r)' = RouteOf(r) /\ KindOf(r)' = KindOf(r)
                    /\ HasRoute(r)' = HasRoute(r) /\ PostOf(r)' = PostOf(r)
                    /\ SolanaPostOf(r)' = SolanaPostOf(r)
                    /\ Cacheable(r)' = Cacheable(r) /\ Key(r)' = Key(r)
                    /\ \A reply : Lifetime(r, reply)' = Lifetime(r, reply)
  OBVIOUS
<1>1. Known(r)' /\ what'[r] = what[r] /\ routes' = routes
  BY KnownStays
<1>2. RouteOf(r)' = RouteOf(r)
  BY <1>1 DEF RouteOf
<1>3. KindOf(r)' = KindOf(r) /\ PostOf(r)' = PostOf(r) /\ SolanaPostOf(r)' = SolanaPostOf(r)
  BY <1>1, <1>2 DEF KindOf, PostOf, SolanaPostOf
<1>4. HasRoute(r)' = HasRoute(r)
  BY <1>2, <1>3 DEF HasRoute
<1>5. DispositionOf(r)' = DispositionOf(r)
  BY <1>1, <1>2 DEF DispositionOf
<1>6. Cacheable(r)' = Cacheable(r)
  BY <1>5 DEF Cacheable
<1>7. Key(r)' = Key(r)
  BY <1>1, <1>5 DEF Key, KeyDomain
<1>8. \A reply : Lifetime(r, reply)' = Lifetime(r, reply)
  BY <1>5, <1>6 DEF Lifetime
<1>9. QED BY <1>1, <1>2, <1>3, <1>4, <1>6, <1>7, <1>8

\* A request gets known by arriving.
LEMMA KnownArrived ==
  ASSUME DispatchInv, [DispatchNext]_all_vars, NEW r \in Requests, Known(r)'
  PROVE  Known(r) \/ \E m \in Incoming : Arrive(r, m)
<1>1. res \in [Requests -> {"none", "live", "freed", "ended"}]
  BY DEF DispatchInv, BaseType, TypeInv, ServerTypeOK
<1>2. ASSUME NEW q, Write(q) PROVE Known(r)
  BY <1>1, <1>2 DEF Write, Known
<1>3. ASSUME NEW q \in Requests, NEW m \in Incoming, Arrive(q, m), q # r PROVE Known(r)
  BY <1>1, <1>3 DEF Arrive, Accept, Known
<1>4. ASSUME NEW q \in Requests, res[q] # "none",
             Accept(q) \/ Chunk(q) \/ LastChunk(q) \/ Abort(q)
      PROVE  Known(r)
  BY <1>1, <1>4 DEF Accept, Chunk, LastChunk, OnData, Abort, Known
<1>5. QED
  BY <1>2, <1>3, <1>4, ServerSteps
  DEF Responds, Respond, SendResponse, RunDeferred, server_vars, Known

LEMMA RoutesKept ==
  ASSUME DispatchInv, [DispatchNext]_all_vars
  PROVE  RoutesInv'
<1>1. ASSUME NEW r \in Requests, Known(r) PROVE proc' # "starting" /\ what'[r] \in Incoming
  <2>1. proc # "starting" /\ what[r] \in Incoming
    BY <1>1 DEF DispatchInv, RoutesInv, Known
  <2>2. proc' # "starting"
    BY <2>1, OptionSteps DEF Start, Exit, Arrive, Options
  <2>3. QED BY <1>1, <2>1, <2>2, KnownStays
<1>2. ASSUME NEW r \in Requests, NEW m \in Incoming, Arrive(r, m)
      PROVE  proc' # "starting" /\ what'[r] \in Incoming
  BY <1>2 DEF Arrive, Options, DispatchInv, BaseType
<1>3. \A r \in Requests : res'[r] # "none" => proc' # "starting" /\ what'[r] \in Incoming
  BY <1>1, <1>2, KnownArrived DEF Known
<1>4. CASE Start
  BY <1>3, <1>4 DEF Start, RoutesInv
<1>5. CASE ~Start
  <2>1. /\ routes' = routes /\ proc' \in {proc, "exited", "crashed"}
    BY <1>5, OptionSteps DEF Exit, Arrive, Options
  <2>2. QED BY <1>3, <2>1 DEF DispatchInv, RoutesInv
<1>6. QED BY <1>4, <1>5

-----------------------------------------------------------------------------
(* What a request waits for, what was posted for it, and what is cached *)

\* In the loop over the signatures nobody comes to be signed for who was not.
LEMMA LookupSigning ==
  ASSUME DispatchInv, NEW q \in Requests,
         LookupHit \/ LookupMiss \/ LookupsDone \/ CoalCacheStep
  PROVE  /\ Signing(q)' => Signing(q)
         /\ InHandler(q)' => InHandler(q)
<1>1. CASE LookupHit \/ LookupMiss
  <2>1. /\ pc["uws"] = "lookup" /\ pc'["uws"] # "handler" /\ pc'["loop"] = pc["loop"]
        /\ frame'["uws"].req = frame["uws"].req /\ frame'["loop"] = frame["loop"]
        /\ \A i : <<q, i>> \in queued' => <<q, i>> \in queued \/ q = frame["uws"].req
    BY <1>1, Framed DEF LookupHit, LookupMiss, At, Goto, Frame, DispatchInv, BaseType
  <2>2. QED BY <2>1 DEF Signing, InHandler, At, SigLabels
<1>2. CASE LookupsDone
  BY <1>2 DEF LookupsDone, Signing, InHandler, At, Goto, SigLabels, DispatchInv, BaseType
<1>3. ASSUME NEW c \in queued, NEW null \in BOOLEAN, Answer(c, null)
      PROVE  /\ Signing(q)' => Signing(q)
             /\ InHandler(q)' => InHandler(q)
  <2>1. PICK p \in Requests : c \in {p} \X Index(p)
    BY DEF DispatchInv, BaseType, Callback
  <2>2. PICK i \in Index(p) : c = <<p, i>>
    BY <2>1
  <2>3. /\ pc'["uws"] = pc["uws"] /\ frame'["uws"] = frame["uws"]
        /\ frame'["loop"].req = p /\ queued' \subseteq queued
    BY <1>3, <2>2 DEF Answer, Goto, Frame, DispatchInv, BaseType
  <2>4. QED BY <2>2, <2>3 DEF Signing, InHandler, At
<1>4. QED BY <1>1, <1>2, <1>3 DEF CoalCacheStep

\* A request is signed for from when the handler has begun with its signatures.
LEMMA SigningSteps ==
  ASSUME DispatchInv, [DispatchNext]_all_vars, NEW q \in Requests
  PROVE  Signing(q)' => Signing(q) \/ LookUpSignatures(q)
<1> DEFINE Goal == Signing(q)' => Signing(q) \/ LookUpSignatures(q)
<1>1. pc \in [Threads -> SigLabels \cup {"idle", "handler", "calls"}]
  BY DEF DispatchInv, BaseType
<1>2. ASSUME UNCHANGED <<frame, queued>>,
             \A t \in Threads : pc'[t] = pc[t] \/ pc'[t] \notin SigLabels \/ pc[t] \in SigLabels
      PROVE  Goal
  BY <1>2 DEF Signing
<1>3. ASSUME NEW t \in Threads, RunCallback(t) PROVE Goal
  <2>1. UNCHANGED <<frame, queued>> /\ pc[t] \in SigLabels
    BY <1>3 DEF RunCallback, CheckSent, Fail, Store, CountDown, ClaimOk, Build, At, SigLabels
  <2>2. \E label : Goto(t, label)
    BY <1>3 DEF RunCallback, CheckSent, Fail, Store, CountDown, ClaimOk, Build, Return
  <2>3. QED BY <1>1, <1>2, <2>1, <2>2 DEF Goto
<1>4. ASSUME LookupHit \/ LookupMiss \/ LookupsDone \/ CoalCacheStep PROVE Goal
  BY <1>4, LookupSigning
<1>5. ASSUME NEW r \in Requests, Serve(r) PROVE Goal
  <2>1. CASE UwsEvent(r)
    BY <1>2, <2>1 DEF UwsEvent
  <2>2. CASE Handle(r, "handler")
    <3>1. /\ pc'["uws"] = "handler" /\ pc'["loop"] = pc["loop"]
          /\ frame'["loop"] = frame["loop"] /\ UNCHANGED queued
      BY <2>2 DEF Handle, Goto, DispatchInv, BaseType
    <3>2. QED BY <3>1 DEF Signing, SigLabels
  <2>3. QED BY <1>5, <2>1, <2>2 DEF Serve
<1>6. ASSUME NEW r \in Requests, Handler(r) PROVE Goal
  <2>1. CASE LookUpSignatures(r)
    <3>1. /\ frame["uws"].req = r /\ pc'["loop"] = pc["loop"]
          /\ UNCHANGED <<frame, queued>>
      BY <2>1 DEF LookUpSignatures, ForSolana, InHandler, Goto, DispatchInv, BaseType
    <3>2. QED BY <2>1, <3>1 DEF Signing
  <2>2. CASE ~LookUpSignatures(r)
    <3>1. Goto("uws", "idle") /\ UNCHANGED <<frame, queued>>
      BY <1>6, <2>2 DEF Handler, NoRoute, Malformed, BadParams, Refuse, LookUpRequest, Forward,
                        Fetch, HandOver
    <3>2. QED BY <1>1, <1>2, <3>1 DEF Goto, SigLabels
  <2>3. QED BY <2>1, <2>2
<1>7. ASSUME NEW r \in Requests, ProxyStep(r) PROVE Goal
  <2>1. UNCHANGED <<frame, queued>> /\ (UNCHANGED pc \/ Goto("loop", "calls"))
    BY <1>7 DEF ProxyStep, LookupDone, LookupLost, LookupCrash, Hit, Miss, Done, Stale, Reply,
                CallAll, vars
  <2>2. QED BY <1>1, <1>2, <2>1 DEF Goto, SigLabels
<1>8. ASSUME CallNext PROVE Goal
  <2>1. UNCHANGED <<frame, queued>> /\ \E label \in {"idle", "calls"} : Goto("loop", label)
    BY <1>8 DEF CallNext
  <2>2. QED BY <1>1, <1>2, <2>1 DEF Goto, SigLabels
<1>9. ASSUME \/ Start \/ Exit \/ Idle \/ UNCHANGED all_vars \/ SignatureStep(DeliverDeferred)
             \/ (\E r \in Requests, m \in Incoming : Arrive(r, m))
             \/ (\E r \in Requests : PostSignatures(r) \/ PostLookup(r))
             \/ \E e \in entries : Expire(e) \/ Clean(e)
      PROVE  Goal
  <2>1. UNCHANGED <<pc, frame, queued>>
    BY <1>9 DEF Start, Exit, Idle, SignatureStep, DeliverDeferred, Arrive, PostSignatures,
                PostLookup, Posts, Expire, Clean, vars, all_vars
  <2>2. QED BY <1>2, <2>1
<1> HIDE DEF Goal
<1>10. Goal
  BY <1>3, <1>4, <1>5, <1>6, <1>7, <1>8, <1>9
  DEF DispatchNext, UwsThread, LoopThread, Event, SignatureStep, UwsStep
<1>11. QED BY <1>10 DEF Goal

\* Whoever waits for a fetch, for an upstream or for a lookup, and whoever's
\* request is posted, has been given its route by the handler.
LEMMA WaitSteps ==
  ASSUME DispatchInv, [DispatchNext]_all_vars, NEW q \in Requests
  PROVE  /\ \/ waiting'[q] \in {waiting[q], "none"}
            \/ Known(q) /\ HasRoute(q) /\ waiting'[q] # "lookup"
            \/ HasSolana(q) /\ waiting'[q] = "lookup"
         /\ posted' = [r \in Requests |-> posted'[r]]
         /\ posted'[q] = posted[q] \/ IsPost(q, posted'[q])
<1> DEFINE Goal == /\ \/ waiting'[q] \in {waiting[q], "none"}
                      \/ Known(q) /\ HasRoute(q) /\ waiting'[q] # "lookup"
                      \/ HasSolana(q) /\ waiting'[q] = "lookup"
                   /\ posted' = [r \in Requests |-> posted'[r]]
                   /\ posted'[q] = posted[q] \/ IsPost(q, posted'[q])
<1>1. /\ waiting \in [Requests -> {"none", "job", "post", "join", "lookup"}]
      /\ posted = [r \in Requests |-> posted[r]]
  BY DEF DispatchInv, BaseType, WaitInv
<1>2. CASE UNCHANGED <<waiting, posted>>
  BY <1>1, <1>2
<1>3. ASSUME NEW r \in Requests, Forward(r) \/ Fetch(r) PROVE Goal
  <2>1. Known(r) /\ HasRoute(r)
    BY <1>3, OwedKnown DEF Forward, Fetch, Proxied, HasRoute, KindOf
  <2>2. \/ posted' = [posted EXCEPT ![r] = PostOf(r)] \/ UNCHANGED posted
    BY <1>3 DEF Forward, Fetch
  <2>3. \E task : task # "lookup" /\ waiting' = [waiting EXCEPT ![r] = task]
    BY <1>3 DEF Forward, Fetch, HandOver
  <2>4. QED BY <1>1, <2>1, <2>2, <2>3 DEF IsPost
<1>4. ASSUME NEW r \in Requests, LookUpRequest(r) PROVE Goal
  <2>1. HasSolana(r)
    BY <1>4, OwedKnown DEF LookUpRequest, ForSolana, HasSolana, KindOf
  <2>2. UNCHANGED posted /\ waiting' = [waiting EXCEPT ![r] = "lookup"]
    BY <1>4 DEF LookUpRequest, HandOver
  <2>3. QED BY <1>1, <2>1, <2>2
<1>5. ASSUME NEW r \in Requests, Miss(r) PROVE Goal
  <2>1. waiting[r] = "job" /\ Known(r) /\ HasRoute(r)
    BY <1>5, OwedKnown DEF Miss, LoopTurn, Waits, DispatchInv, WaitInv
  <2>2. \/ posted' = [posted EXCEPT ![r] = PostOf(r)] \/ UNCHANGED posted
    BY <1>5 DEF Miss
  <2>3. \E task : task # "lookup" /\ waiting' = [waiting EXCEPT ![r] = task]
    BY <1>5 DEF Miss
  <2>4. QED BY <1>1, <2>1, <2>2, <2>3 DEF IsPost
<1>6. ASSUME NEW r \in Requests, LookupDone(r) \/ LookupLost(r) \/ Hit(r) PROVE Goal
  BY <1>1, <1>6 DEF LookupDone, LookupLost, Hit, Done
<1>7. ASSUME NEW r \in Requests, NEW s, NEW reply, Stale(r, s) \/ Reply(r, s, reply)
      PROVE  Goal
  BY <1>1, <1>7 DEF Stale, Reply, CallAll
<1>8. ASSUME NEW r \in Requests, PostSignatures(r) \/ PostLookup(r) PROVE Goal
  <2>1. HasSolana(r)
    BY <1>8 DEF PostSignatures, PostLookup, LoopTurn, Signing, DispatchInv, WaitInv
  <2>2. UNCHANGED waiting /\ posted' = [posted EXCEPT ![r] = SolanaPostOf(r)]
    BY <1>8 DEF PostSignatures, PostLookup, Posts
  <2>3. QED BY <1>1, <2>1, <2>2 DEF IsPost
<1>9. ASSUME NEW r \in Requests,
             \/ Serve(r) \/ (\E m \in Incoming : Arrive(r, m)) \/ LookupCrash(r)
             \/ NoRoute(r) \/ Malformed(r) \/ BadParams(r) \/ LookUpSignatures(r)
      PROVE  UNCHANGED <<waiting, posted>>
  BY <1>9 DEF Serve, Arrive, LookupCrash, NoRoute, Malformed, BadParams, LookUpSignatures,
              Refuse, Fetching, dispatch_vars
<1>10. ASSUME UNCHANGED dispatch_vars PROVE UNCHANGED <<waiting, posted>>
  BY <1>10 DEF dispatch_vars
<1>11. ASSUME \/ Start \/ Exit \/ CallNext \/ Idle \/ UNCHANGED all_vars
              \/ \E e \in entries : Expire(e) \/ Clean(e)
       PROVE  UNCHANGED <<waiting, posted>>
  BY <1>11 DEF Start, Exit, CallNext, Idle, Expire, Clean, Fetching, all_vars, dispatch_vars
<1> HIDE DEF Goal
<1>12. Goal
  BY <1>2, <1>3, <1>4, <1>5, <1>6, <1>7, <1>8, <1>9, <1>10, <1>11
  DEF DispatchNext, UwsThread, LoopThread, Event, SignatureStep, Handler, ProxyStep, Goal
<1>13. QED BY <1>12 DEF Goal

LEMMA WaitKept ==
  ASSUME DispatchInv, [DispatchNext]_all_vars
  PROVE  WaitInv'
<1>1. ASSUME NEW r \in Requests, waiting'[r] \in {"job", "post", "join"} PROVE HasRoute(r)'
  <2>1. Known(r) /\ HasRoute(r)
    BY <1>1, WaitSteps, OwedKnown DEF DispatchInv, WaitInv, Waits
  <2>2. QED BY <2>1, KnownSame
<1>2. \A r \in Requests : HasSolana(r) => HasSolana(r)'
  BY KnownSame DEF HasSolana
<1>3. ASSUME NEW r \in Requests, waiting'[r] = "lookup" \/ Signing(r)' PROVE HasSolana(r)'
  <2>1. ASSUME LookUpSignatures(r) PROVE HasSolana(r)
    BY <2>1, OwedKnown DEF LookUpSignatures, ForSolana, HasSolana, KindOf
  <2>2. HasSolana(r)
    BY <1>3, <2>1, WaitSteps, SigningSteps DEF DispatchInv, WaitInv
  <2>3. QED BY <1>2, <2>2
<1>4. ASSUME NEW r \in Requests, posted'[r] # NotPosted PROVE IsPost(r, posted[r])'
  <2>1. IsPost(r, posted'[r])
    BY <1>4, WaitSteps DEF DispatchInv, WaitInv
  <2>2. CASE Known(r) /\ HasRoute(r) /\ posted'[r] = PostOf(r)
    <3>1. Known(r)' /\ HasRoute(r)' /\ PostOf(r)' = PostOf(r)
      BY <2>2, KnownSame
    <3>2. QED BY <2>2, <3>1 DEF IsPost
  <2>3. CASE HasSolana(r) /\ posted'[r] = SolanaPostOf(r)
    <3>1. HasSolana(r)' /\ SolanaPostOf(r)' = SolanaPostOf(r)
      BY <1>2, <2>3, KnownSame DEF HasSolana
    <3>2. QED BY <2>3, <3>1 DEF IsPost
  <2>4. QED BY <2>1, <2>2, <2>3 DEF IsPost
<1>5. posted' = [r \in Requests |-> posted'[r]]
  <2>1. frame["uws"].req \in Requests
    BY Framed DEF DispatchInv
  <2>2. QED BY <2>1, WaitSteps
<1>6. QED BY <1>1, <1>3, <1>4, <1>5 DEF WaitInv

\* An entry comes with a reply to a request of its key, and loses its freshness.
LEMMA EntriesKept ==
  ASSUME DispatchInv, [DispatchNext]_all_vars
  PROVE  EntriesInv'
<1> DEFINE Shape(e) == e = [key |-> e.key, of |-> e.of, status |-> e.status,
                            reply |-> e.reply, ttl |-> e.ttl, fresh |-> e.fresh]
           Right(e) == /\ e.of \in Requests /\ Known(e.of) /\ Cacheable(e.of) /\ e.key = Key(e.of)
                       /\ e.status \in Statuses /\ ok(e.status)
                       /\ e.reply \in Replies /\ e.ttl = Lifetime(e.of, e.reply) /\ e.ttl > 0
<1>1. \A e \in entries : Shape(e) /\ Right(e) /\ \A f \in entries : f.key = e.key => f = e
  BY DEF DispatchInv, EntriesInv
<1>2. ASSUME NEW e, Right(e) PROVE Right(e)'
  <2>1. PICK q \in Requests : q = e.of
    BY <1>2
  <2>2. Known(q) /\ Cacheable(q) /\ e.key = Key(q) /\ e.ttl = Lifetime(q, e.reply)
    BY <1>2, <2>1
  <2>3. Known(q)' /\ Cacheable(q)' /\ e.key = Key(q)' /\ e.ttl = Lifetime(q, e.reply)'
    BY <2>2, KnownSame
  <2>4. QED BY <1>2, <2>1, <2>3 DEF Known, Cacheable, DispositionOf, Key, KeyDomain, RouteOf, Lifetime
<1> HIDE DEF Shape, Right
<1> DEFINE Steps == /\ \A e \in entries' : Shape(e) /\ Right(e)
                    /\ \A e, f \in entries' : f.key = e.key => f = e
<1>3. ASSUME entries' \subseteq entries PROVE Steps
  BY <1>1, <1>3
<1>4. ASSUME NEW e \in entries, Expire(e) PROVE Steps
  <2>1. PICK x : x = [e EXCEPT !.fresh = FALSE]
    OBVIOUS
  <2>2. Shape(x) /\ Right(x) /\ x.key = e.key
    <3>1. e = [key |-> e.key, of |-> e.of, status |-> e.status,
               reply |-> e.reply, ttl |-> e.ttl, fresh |-> e.fresh]
      BY <1>1 DEF Shape
    <3>2. x = [key |-> e.key, of |-> e.of, status |-> e.status,
               reply |-> e.reply, ttl |-> e.ttl, fresh |-> FALSE]
      BY <2>1, <3>1
    <3>3. Shape(x) /\ x.key = e.key
      BY <3>2 DEF Shape
    <3>4. x.of = e.of /\ x.status = e.status /\ x.reply = e.reply /\ x.ttl = e.ttl
      BY <3>2
    <3>5. Right(x)
      BY <1>1, <3>3, <3>4 DEF Right
    <3>6. QED BY <3>3, <3>5
  <2>3. entries' = (entries \ {e}) \cup {x}
    BY <1>4, <2>1 DEF Expire
  <2>4. QED BY <1>1, <2>2, <2>3
<1>5. ASSUME NEW r \in Requests, NEW s \in Statuses, NEW reply \in Replies, Reply(r, s, reply)
      PROVE  Steps
  <2> DEFINE x == Entry(r, s, reply)
  <2>1. CASE ~Kept(r, s, reply)
    BY <1>1, <1>5, <2>1 DEF Reply
  <2>2. CASE Kept(r, s, reply)
    <3>1. /\ x.key = Key(r) /\ x.of = r /\ x.status = s /\ x.reply = reply
          /\ x.ttl = Lifetime(r, reply) /\ Shape(x)
      BY DEF Entry, Shape
    <3>2. Known(r)
      BY <1>5, OwedKnown DEF Reply, LoopTurn, Waits
    <3>3. ok(s) /\ Lifetime(r, reply) > 0 /\ Cacheable(r)
      BY <2>2 DEF Kept, Lifetime
    <3>4. entries' = (entries \ EntriesOf(r)) \cup {x}
      BY <1>5, <2>2 DEF Reply
    <3>5. \A e \in entries \ EntriesOf(r) : e.key # Key(r)
      BY <3>3 DEF EntriesOf
    <3> HIDE DEF x
    <3>6. Right(x)
      BY <3>1, <3>2, <3>3 DEF Right
    <3>7. QED BY <1>1, <3>1, <3>4, <3>5, <3>6
  <2>3. QED BY <2>1, <2>2
<1>6. ASSUME NEW e \in entries, Clean(e) PROVE entries' \subseteq entries
  BY <1>6 DEF Clean
<1>7. ASSUME NEW r \in Requests, ~ \E s \in Statuses, reply \in Replies : Reply(r, s, reply),
             Serve(r) \/ (\E m \in Incoming : Arrive(r, m)) \/ Handler(r) \/ ProxyStep(r)
      PROVE  UNCHANGED entries
  BY <1>7 DEF Serve, Arrive, Fetching, dispatch_vars, Handler, NoRoute, Malformed, BadParams,
              LookUpSignatures, LookUpRequest, Forward, Fetch, Refuse, HandOver,
              ProxyStep, LookupDone, LookupLost, LookupCrash, Hit, Miss, Done, Stale
<1>8. ASSUME UNCHANGED dispatch_vars PROVE UNCHANGED entries
  BY <1>8 DEF dispatch_vars
<1>9. ASSUME \/ Start \/ Exit \/ CallNext \/ Idle \/ UNCHANGED all_vars
             \/ \E r \in Requests : PostSignatures(r) \/ PostLookup(r)
      PROVE  UNCHANGED entries
  BY <1>9 DEF Start, Exit, CallNext, Idle, PostSignatures, PostLookup, Posts, Fetching, all_vars,
              dispatch_vars
<1> HIDE DEF Steps
<1>10. Steps
  BY <1>3, <1>4, <1>5, <1>6, <1>7, <1>8, <1>9
  DEF DispatchNext, UwsThread, LoopThread, Event, SignatureStep
<1>11. \A e \in entries' : Shape(e) /\ Right(e)' /\ \A f \in entries' : f.key = e.key => f = e
  BY <1>2, <1>10 DEF Steps
<1>12. QED BY <1>11 DEF EntriesInv, Shape, Right

-----------------------------------------------------------------------------
(* The answers *)

LEMMA MadeStays ==
  ASSUME DispatchInv, [DispatchNext]_all_vars, NEW r \in Requests, NEW m, MadeFor(m, r)
  PROVE  MadeFor(m, r)'
<1>1. PICK q \in Requests : q = m.of
  BY DEF MadeFor
<1>2. Known(q)' /\ Known(r)' /\ (q # r => Shares(q, r)')
  BY <1>1, KnownSame DEF MadeFor, Shares
<1>3. QED
  BY <1>1, <1>2 DEF MadeFor, Shares, Known, Cacheable, DispositionOf, Key, KeyDomain, RouteOf

\* What was sent and what is to be said is still right.
Says(r, m) == "of" \in DOMAIN m => MadeFor(m, r)
Calls(r, m) == "of" \in DOMAIN m /\ MadeFor(m, r)

LEMMA SaysStays ==
  ASSUME DispatchInv, [DispatchNext]_all_vars, NEW r \in Requests, NEW m
  PROVE  /\ Says(r, m) => Says(r, m)'
         /\ Calls(r, m) => Calls(r, m)'
BY MadeStays, KnownSame DEF Says, Calls

\* Nothing is sent, or r is told something that is meant for it; and who is to be
\* called is told what is meant for him.
LEMMA AnswersStep ==
  ASSUME DispatchInv, [DispatchNext]_all_vars,
         \/ UNCHANGED sent
         \/ \E r \in Requests, t \in Threads, m \in Messages :
              sent[r] = <<>> /\ SendResponse(t, r, m) /\ Says(r, m),
         \A r \in Requests, m \in Messages :
           <<r, m>> \in calls' => <<r, m>> \in calls \/ Calls(r, m)
  PROVE  AnswersInv'
<1> SUFFICES ASSUME NEW q \in Requests, NEW n \in Messages
             PROVE  (<<q, n>> \in calls => Calls(q, n))' /\ (SentTo(q, n) => Says(q, n))'
  BY DEF AnswersInv, Says, Calls
<1>1. (<<q, n>> \in calls => Calls(q, n)) /\ (SentTo(q, n) => Says(q, n))
  BY DEF DispatchInv, AnswersInv, Says, Calls
<1>2. (<<q, n>> \in calls => Calls(q, n))'
  BY <1>1, SaysStays
<1>3. CASE UNCHANGED sent
  BY <1>1, <1>2, <1>3, SaysStays DEF SentTo
<1>4. ASSUME NEW r \in Requests, NEW t \in Threads, NEW m \in Messages,
             sent[r] = <<>>, SendResponse(t, r, m), Says(r, m), SentTo(q, n)'
      PROVE  Says(q, n)
  <2>1. /\ sent' = [sent EXCEPT ![r] = <<m>>]
        /\ sent \in [Requests -> Seq(Messages)]
    BY <1>4, Sending DEF DispatchInv, BaseType, TypeInv, ServerTypeOK
  <2>2. SentTo(q, n) \/ (q = r /\ n = m)
    BY <1>4, <2>1 DEF SentTo
  <2>3. QED BY <1>1, <1>4, <2>2
<1>5. QED
  BY <1>2, <1>3, <1>4, SaysStays

\* Only a relayed response names a request.
LEMMA MessageParts ==
  /\ \A I : "of" \notin DOMAIN OkResponse(I)
  /\ "of" \notin DOMAIN BadGateway
  /\ \A s : "of" \notin DOMAIN Text(s)
  /\ \A id : "of" \notin DOMAIN Result(id)
  /\ \A s, r : "of" \in DOMAIN Relayed(s, r) /\ Relayed(s, r).of = r
BY DEF OkResponse, BadGateway, Text, Result, Relayed

\* An entry with the key of r is an answer for r, and so is what the upstream
\* said to a request that has its key.
LEMMA KeyedAnswers ==
  ASSUME DispatchInv, NEW r \in Requests, Known(r)
  PROVE  /\ \A e \in EntriesOf(r) : Calls(r, Relayed(e.status, e.of))
         /\ \A s : Calls(r, Relayed(s, r))
         /\ \A q \in Callbacks(r) :
              /\ q \in Requests /\ Known(q)
              /\ \A e \in EntriesOf(r) : Calls(q, Relayed(e.status, e.of))
              /\ \A s : Calls(q, Relayed(s, r))
<1>1. ASSUME NEW e \in EntriesOf(r)
      PROVE  e.of \in Requests /\ Known(e.of) /\ Shares(e.of, r)
  BY DEF EntriesOf, DispatchInv, EntriesInv, Shares
<1>2. ASSUME NEW q \in Callbacks(r)
      PROVE  q \in Requests /\ Known(q) /\ (q # r => Shares(r, q))
  BY OwedKnown DEF Callbacks, WithKeyOf, Waits, Shares
<1>3. QED BY <1>1, <1>2, MessageParts DEF Calls, MadeFor, Shares

LEMMA AnswersKept ==
  ASSUME DispatchInv, [DispatchNext]_all_vars
  PROVE  AnswersInv'
<1> DEFINE Quiet == UNCHANGED sent
           Told == \E r \in Requests, t \in Threads, m \in Messages :
                     sent[r] = <<>> /\ SendResponse(t, r, m) /\ Says(r, m)
           Due == \A r \in Requests, m \in Messages :
                    <<r, m>> \in calls' => <<r, m>> \in calls \/ Calls(r, m)
<1>1. ASSUME NEW t \in Threads, RunCallback(t) PROVE Quiet \/ Told
  <2>1. [Responds]_server_vars
    BY <1>1, SigServer
  <2>2. CASE Fail(t) /\ ClaimWon(t)
    <3>1. frame[t].req \in Requests /\ SendResponse(t, frame[t].req, BadGateway)
      BY <2>2, Framed DEF Fail, DispatchInv
    <3>2. sent[frame[t].req] = <<>>
      BY <2>2, <3>1 DEF Fail, At, ClaimWon, SigLabels, DispatchInv, OwnInv, OwnOf, Signing
    <3>3. QED BY <3>1, <3>2, MessagesSent, MessageParts DEF Says
  <2>3. CASE Build(t)
    <3>1. /\ frame[t].req \in Requests
          /\ SendResponse(t, frame[t].req, OkResponse(values[frame[t].req]))
          /\ values[frame[t].req] \in SUBSET Index(frame[t].req)
      BY <2>3, Framed DEF Build, DispatchInv, BaseType
    <3>2. sent[frame[t].req] = <<>>
      BY <2>3 DEF Build, DispatchInv, BuildInv
    <3>3. QED BY <3>1, <3>2, MessagesSent, MessageParts DEF Says
  <2>4. QED
    BY <1>1, <2>2, <2>3
    DEF RunCallback, CheckSent, Fail, Store, CountDown, ClaimOk, server_vars
<1>2. CASE SignatureStep(UwsStep) \/ SignatureStep(LoopStep) \/ SignatureStep(DeliverDeferred)
  <2>1. UNCHANGED calls
    BY <1>2 DEF SignatureStep, dispatch_vars
  <2>2. Quiet \/ Told
    BY <1>1, <1>2 DEF SignatureStep, UwsStep, LookupHit, LookupMiss, LookupsDone, LoopStep,
                      CoalCacheStep, Answer, DeliverDeferred, RunDeferred, server_vars
  <2>3. QED BY <2>1, <2>2, AnswersStep
<1>3. ASSUME NEW r \in Requests, Handler(r) PROVE Due /\ (Quiet \/ Told)
  <2>1. CASE NoRoute(r) \/ Malformed(r) \/ BadParams(r)
    <3>1. PICK s \in {400, 404, 500} : SendResponse("uws", r, Text(s))
      BY <2>1 DEF NoRoute, Malformed, BadParams, Refuse
    <3>2. InHandler(r) /\ UNCHANGED calls
      BY <2>1 DEF NoRoute, Malformed, BadParams, ForSolana, Refuse, dispatch_vars
    <3>3. sent[r] = <<>>
      BY <3>2 DEF DispatchInv, OwnInv, OwnOf
    <3>4. Text(s) \in Messages /\ Says(r, Text(s))
      BY MessagesSent, MessageParts DEF Says
    <3>5. QED BY <3>1, <3>2, <3>3, <3>4
  <2>2. CASE LookUpSignatures(r) \/ LookUpRequest(r) \/ Forward(r) \/ Fetch(r)
    BY <2>2 DEF LookUpSignatures, LookUpRequest, Forward, Fetch, HandOver, server_vars,
                dispatch_vars
  <2>3. QED BY <1>3, <2>1, <2>2 DEF Handler
<1>4. ASSUME NEW r \in Requests, NEW m, Done(r, m), m \in Messages, Says(r, m), waiting[r] # "none"
      PROVE  Due /\ (Quiet \/ Told)
  BY <1>4 DEF Done, DispatchInv, OwnInv, OwnOf, Waits
<1>5. ASSUME NEW r \in Requests, ProxyStep(r) PROVE Due /\ (Quiet \/ Told)
  <2>1. waiting[r] # "none" /\ Known(r)
    BY <1>5, OwedKnown DEF ProxyStep, LookupDone, LookupLost, LookupCrash, Hit, Miss, Stale, Reply,
                           LoopTurn, Waits
  <2>2. CASE LookupDone(r)
    <3>1. PICK m \in {Result(OwnId(r)), Text(502)} : Done(r, m)
      BY <2>2 DEF LookupDone
    <3>2. m \in Messages /\ Says(r, m)
      BY <2>1, Saying, MessageParts DEF Says, OwnId
    <3>3. QED BY <1>4, <2>1, <3>1, <3>2
  <2>3. CASE Hit(r)
    <3>1. PICK e \in EntriesOf(r) : Done(r, Relayed(e.status, e.of))
      BY <2>3 DEF Hit
    <3>2. /\ Relayed(e.status, e.of) \in Messages
          /\ Calls(r, Relayed(e.status, e.of))
      BY <2>1, Saying, KeyedAnswers DEF EntriesOf
    <3>3. QED BY <1>4, <2>1, <3>1, <3>2 DEF Says, Calls
  <2>4. ASSUME NEW m, CallAll(r, m), \A q \in Callbacks(r) : Calls(q, m)
        PROVE  Due /\ Quiet
    BY <2>4 DEF CallAll, server_vars
  <2>5. ASSUME NEW s \in Statuses, Stale(r, s) PROVE Due /\ Quiet
    BY <2>1, <2>4, <2>5, KeyedAnswers DEF Stale
  <2>6. ASSUME NEW s \in Statuses, NEW reply \in Replies, Reply(r, s, reply) PROVE Due /\ Quiet
    BY <2>1, <2>4, <2>6, KeyedAnswers DEF Reply
  <2>7. CASE LookupLost(r) \/ LookupCrash(r) \/ Miss(r)
    BY <2>7 DEF LookupLost, LookupCrash, Miss, Fetching, vars, server_vars
  <2>8. QED BY <1>5, <2>2, <2>3, <2>5, <2>6, <2>7 DEF ProxyStep
<1>6. CASE CallNext
  <2>1. PICK c \in calls : SendResponse("loop", c[1], c[2]) /\ calls' = calls \ {c}
    BY <1>6 DEF CallNext
  <2>2. PICK r \in Requests, m \in Messages : c = <<r, m>>
    BY DEF DispatchInv, BaseType
  <2>3. sent[r] = <<>> /\ Calls(r, m)
    BY <2>2 DEF DispatchInv, OwnInv, OwnOf, Called, AnswersInv, Calls
  <2>4. Due /\ Told
    BY <2>1, <2>2, <2>3 DEF Says, Calls
  <2>5. QED BY <2>4, AnswersStep
<1>7. ASSUME NEW r \in Requests, Serve(r) \/ \E m \in Incoming : Arrive(r, m)
      PROVE  Due /\ Quiet
  BY <1>7 DEF Serve, Arrive, UwsEvent, Handle, Accept, Chunk, LastChunk, OnData, Abort,
              Fetching, dispatch_vars
<1>8. ASSUME \/ Start \/ Exit \/ Idle \/ UNCHANGED all_vars
             \/ (\E r \in Requests : PostSignatures(r) \/ PostLookup(r))
             \/ \E e \in entries : Expire(e) \/ Clean(e)
      PROVE  Due /\ Quiet
  BY <1>8 DEF Start, Exit, Idle, PostSignatures, PostLookup, Posts, Expire, Clean, Fetching, vars,
              server_vars, all_vars, dispatch_vars
<1>9. Due /\ (Quiet \/ Told) => AnswersInv'
  BY AnswersStep
<1> HIDE DEF Due, Quiet, Told
<1>10. QED
  BY <1>2, <1>3, <1>5, <1>6, <1>7, <1>8, <1>9
  DEF DispatchNext, UwsThread, LoopThread, Event, SignatureStep, LoopStep

-----------------------------------------------------------------------------
(* The types *)

LEMMA BaseTypeKept ==
  ASSUME DispatchInv, [DispatchNext]_all_vars
  PROVE  BaseType'
<1> DEFINE Labels == SigLabels \cup {"idle", "handler", "calls"}
           Flow == /\ pc \in [Threads -> Labels]
                   /\ pc["uws"] # "calls" /\ pc["loop"] \notin {"handler", "lookup"}
                   /\ frame \in [Threads -> Frame]
                   /\ \A t \in Threads :
                        pc[t] \in {"check", "store"} => frame[t].i \in Index(frame[t].req)
                   /\ queued \subseteq Callback
                   /\ claimed \in [Requests -> BOOLEAN]
                   /\ values \in [Requests -> SUBSET Nat]
                   /\ \A r \in Requests : values[r] \subseteq Index(r)
           Data == /\ what \in [Requests -> Incoming \cup {Nothing}]
                   /\ waiting \in [Requests -> {"none", "job", "post", "join", "lookup"}]
                   /\ calls \subseteq Requests \X Messages
                   /\ lost \subseteq Requests
<1>1. TypeInv' /\ ResInv'
  BY ServerStep, TypeKept, ResKept DEF DispatchInv, BaseType
<1>2. Flow /\ Data /\ BaseType
  BY DEF DispatchInv, BaseType
<1>3. \A r \in Requests : Index(r) \subseteq Nat
  BY SigStatusesAssumption DEF Index
\* the threads
<1>4. ASSUME UNCHANGED <<pc, frame, queued, collected>> PROVE Flow'
  BY <1>2, <1>4 DEF collected
<1>5. ASSUME NEW t \in Threads, NEW label \in Labels, Goto(t, label),
             UNCHANGED <<frame, queued, collected>>,
             label \notin {"check", "store"} \/ pc[t] = "check",
             t = "uws" => label # "calls", t = "loop" => label \notin {"handler", "lookup"}
      PROVE  Flow'
  BY <1>2, <1>5 DEF Goto, collected
<1>6. ASSUME NEW t \in Threads, RunCallback(t) PROVE Flow'
  <2>1. UNCHANGED <<frame, queued>>
    BY <1>6 DEF RunCallback, CheckSent, Fail, Store, CountDown, ClaimOk, Build
  <2>2. PICK label \in {"idle", "lookup", "fail", "store", "count", "claim", "build"} :
          /\ Goto(t, label) /\ (label = "store" => pc[t] = "check")
          /\ t = "loop" => label # "lookup"
    BY <1>6 DEF RunCallback, CheckSent, Fail, Store, CountDown, ClaimOk, Build, Return, At
  <2>3. claimed' \in [Requests -> BOOLEAN]
    BY <1>2, <1>6 DEF RunCallback, CheckSent, Fail, Store, CountDown, ClaimOk, Build, Claim, collected
  <2>4. values' \in [Requests -> SUBSET Nat] /\ \A r \in Requests : values'[r] \subseteq Index(r)
    <3>1. CASE Store(t)
      <4>1. /\ frame[t].req \in Requests /\ frame[t].i \in Nat
            /\ frame[t].i \in Index(frame[t].req)
            /\ values' = [values EXCEPT ![frame[t].req] = @ \cup {frame[t].i}]
        BY <1>2, <3>1, Framed DEF Store, At
      <4>2. QED BY <1>2, <4>1
    <3>2. CASE ~Store(t)
      BY <1>2, <1>6, <3>2 DEF RunCallback, CheckSent, Fail, CountDown, ClaimOk, Build, collected
    <3>3. QED BY <3>1, <3>2
  <2>5. QED BY <1>2, <2>1, <2>2, <2>3, <2>4 DEF Goto, SigLabels
<1>7. ASSUME UwsStep PROVE Flow'
  <2>1. CASE LookupHit \/ LookupMiss
    <3>1. /\ frame' = [frame EXCEPT !["uws"].i = @ + 1]
          /\ frame["uws"].req \in Requests /\ frame["uws"].i \in Nat
          /\ frame["uws"].i + 1 \in Index(frame["uws"].req)
      BY <1>2, <2>1, Framed, SigStatusesAssumption DEF LookupHit, LookupMiss, MoreKeys, Index
    <3>2. /\ \E label \in {"lookup", "check"} : pc' = [pc EXCEPT !["uws"] = label]
          /\ UNCHANGED <<claimed, values>>
      BY <1>2, <2>1 DEF LookupHit, LookupMiss, At, Goto, collected
    <3>3. /\ frame' \in [Threads -> Frame] /\ frame'["loop"] = frame["loop"]
          /\ frame'["uws"].i \in Index(frame'["uws"].req)
      BY <1>2, <3>1 DEF Frame
    <3>4. queued' \subseteq Callback
      BY <1>2, <2>1, <3>1, Framed DEF LookupHit, LookupMiss, Callback
    <3>5. QED BY <1>2, <3>2, <3>3, <3>4 DEF SigLabels
  <2>2. CASE LookupsDone
    BY <1>5, <2>2 DEF LookupsDone
  <2>3. QED BY <1>6, <1>7, <2>1, <2>2 DEF UwsStep
<1>8. ASSUME CoalCacheStep PROVE Flow'
  <2>1. ASSUME NEW c \in queued, NEW null \in BOOLEAN, Answer(c, null) PROVE Flow'
    <3>1. c[1] \in Requests /\ c[2] \in Index(c[1])
      BY <1>2 DEF Callback
    <3>2. /\ frame' \in [Threads -> Frame] /\ frame'["uws"] = frame["uws"]
          /\ frame'["loop"].i \in Index(frame'["loop"].req)
      BY <1>2, <1>3, <2>1, <3>1 DEF Answer, Frame
    <3>3. pc' = [pc EXCEPT !["loop"] = "check"] /\ queued' \subseteq queued
          /\ UNCHANGED <<claimed, values>>
      BY <2>1 DEF Answer, Goto, collected
    <3>4. QED BY <1>2, <3>2, <3>3 DEF SigLabels
  <2>2. QED BY <1>8, <2>1 DEF CoalCacheStep
<1>9. ASSUME NEW r \in Requests, Serve(r) PROVE Flow'
  <2>1. CASE UwsEvent(r)
    BY <1>4, <2>1 DEF UwsEvent
  <2>2. CASE Handle(r, "handler")
    <3>1. /\ frame' \in [Threads -> Frame] /\ frame'["loop"] = frame["loop"]
          /\ pc' = [pc EXCEPT !["uws"] = "handler"]
      BY <1>2, <1>3, <2>2 DEF Handle, Goto, Frame
    <3>2. QED BY <1>2, <2>2, <3>1 DEF Handle, collected
  <2>3. QED BY <1>9, <2>1, <2>2 DEF Serve
<1>10. ASSUME NEW r \in Requests, Handler(r) PROVE Flow'
  BY <1>5, <1>10 DEF Handler, NoRoute, Malformed, BadParams, Refuse, LookUpSignatures,
                     LookUpRequest, Forward, Fetch, HandOver, SigLabels
<1>11. ASSUME NEW r \in Requests, ProxyStep(r) PROVE Flow'
  BY <1>4, <1>5, <1>11 DEF ProxyStep, LookupDone, LookupLost, LookupCrash, Hit, Miss, Done, Stale,
                           Reply, CallAll, vars
<1>12. ASSUME CallNext PROVE Flow'
  <2>1. \E label \in {"idle", "calls"} : Goto("loop", label)
    BY <1>12 DEF CallNext
  <2>2. QED BY <1>5, <1>12, <2>1 DEF CallNext
<1>13. ASSUME \/ Start \/ Exit \/ Idle \/ UNCHANGED all_vars \/ SignatureStep(DeliverDeferred)
              \/ (\E r \in Requests, m \in Incoming : Arrive(r, m))
              \/ (\E r \in Requests : PostSignatures(r) \/ PostLookup(r))
              \/ \E e \in entries : Expire(e) \/ Clean(e)
       PROVE  Flow'
  BY <1>4, <1>13 DEF Start, Exit, Idle, SignatureStep, DeliverDeferred, Arrive, PostSignatures,
                     PostLookup, Posts, Expire, Clean, vars, all_vars
<1>14. Flow'
  <2> HIDE DEF Flow
  <2>1. QED
    BY <1>6, <1>7, <1>8, <1>9, <1>10, <1>11, <1>12, <1>13
    DEF DispatchNext, UwsThread, LoopThread, Event, SignatureStep
\* the requests
<1>15. ASSUME UNCHANGED <<what, waiting, calls, lost>> PROVE Data'
  BY <1>2, <1>15
<1>16. ASSUME NEW r \in Requests, NEW m \in Incoming, Arrive(r, m) PROVE Data'
  BY <1>2, <1>16 DEF Arrive, Fetching
<1>17. ASSUME NEW r \in Requests, Handler(r) PROVE Data'
  BY <1>2, <1>17 DEF Handler, NoRoute, Malformed, BadParams, Refuse, LookUpSignatures,
                     LookUpRequest, Forward, Fetch, HandOver, dispatch_vars
<1>18. ASSUME NEW r \in Requests, NEW m \in Messages, CallAll(r, m) PROVE Data'
  BY <1>2, <1>18 DEF CallAll, Callbacks, WithKeyOf
<1>19. ASSUME NEW r \in Requests, ProxyStep(r) PROVE Data'
  <2>1. CASE LookupDone(r) \/ LookupLost(r) \/ LookupCrash(r) \/ Hit(r) \/ Miss(r)
    BY <1>2, <2>1 DEF LookupDone, LookupLost, LookupCrash, Hit, Miss, Done, Fetching
  <2>2. ASSUME NEW s \in Statuses, Stale(r, s) \/ \E reply \in Replies : Reply(r, s, reply)
        PROVE  Data'
    BY <1>18, <2>2, Saying, MessagesSent DEF Stale, Reply, EntriesOf
  <2>3. QED BY <1>19, <2>1, <2>2 DEF ProxyStep
<1>20. ASSUME CallNext PROVE Data'
  BY <1>2, <1>20 DEF CallNext, Options
<1>21. ASSUME \/ Start \/ Exit \/ Idle \/ UNCHANGED dispatch_vars
              \/ (\E r \in Requests : Serve(r) \/ PostSignatures(r) \/ PostLookup(r))
              \/ \E e \in entries : Expire(e) \/ Clean(e)
       PROVE  Data'
  BY <1>15, <1>21 DEF Start, Exit, Idle, Serve, PostSignatures, PostLookup, Posts, Expire, Clean,
                      Fetching, all_vars, dispatch_vars
<1>22. Data'
  <2> HIDE DEF Data
  <2>1. QED
    BY <1>16, <1>17, <1>19, <1>20, <1>21
    DEF DispatchNext, UwsThread, LoopThread, Event, SignatureStep, all_vars
<1>23. QED BY <1>1, <1>14, <1>22 DEF BaseType

-----------------------------------------------------------------------------
(* Who owes a response *)

\* q owes no more than before, and is only sent what was owed.
LEMMA OwnLess ==
  ASSUME DispatchInv, NEW q \in Requests,
         Signing(q)' => Signing(q), InHandler(q)' => InHandler(q), Waits(q)' => Waits(q),
         \A m \in Messages : <<q, m>> \in calls' => <<q, m>> \in calls,
         q \in handled' <=> q \in handled, claimed[q] => claimed'[q],
         \/ sent'[q] = sent[q]
         \/ Signing(q) /\ claimed'[q]
         \/ q \in handled /\ ~Signing(q) /\ ~InHandler(q)' /\ ~Waits(q)' /\ ~Called(q)'
  PROVE  OwnOf(q)'
<1>1. OwnOf(q)
  BY DEF DispatchInv, OwnInv
<1>2. Called(q)' => Called(q)
  BY DEF Called
<1>3. claimed[q] \in BOOLEAN
  BY DEF DispatchInv, BaseType
<1>4. QED BY <1>1, <1>2, <1>3 DEF OwnOf

\* The rest of them, when r is sent something.
LEMMA SentOthers ==
  ASSUME DispatchInv, NEW r \in Requests, sent[r] = <<>>, NEW t, NEW m, SendResponse(t, r, m)
  PROVE  handled' = handled /\ \A q \in Requests : q # r => sent'[q] = sent[q]
BY Sending DEF DispatchInv, BaseType, TypeInv, ServerTypeOK

\* A callback runs on, or is over; it sends what it has claimed.
LEMMA CallbackOwn ==
  ASSUME DispatchInv, NEW t \in Threads, RunCallback(t), UNCHANGED dispatch_vars
  PROVE  OwnInv'
<1> DEFINE r == frame[t].req
<1>1. r \in Requests /\ UNCHANGED <<frame, queued, waiting, calls>>
  BY Framed DEF DispatchInv, dispatch_vars, RunCallback, CheckSent, Fail, Store, CountDown,
                ClaimOk, Build
<1>2. /\ pc[t] \in SigLabels
      /\ \E label \in SigLabels \cup {"idle"} : Goto(t, label)
  BY DEF RunCallback, CheckSent, Fail, Store, CountDown, ClaimOk, Build, At, Return, SigLabels
<1>3. \A q \in Requests : claimed[q] => claimed'[q]
  BY <1>1 DEF DispatchInv, BaseType, RunCallback, CheckSent, Fail, Store, CountDown, ClaimOk,
              Build, Claim, collected
<1>4. \/ UNCHANGED server_vars
      \/ sent[r] = <<>> /\ claimed'[r] /\ \E m : SendResponse(t, r, m)
  <2>1. CASE Fail(t) /\ ClaimWon(t)
    <3>1. sent[r] = <<>>
      BY <1>1, <2>1 DEF Fail, At, ClaimWon, SigLabels, DispatchInv, OwnInv, OwnOf, Signing
    <3>2. claimed'[r]
      BY <1>1, <2>1 DEF Fail, Claim, DispatchInv, BaseType
    <3>3. QED BY <2>1, <3>1, <3>2 DEF Fail
  <2>2. CASE Build(t)
    BY <2>2 DEF Build, DispatchInv, BuildInv, collected
  <2>3. QED BY <2>1, <2>2 DEF RunCallback, CheckSent, Fail, Store, CountDown, ClaimOk
<1>5. handled' = handled /\ \A q \in Requests : sent'[q] = sent[q] \/ (q = r /\ claimed'[r])
  BY <1>1, <1>4, SentOthers DEF server_vars
<1>6. Signing(r)
  BY <1>1, <1>2 DEF Signing
<1> HIDE DEF r
<1>7. ASSUME NEW q \in Requests
      PROVE  /\ Signing(q)' => Signing(q)
             /\ InHandler(q)' => InHandler(q)
  BY <1>1, <1>2 DEF Signing, InHandler, At, Goto, SigLabels, DispatchInv, BaseType
<1>8. ASSUME NEW q \in Requests PROVE OwnOf(q)'
  BY <1>1, <1>3, <1>5, <1>6, <1>7, OwnLess DEF Waits
<1>9. QED BY <1>8 DEF OwnInv

\* The loop over the signatures, and the answers to its lookups.
LEMMA LookupOwn ==
  ASSUME DispatchInv, UNCHANGED dispatch_vars,
         LookupHit \/ LookupMiss \/ LookupsDone \/ CoalCacheStep
  PROVE  OwnInv'
<1>1. UNCHANGED <<server_vars, waiting, calls, claimed>>
  BY DEF LookupHit, LookupMiss, LookupsDone, CoalCacheStep, Answer, collected, dispatch_vars
<1>2. ASSUME NEW q \in Requests PROVE OwnOf(q)'
  BY <1>1, LookupSigning, OwnLess DEF Waits, server_vars
<1>3. QED BY <1>2 DEF OwnInv

\* The body of r is complete: the handler owes the response.
LEMMA ServeOwn ==
  ASSUME DispatchInv, NEW r \in Requests, Serve(r)
  PROVE  OwnInv'
<1>1. UNCHANGED <<queued, claimed, waiting, calls, sent>>
  BY DEF Serve, UwsEvent, Handle, Accept, Chunk, LastChunk, OnData, Abort, collected, dispatch_vars
<1>2. CASE UwsEvent(r)
  <2>1. UNCHANGED <<pc, frame, handled>>
    BY <1>2 DEF UwsEvent, Accept, Chunk, OnData, Abort
  <2>2. ASSUME NEW q \in Requests PROVE OwnOf(q)'
    BY <1>1, <2>1, OwnLess DEF Signing, InHandler, At, Waits
  <2>3. QED BY <2>2 DEF OwnInv
<1>3. CASE Handle(r, "handler")
  <2>1. /\ pc["uws"] = "idle" /\ pc'["uws"] = "handler" /\ pc'["loop"] = pc["loop"]
        /\ frame'["uws"].req = r /\ frame'["loop"] = frame["loop"]
    BY <1>3 DEF Handle, At, Goto, DispatchInv, BaseType
  <2>2. r \notin handled /\ handled' = handled \cup {r}
    BY <1>3 DEF Handle, LastChunk, OnData
  <2>3. \A q \in Requests : Signing(q)' => Signing(q)
    BY <1>1, <2>1 DEF Signing, SigLabels
  <2>4. ASSUME NEW q \in Requests, q # r PROVE OwnOf(q)'
    BY <1>1, <2>1, <2>2, <2>3, <2>4, OwnLess DEF InHandler, Waits
  <2>5. OwnOf(r)
    BY DEF DispatchInv, OwnInv
  <2>6. OwnOf(r)'
    BY <1>1, <2>2, <2>3, <2>5 DEF OwnOf, Waits, Called
  <2>7. QED BY <2>4, <2>6 DEF OwnInv
<1>4. QED BY <1>2, <1>3 DEF Serve

\* The handler answers r, begins with its signatures, or leaves r to the loop.
LEMMA HandlerOwn ==
  ASSUME DispatchInv, NEW r \in Requests, Handler(r)
  PROVE  OwnInv'
<1>1. /\ InHandler(r) /\ OwnOf(r)
      /\ UNCHANGED <<frame, queued, claimed, calls>>
  BY DEF Handler, NoRoute, Malformed, BadParams, LookUpSignatures, LookUpRequest, Forward, Fetch,
         ForSolana, Proxied, Refuse, HandOver, collected, dispatch_vars, DispatchInv, OwnInv
<1>2. PICK label \in {"idle", "lookup"} : Goto("uws", label)
  BY DEF Handler, NoRoute, Malformed, BadParams, LookUpSignatures, LookUpRequest, Forward, Fetch,
         Refuse, HandOver
<1>3. pc["uws"] = "handler" /\ pc'["uws"] = label /\ pc'["loop"] = pc["loop"]
  BY <1>1, <1>2 DEF InHandler, At, Goto, DispatchInv, BaseType
<1>4. \A q \in Requests : ~InHandler(q)'
  BY <1>3 DEF InHandler, At
<1>5. \A q \in Requests : Signing(q)' => Signing(q) \/ (q = r /\ label = "lookup")
  BY <1>1, <1>3 DEF Signing, SigLabels, InHandler
<1>6. r \in handled /\ sent[r] = <<>> /\ ~Signing(r) /\ ~Waits(r) /\ ~Called(r)
  BY <1>1 DEF OwnOf
<1>7. CASE NoRoute(r) \/ Malformed(r) \/ BadParams(r)
  <2>1. (\E m : SendResponse("uws", r, m)) /\ label = "idle" /\ UNCHANGED waiting
    BY <1>2, <1>3, <1>7 DEF NoRoute, Malformed, BadParams, Refuse, Goto, dispatch_vars, DispatchInv,
                      BaseType
  <2>2. handled' = handled /\ \A q \in Requests : q # r => sent'[q] = sent[q]
    BY <1>6, <2>1, SentOthers
  <2>3. ASSUME NEW q \in Requests PROVE OwnOf(q)'
    BY <1>1, <1>4, <1>5, <1>6, <2>1, <2>2, OwnLess DEF Waits, Called
  <2>4. QED BY <2>3 DEF OwnInv
<1>8. CASE LookUpSignatures(r)
  <2>1. UNCHANGED <<handled, sent, waiting>>
    BY <1>8 DEF LookUpSignatures, server_vars, dispatch_vars
  <2>2. ASSUME NEW q \in Requests, q # r PROVE OwnOf(q)'
    BY <1>1, <1>4, <1>5, <2>1, <2>2, OwnLess DEF Waits
  <2>3. OwnOf(r)'
    BY <1>1, <1>4, <1>6, <2>1 DEF OwnOf, Waits, Called
  <2>4. QED BY <2>2, <2>3 DEF OwnInv
<1>9. ASSUME NEW task, HandOver(r, task) PROVE OwnInv'
  <2>1. UNCHANGED <<handled, sent>> /\ label = "idle"
    BY <1>2, <1>3, <1>9 DEF HandOver, server_vars, Goto, DispatchInv, BaseType
  <2>2. \A q \in Requests : q # r => waiting'[q] = waiting[q]
    BY <1>9 DEF HandOver, DispatchInv, BaseType
  <2>3. ASSUME NEW q \in Requests, q # r PROVE OwnOf(q)'
    BY <1>1, <1>4, <1>5, <2>1, <2>2, <2>3, OwnLess DEF Waits
  <2>4. OwnOf(r)'
    BY <1>1, <1>4, <1>5, <1>6, <2>1 DEF OwnOf, Called
  <2>5. QED BY <2>3, <2>4 DEF OwnInv
<1>10. QED
  BY <1>7, <1>8, <1>9 DEF Handler, LookUpRequest, Forward, Fetch

\* The loop thread answers r, has it wait on, or takes up the calls.
LEMMA ProxyOwn ==
  ASSUME DispatchInv, NEW r \in Requests, ProxyStep(r)
  PROVE  OwnInv'
<1>1. waiting[r] # "none" /\ At("loop", "idle") /\ UNCHANGED <<frame, queued, claimed>>
  BY DEF ProxyStep, LookupDone, LookupLost, LookupCrash, Hit, Miss, Stale, Reply, LoopTurn, Done,
         CallAll, collected, vars
<1>2. r \in handled /\ sent[r] = <<>> /\ ~Signing(r) /\ ~InHandler(r) /\ ~Called(r) /\ OwnOf(r)
  BY <1>1 DEF DispatchInv, OwnInv, OwnOf, Waits
<1>3. waiting \in [Requests -> {"none", "job", "post", "join", "lookup"}]
  BY DEF DispatchInv, BaseType
<1>4. ASSUME NEW m, Done(r, m) PROVE OwnInv'
  <2>1. handled' = handled /\ \A q \in Requests : q # r => sent'[q] = sent[q]
    BY <1>2, <1>4, SentOthers DEF Done
  <2>2. UNCHANGED <<pc, calls>> /\ waiting' = [waiting EXCEPT ![r] = "none"]
    BY <1>4 DEF Done
  <2>3. \A q \in Requests : /\ Signing(q)' => Signing(q)
                            /\ InHandler(q)' => InHandler(q)
    BY <1>1, <2>2 DEF Signing, InHandler, At
  <2>4. ASSUME NEW q \in Requests, q # r PROVE OwnOf(q)'
    BY <1>1, <1>3, <2>1, <2>2, <2>3, <2>4, OwnLess DEF Waits
  <2>5. ~InHandler(r)' /\ ~Waits(r)' /\ ~Called(r)'
    BY <1>2, <1>3, <2>2, <2>3 DEF Waits, Called
  <2>6. OwnOf(r)'
    BY <1>1, <1>2, <2>1, <2>2, <2>3, <2>5, OwnLess
  <2>7. QED BY <2>4, <2>6 DEF OwnInv
<1>5. CASE LookupLost(r) \/ LookupCrash(r) \/ Miss(r)
  <2>1. /\ UNCHANGED <<pc, handled, sent, calls>>
        /\ UNCHANGED waiting \/ \E task : waiting' = [waiting EXCEPT ![r] = task]
    BY <1>5 DEF LookupLost, LookupCrash, Miss, Fetching, vars, server_vars
  <2>2. \A q \in Requests : Waits(q)' => Waits(q)
    BY <1>1, <1>3, <2>1 DEF Waits
  <2>3. ASSUME NEW q \in Requests PROVE OwnOf(q)'
    BY <1>1, <2>1, <2>2, OwnLess DEF Signing, InHandler, At
  <2>4. QED BY <2>3 DEF OwnInv
<1>6. ASSUME NEW m, CallAll(r, m) PROVE OwnInv'
  <2>1. /\ UNCHANGED <<handled, sent>> /\ calls' = Callbacks(r) \X {m}
        /\ \A q \in Requests : waiting'[q] = IF q \in Callbacks(r) THEN "none" ELSE waiting[q]
        /\ pc'["uws"] = pc["uws"] /\ pc'["loop"] = "calls"
    BY <1>6 DEF CallAll, server_vars, Goto, DispatchInv, BaseType
  <2>2. \A q \in Requests : /\ Signing(q)' => Signing(q)
                            /\ InHandler(q)' => InHandler(q)
    BY <1>1, <2>1 DEF Signing, InHandler, At, SigLabels
  <2>3. \A q \in Callbacks(r) : q \in Requests /\ Waits(q)
    BY <1>1 DEF Callbacks, WithKeyOf, Waits
  <2>4. ASSUME NEW q \in Requests, q \notin Callbacks(r) PROVE OwnOf(q)'
    BY <1>1, <2>1, <2>2, <2>4, OwnLess DEF Waits
  <2>5. ASSUME NEW q \in Requests, q \in Callbacks(r) PROVE OwnOf(q)'
    <3>1. OwnOf(q) /\ Waits(q)
      BY <2>3, <2>5 DEF DispatchInv, OwnInv
    <3>2. ~Waits(q)' /\ \A n, l \in Messages : <<q, n>> \in calls' /\ <<q, l>> \in calls' => n = l
      BY <2>1, <2>5 DEF Waits
    <3>3. q \in handled' /\ sent'[q] = <<>> /\ ~Signing(q)' /\ ~InHandler(q)'
      BY <2>1, <2>2, <3>1 DEF OwnOf
    <3>4. QED BY <3>2, <3>3 DEF OwnOf
  <2>6. QED BY <2>4, <2>5 DEF OwnInv
<1>7. QED
  BY <1>4, <1>5, <1>6 DEF ProxyStep, LookupDone, Hit, Stale, Reply

\* The next callback is called.
LEMMA CallOwn ==
  ASSUME DispatchInv, CallNext
  PROVE  OwnInv'
<1>1. PICK r \in Requests, m \in Messages :
        /\ <<r, m>> \in calls /\ SendResponse("loop", r, m) /\ calls' = calls \ {<<r, m>>}
  BY DEF CallNext, DispatchInv, BaseType
<1>2. OwnOf(r) /\ Called(r)
  BY <1>1 DEF DispatchInv, OwnInv, Called
<1>3. r \in handled /\ sent[r] = <<>> /\ ~Signing(r) /\ ~InHandler(r) /\ ~Waits(r)
  BY <1>2 DEF OwnOf
<1>4. handled' = handled /\ \A q \in Requests : q # r => sent'[q] = sent[q]
  BY <1>1, <1>3, SentOthers
<1>5. /\ UNCHANGED <<frame, queued, claimed, waiting>>
      /\ pc'["uws"] = pc["uws"] /\ pc'["loop"] \notin SigLabels
  BY DEF CallNext, collected, Goto, DispatchInv, BaseType, SigLabels
<1>6. \A q \in Requests : /\ Signing(q)' => Signing(q)
                          /\ InHandler(q)' => InHandler(q)
                          /\ Waits(q)' => Waits(q)
  BY <1>5 DEF Signing, InHandler, At, Waits
<1>7. ~Called(r)'
  BY <1>1, <1>2 DEF Called, OwnOf
<1>8. ASSUME NEW q \in Requests PROVE OwnOf(q)'
  BY <1>1, <1>3, <1>4, <1>5, <1>6, <1>7, OwnLess
<1>9. QED BY <1>8 DEF OwnInv

LEMMA OwnKept ==
  ASSUME DispatchInv, [DispatchNext]_all_vars
  PROVE  OwnInv'
<1>1. ASSUME UNCHANGED <<pc, frame, queued, claimed, waiting, calls, handled, sent>>
      PROVE  OwnInv'
  <2>1. ASSUME NEW q \in Requests PROVE OwnOf(q)'
    BY <1>1, OwnLess DEF Signing, InHandler, At, Waits
  <2>2. QED BY <2>1 DEF OwnInv
<1>2. CASE SignatureStep(DeliverDeferred)
  BY <1>1, <1>2 DEF SignatureStep, DeliverDeferred, RunDeferred, collected, dispatch_vars
<1>3. CASE SignatureStep(UwsStep) \/ SignatureStep(LoopStep)
  BY <1>3, CallbackOwn, LookupOwn DEF SignatureStep, UwsStep, LoopStep, CoalCacheStep
<1>4. ASSUME NEW r \in Requests, NEW m \in Incoming, Arrive(r, m) PROVE OwnInv'
  BY <1>1, <1>4 DEF Arrive, Accept, collected, Fetching
<1>5. ASSUME \/ Start \/ Exit \/ Idle \/ UNCHANGED all_vars
             \/ (\E r \in Requests : PostSignatures(r) \/ PostLookup(r))
             \/ \E e \in entries : Expire(e) \/ Clean(e)
      PROVE  OwnInv'
  BY <1>1, <1>5 DEF Start, Exit, Idle, PostSignatures, PostLookup, Posts, Expire, Clean, Fetching,
                    vars, server_vars, collected, all_vars, dispatch_vars
<1>6. QED
  BY <1>2, <1>3, <1>4, <1>5, ServeOwn, HandlerOwn, ProxyOwn, CallOwn
  DEF DispatchNext, UwsThread, LoopThread, Event, SignatureStep, LoopStep

-----------------------------------------------------------------------------
(* Who builds a response *)

\* Nobody begins to build, and nothing is sent where a response is being built.
LEMMA BuildLess ==
  ASSUME DispatchInv,
         \A t \in Threads : pc'[t] = "build" =>
           pc[t] = "build" /\ frame'[t].req = frame[t].req,
         \A t \in Threads : pc'[t] = "build" =>
           claimed'[frame[t].req] /\ sent'[frame[t].req] = sent[frame[t].req]
  PROVE  BuildInv'
BY DEF DispatchInv, BuildInv, At

LEMMA CallbackBuild ==
  ASSUME DispatchInv, NEW t \in Threads, RunCallback(t)
  PROVE  BuildInv'
<1> DEFINE r == frame[t].req
<1>1. r \in Requests /\ UNCHANGED frame /\ \A u \in Threads : frame[u].req \in Requests
  BY Framed DEF DispatchInv, RunCallback, CheckSent, Fail, Store, CountDown, ClaimOk, Build
<1>2. /\ pc[t] \in SigLabels
      /\ \A u \in Threads : u # t => pc'[u] = pc[u]
  BY DEF RunCallback, CheckSent, Fail, Store, CountDown, ClaimOk, Build, At, Return, Goto,
         SigLabels, DispatchInv, BaseType
<1>3. \A q \in Requests : claimed[q] => claimed'[q]
  BY <1>1 DEF DispatchInv, BaseType, RunCallback, CheckSent, Fail, Store, CountDown, ClaimOk,
              Build, Claim, collected
<1>4. \A u \in Threads : pc[u] = "build" => claimed[frame[u].req] /\ sent[frame[u].req] = <<>>
  BY DEF DispatchInv, BuildInv, At
<1>5. CASE Fail(t)
  <2>1. pc'[t] # "build"
    BY <1>5 DEF Fail, Return, Goto, DispatchInv, BaseType
  <2>2. CASE ClaimWon(t)
    <3>1. sent[r] = <<>> /\ SendResponse(t, r, BadGateway) /\ ~claimed[r]
      BY <1>1, <1>5, <2>2 DEF Fail, At, ClaimWon, SigLabels, DispatchInv, OwnInv, OwnOf, Signing
    <3>2. \A q \in Requests : q # r => sent'[q] = sent[q]
      BY <1>1, <3>1, SentOthers
    <3> HIDE DEF r
    <3>3. QED BY <1>1, <1>2, <1>3, <1>4, <2>1, <3>1, <3>2, BuildLess
  <2>3. CASE ~ClaimWon(t)
    <3>1. UNCHANGED sent
      BY <1>5, <2>3 DEF Fail, server_vars
    <3>2. QED BY <1>1, <1>2, <1>3, <1>4, <2>1, <3>1, BuildLess
  <2>4. QED BY <2>2, <2>3
<1>6. CASE Build(t)
  <2>1. pc'[t] # "build" /\ pc[t] = "build"
    BY <1>6 DEF Build, At, Return, Goto, DispatchInv, BaseType
  <2>2. sent[r] = <<>> /\ \E m : SendResponse(t, r, m)
    BY <1>4, <1>6, <2>1 DEF Build
  <2>3. \A q \in Requests : q # r => sent'[q] = sent[q]
    BY <1>1, <2>2, SentOthers
  <2>4. \A u \in Threads \ {t} : pc[u] = "build" => frame[u].req # r
    BY <2>1 DEF DispatchInv, BuildInv, At
  <2> HIDE DEF r
  <2>5. QED BY <1>1, <1>2, <1>3, <1>4, <2>1, <2>3, <2>4, BuildLess
<1>7. CASE ClaimOk(t)
  <2>1. UNCHANGED sent /\ pc[t] = "claim"
    BY <1>7 DEF ClaimOk, At, server_vars
  <2>2. CASE ClaimWon(t)
    <3>1. ~claimed[r] /\ claimed'[r]
      BY <1>1, <1>7, <2>2 DEF ClaimOk, Claim, ClaimWon, DispatchInv, BaseType
    <3>2. sent[r] = <<>>
      BY <1>1, <1>2, <3>1 DEF DispatchInv, OwnInv, OwnOf, Signing
    <3>3. \A u \in Threads \ {t} : pc[u] = "build" => frame[u].req # r
      BY <1>4, <3>1
    <3> HIDE DEF r
    <3>4. \A u, v \in Threads : u # v /\ pc'[u] = "build" /\ pc'[v] = "build"
                                  => frame[u].req # frame[v].req
      <4>1. \A u, v \in Threads : u # v /\ pc[u] = "build" /\ pc[v] = "build"
                                    => frame[u].req # frame[v].req
        BY DEF DispatchInv, BuildInv, At
      <4>2. QED BY <1>2, <3>3, <4>1 DEF r
    <3>5. \A u \in Threads : pc'[u] = "build" =>
            claimed'[frame[u].req] /\ sent[frame[u].req] = <<>>
      BY <1>1, <1>2, <1>3, <1>4, <3>1, <3>2 DEF r
    <3>6. QED BY <1>1, <2>1, <3>4, <3>5 DEF BuildInv, At
  <2>3. CASE ~ClaimWon(t)
    <3>1. pc'[t] # "build"
      BY <1>7, <2>3 DEF ClaimOk, Return, Goto, DispatchInv, BaseType
    <3>2. QED BY <1>1, <1>2, <1>3, <1>4, <2>1, <3>1, BuildLess
  <2>4. QED BY <2>2, <2>3
<1>8. CASE CheckSent(t) \/ Store(t) \/ CountDown(t)
  <2>1. pc'[t] # "build" /\ UNCHANGED sent
    BY <1>8 DEF CheckSent, Store, CountDown, Return, Goto, server_vars, DispatchInv, BaseType
  <2>2. QED BY <1>1, <1>2, <1>3, <1>4, <2>1, BuildLess
<1>9. QED BY <1>5, <1>6, <1>7, <1>8 DEF RunCallback

\* The other steps send to a request whose signatures nobody is at.
LEMMA BuildElsewhere ==
  ASSUME DispatchInv, UNCHANGED claimed,
         \A t \in Threads : pc'[t] = "build" =>
           pc[t] = "build" /\ frame'[t].req = frame[t].req,
         \/ UNCHANGED sent
         \/ \E r \in Requests : \E t, m :
              sent[r] = <<>> /\ ~Signing(r) /\ SendResponse(t, r, m)
  PROVE  BuildInv'
<1>1. ASSUME NEW t \in Threads, pc[t] = "build"
      PROVE  /\ claimed[frame[t].req]
             /\ frame[t].req \in Requests /\ Signing(frame[t].req)
  BY <1>1, Framed DEF DispatchInv, BuildInv, At, Signing, SigLabels
<1>2. CASE UNCHANGED sent
  BY <1>1, <1>2, BuildLess
<1>3. ASSUME NEW r \in Requests, NEW t, NEW m, sent[r] = <<>>, ~Signing(r), SendResponse(t, r, m)
      PROVE  BuildInv'
  <2>1. \A q \in Requests : q # r => sent'[q] = sent[q]
    BY <1>3, SentOthers
  <2>2. QED BY <1>1, <1>3, <2>1, BuildLess
<1>4. QED BY <1>2, <1>3

LEMMA BuildKept ==
  ASSUME DispatchInv, [DispatchNext]_all_vars
  PROVE  BuildInv'
<1> DEFINE Kept1 == /\ UNCHANGED claimed
                    /\ \A t \in Threads : pc'[t] = "build" =>
                         pc[t] = "build" /\ frame'[t].req = frame[t].req
           Told == \E r \in Requests : \E t, m :
                     sent[r] = <<>> /\ ~Signing(r) /\ SendResponse(t, r, m)
<1>1. ASSUME NEW r \in Requests, InHandler(r) \/ waiting[r] # "none" \/ Called(r)
      PROVE  sent[r] = <<>> /\ ~Signing(r)
  BY <1>1 DEF DispatchInv, OwnInv, OwnOf, Waits
<1>2. pc \in [Threads -> SigLabels \cup {"idle", "handler", "calls"}]
  BY DEF DispatchInv, BaseType
<1>3. CASE SignatureStep(UwsStep) \/ SignatureStep(LoopStep)
  <2>1. CASE LookupHit \/ LookupMiss \/ LookupsDone
    <3>1. Kept1 /\ UNCHANGED sent
      BY <1>2, <2>1 DEF LookupHit, LookupMiss, LookupsDone, At, Goto, server_vars, collected,
                        DispatchInv, BaseType, Frame
    <3>2. QED BY <3>1, BuildElsewhere
  <2>2. ASSUME NEW c \in queued, NEW null \in BOOLEAN, Answer(c, null)
        PROVE  Kept1 /\ UNCHANGED sent
    BY <1>2, <2>2 DEF Answer, At, Goto, server_vars, collected, DispatchInv, BaseType, Frame
  <2>3. QED
    BY <1>3, <2>1, <2>2, CallbackBuild, BuildElsewhere
    DEF SignatureStep, UwsStep, LoopStep, CoalCacheStep
<1>4. ASSUME UNCHANGED <<pc, frame, collected>> PROVE Kept1
  BY <1>4 DEF collected
<1>5. CASE SignatureStep(DeliverDeferred)
  BY <1>4, <1>5, BuildElsewhere DEF SignatureStep, DeliverDeferred, RunDeferred
<1>6. ASSUME NEW r \in Requests, Serve(r) PROVE Kept1 /\ UNCHANGED sent
  BY <1>2, <1>6 DEF Serve, UwsEvent, Handle, Accept, Chunk, LastChunk, OnData, Abort, At, Goto,
                    collected, DispatchInv, BaseType
<1>7. ASSUME NEW r \in Requests, Handler(r) PROVE Kept1 /\ (UNCHANGED sent \/ Told)
  <2>1. InHandler(r) /\ UNCHANGED <<frame, collected>>
    BY <1>7 DEF Handler, NoRoute, Malformed, BadParams, LookUpSignatures, LookUpRequest, Forward,
                Fetch, ForSolana, Proxied, Refuse, HandOver, dispatch_vars
  <2>2. Kept1
    BY <1>2, <1>7, <2>1 DEF Handler, NoRoute, Malformed, BadParams, LookUpSignatures,
              LookUpRequest, Forward, Fetch, Refuse, HandOver, Goto, collected
  <2>3. UNCHANGED sent \/ \E m : SendResponse("uws", r, m)
    BY <1>7 DEF Handler, NoRoute, Malformed, BadParams, LookUpSignatures, LookUpRequest, Forward,
                Fetch, Refuse, HandOver, server_vars
  <2>4. QED BY <1>1, <2>1, <2>2, <2>3
<1>8. ASSUME NEW r \in Requests, ProxyStep(r) PROVE Kept1 /\ (UNCHANGED sent \/ Told)
  <2>1. waiting[r] # "none" /\ UNCHANGED <<frame, collected>>
    BY <1>8 DEF ProxyStep, LookupDone, LookupLost, LookupCrash, Hit, Miss, Stale, Reply, LoopTurn,
                Done, CallAll, vars
  <2>2. Kept1
    BY <1>2, <1>8, <2>1 DEF ProxyStep, LookupDone, LookupLost, LookupCrash, Hit, Miss, Stale,
                            Reply, Done, CallAll, Goto, collected, vars
  <2>3. UNCHANGED sent \/ \E m : SendResponse("loop", r, m)
    BY <1>8 DEF ProxyStep, LookupDone, LookupLost, LookupCrash, Hit, Miss, Stale, Reply, Done,
                CallAll, vars, server_vars
  <2>4. QED BY <1>1, <2>1, <2>2, <2>3
<1>9. CASE CallNext
  <2>1. PICK r \in Requests, m \in Messages : <<r, m>> \in calls /\ SendResponse("loop", r, m)
    BY <1>9 DEF CallNext, DispatchInv, BaseType
  <2>2. Told
    BY <1>1, <2>1 DEF Called
  <2>3. Kept1
    BY <1>2, <1>9 DEF CallNext, Goto, collected
  <2>4. QED BY <2>2, <2>3, BuildElsewhere
<1>10. ASSUME \/ Start \/ Exit \/ Idle \/ UNCHANGED all_vars
              \/ (\E r \in Requests, m \in Incoming : Arrive(r, m))
              \/ (\E r \in Requests : PostSignatures(r) \/ PostLookup(r))
              \/ \E e \in entries : Expire(e) \/ Clean(e)
       PROVE  Kept1 /\ UNCHANGED sent
  BY <1>4, <1>10 DEF Start, Exit, Idle, Arrive, Accept, PostSignatures, PostLookup, Posts, Expire,
                     Clean, vars, server_vars, all_vars
<1>11. Kept1 /\ (UNCHANGED sent \/ Told) => BuildInv'
  BY BuildElsewhere
<1> HIDE DEF Kept1, Told
<1>12. QED
  BY <1>3, <1>5, <1>6, <1>7, <1>8, <1>9, <1>10, <1>11
  DEF DispatchNext, UwsThread, LoopThread, Event, SignatureStep, LoopStep

-----------------------------------------------------------------------------
(* The invariant holds. *)

LEMMA DispatchInitially == DispatchInit => DispatchInv
<1> SUFFICES ASSUME DispatchInit PROVE DispatchInv
  OBVIOUS
<1>1. /\ \A r \in Requests : res[r] = "none" /\ sent[r] = <<>>
      /\ handled = {} /\ queued = {} /\ calls = {} /\ \A t \in Threads : pc[t] = "idle"
      /\ \A r \in Requests : waiting[r] = "none" /\ posted[r] = NotPosted
  BY DEF DispatchInit, Init, ServerInit
<1>2. BaseType
  <2>1. TypeInv /\ ResInv
    BY TypeInitially, ResInitially DEF DispatchInit, Init
  <2>2. frame \in [Threads -> Frame]
    <3>1. frame \in [Threads -> {[req |-> r, i |-> 0, null |-> FALSE] : r \in Requests}]
      BY DEF DispatchInit, Init
    <3>2. \A r \in Requests : [req |-> r, i |-> 0, null |-> FALSE] \in Frame
      BY DEF Frame
    <3>3. QED BY <3>1, <3>2
  <2>3. QED BY <1>1, <2>1, <2>2 DEF DispatchInit, Init, BaseType
<1>3. RoutesInv
  BY <1>1 DEF DispatchInit, RoutesInv
<1>4. OwnInv
  BY <1>1 DEF OwnInv, OwnOf, Signing, SigLabels, InHandler, At, Waits, Called
<1>5. BuildInv
  BY <1>1 DEF BuildInv, At
<1>6. WaitInv
  BY <1>1 DEF DispatchInit, WaitInv, Signing, SigLabels
<1>7. EntriesInv
  BY DEF DispatchInit, EntriesInv
<1>8. AnswersInv
  BY <1>1 DEF AnswersInv, SentTo
<1>9. QED BY <1>2, <1>3, <1>4, <1>5, <1>6, <1>7, <1>8 DEF DispatchInv

LEMMA DispatchKept == DispatchInv /\ [DispatchNext]_all_vars => DispatchInv'
BY BaseTypeKept, RoutesKept, OwnKept, BuildKept, WaitKept, EntriesKept, AnswersKept DEF DispatchInv

LEMMA DispatchAlways == DispatchSpec => []DispatchInv
BY DispatchInitially, DispatchKept, PTL DEF DispatchSpec

\* main()'s handler is a handler in the sense of the server: whatever becomes of a
\* request, it is responded to once (server.hpp:26).
THEOREM DispatchKeepsRule == DispatchSpec => KeepsServerRule
<1>1. DispatchInit => ServerInit
  BY DEF DispatchInit, Init
<1>2. QED BY <1>1, ServerStep, DispatchAlways, PTL DEF DispatchSpec, KeepsServerRule, ServerSpec

\* So no response object is used after uWS has freed it (server.hpp:19).
THEOREM DispatchResponsesSafe == DispatchSpec => []ResUsedWhileLive
BY DispatchKeepsRule, NeverUsedAfterFree, PTL DEF KeepsServerRule

-----------------------------------------------------------------------------
(* The route table *)

Prefix(spec) == Last(Given(spec, "prefix"))
Upstream(spec) == Last(Given(spec, "upstream"))

LEMMA LastOf ==
  ASSUME NEW S, NEW s \in Seq(S), s # <<>>
  PROVE  Last(s) \in S
<1>1. Len(s) \in 1..Len(s)
  BY EmptySeq
<1>2. QED BY <1>1, ElementOfSeq DEF Last

\* What a valid --route option says.
LEMMA SpecFacts ==
  ASSUME NEW i \in DOMAIN RouteSpecs, ValidSpec(RouteSpecs[i])
  PROVE  /\ RouteSpecs[i] \in Specs
         /\ Prefix(RouteSpecs[i]) \in Seq(STRING) /\ Prefix(RouteSpecs[i]) # <<>>
         /\ Upstream(RouteSpecs[i]) \in Seq(STRING)
         /\ Last(Given(RouteSpecs[i], "kind")) \in CacheKinds
         /\ Given(RouteSpecs[i], "header") \in Seq(STRING)
<1> DEFINE s == RouteSpecs[i]
<1>1. s \in Specs
  BY DEF Specs
<1>2. /\ Given(s, "prefix") \in Seq(Seq(STRING)) /\ Given(s, "upstream") \in Seq(Seq(STRING))
      /\ Given(s, "kind") \in Seq(STRING) /\ Given(s, "header") \in Seq(STRING)
  BY <1>1, RouteSpecsAssumption
<1>3. /\ Given(s, "prefix") # <<>> /\ Given(s, "upstream") # <<>> /\ Given(s, "kind") # <<>>
      /\ \A j \in DOMAIN Given(s, "kind") : Given(s, "kind")[j] \in CacheKinds
      /\ Prefix(s) # <<>>
  <2>1. ValidSpec(s)
    OBVIOUS
  <2> HIDE DEF s
  <2>2. \A key \in Required : Given(s, key) # <<>>
    BY <2>1 DEF ValidSpec
  <2>3. \A j \in DOMAIN Given(s, "kind") : Given(s, "kind")[j] \in CacheKinds
    BY <2>1 DEF ValidSpec
  <2>4. Last(Given(s, "prefix")) # <<>>
    BY <2>1 DEF ValidSpec
  <2>5. QED BY <2>2, <2>3, <2>4 DEF Required, Prefix
<1> HIDE DEF s
<1>4. Prefix(s) \in Seq(STRING) /\ Upstream(s) \in Seq(STRING)
  BY <1>2, <1>3, LastOf DEF Prefix, Upstream
<1>5. Last(Given(s, "kind")) \in CacheKinds
  <2>1. Len(Given(s, "kind")) \in DOMAIN Given(s, "kind")
    BY <1>2, <1>3, EmptySeq
  <2>2. QED BY <1>3, <2>1 DEF Last
<1>6. QED BY <1>1, <1>2, <1>3, <1>4, <1>5 DEF s

\* A route matches the paths that its prefix is on.
LEMMA MatchesIsOn ==
  ASSUME NEW route, route.prefix \in Seq(STRING), route.prefix # <<>>,
         NEW path \in Seq(STRING)
  PROVE  Matches(route, path) <=> On(route.prefix, path)
<1> DEFINE p == route.prefix
           n == Len(p)
<1>1. p \in Seq(STRING) /\ n \in Nat \ {0} /\ Len(path) \in Nat
  BY EmptySeq, LenProperties
<1>2. SubSeq(p, 1, n) = p
  BY <1>1, SubSeqFull
<1>3. Matches(route, path) <=> /\ n <= Len(path) /\ SubSeq(p, 1, n) = SubSeq(path, 1, n)
                               /\ Len(path) > n => path[n + 1] = "/" \/ path[n] = "/"
  BY DEF Matches, IsPrefix
<1>4. ASSUME NEW i \in 1..Len(path), p = SubSeq(path, 1, i) PROVE i = n
  <2>1. \A j \in 1..i : path[j] \in STRING
    BY <1>1, ElementOfSeq
  <2>2. Len(SubSeq(path, 1, i)) = i
    BY <1>1, <2>1, SubSeqProperties
  <2>3. QED BY <1>4, <2>2
<1> HIDE DEF p, n
<1>5. Matches(route, path) => On(p, path)
  BY <1>1, <1>2, <1>3 DEF On
<1>6. On(p, path) => Matches(route, path)
  <2> SUFFICES ASSUME NEW i \in 1..Len(path), p = SubSeq(path, 1, i),
                      i = Len(path) \/ "/" \in {path[i], path[i + 1]}
               PROVE  Matches(route, path)
    BY DEF On
  <2>1. i = n
    BY <1>4
  <2>2. QED BY <1>1, <1>2, <1>3, <2>1
<1>7. QED BY <1>5, <1>6 DEF p

\* match() finds a route that is on the path, and no longer one is.
LEMMA MatchIsBest ==
  ASSUME NEW table, DOMAIN table \subseteq Nat, NEW path, match(table, path) # 0
  PROVE  LET i == match(table, path)
         IN  /\ i \in DOMAIN table /\ Matches(table[i], path)
             /\ \A j \in DOMAIN table : Matches(table[j], path) => ~Longer(table[j], table[i])
<1> DEFINE on == {i \in DOMAIN table : Matches(table[i], path)}
           best == {i \in on : \A j \in on : ~Longer(table[j], table[i])}
<1>1. best # {} /\ match(table, path) = Min(best)
  BY DEF match
<1>2. best \in SUBSET Nat
  OBVIOUS
<1> HIDE DEF best
<1>3. Min(best) \in best
  BY <1>1, <1>2, LeastExists DEF Min
<1>4. QED BY <1>1, <1>3 DEF best

\* The URL is cut off behind the last piece that is no slash.
LEMMA TrimmedAt ==
  ASSUME NEW url \in Seq(STRING)
  PROVE  \E n \in 0..Len(url) : /\ TrimSlashes(url) = SubSeq(url, 1, n)
                                /\ n > 0 => url[n] # "/"
                                /\ \A j \in n + 1..Len(url) : url[j] = "/"
<1> DEFINE kept == {n \in 0..Len(url) : n = 0 \/ url[n] # "/"}
           cut == {Len(url) - n : n \in kept}
<1>1. Len(url) \in Nat
  BY LenProperties
<1>2. cut \in SUBSET Nat /\ cut # {}
  <2>1. 0 \in kept
    BY <1>1
  <2>2. QED BY <1>1, <2>1
<1>3. PICK least \in cut : \A c \in cut : least <= c
  BY <1>2, LeastExists
<1>4. PICK x \in kept : least = Len(url) - x
  BY <1>3
<1>5. ASSUME NEW m \in kept PROVE m <= x
  <2>1. m \in Nat /\ x \in Nat
    BY <1>1
  <2>2. least <= Len(url) - m
    BY <1>3
  <2>3. QED BY <1>1, <1>4, <2>1, <2>2
<1>6. PICK n : n = CHOOSE k \in kept : \A m \in kept : m <= k
  OBVIOUS
<1>7. n \in kept /\ \A m \in kept : m <= n
  BY <1>5, <1>6
<1>8. TrimSlashes(url) = SubSeq(url, 1, n)
  BY <1>6 DEF TrimSlashes
<1>9. ASSUME NEW j \in n + 1..Len(url) PROVE url[j] = "/"
  <2>1. j \in 0..Len(url) /\ ~(j <= n)
    BY <1>1, <1>7
  <2>2. QED BY <1>7, <2>1
<1>10. n \in 0..Len(url) /\ (n > 0 => url[n] # "/")
  BY <1>1, <1>7
<1>11. QED BY <1>8, <1>9, <1>10

\* The table that the server has once it is serving.
LEMMA TableFacts ==
  ASSUME DispatchInv, NEW i \in DOMAIN routes
  PROVE  /\ DOMAIN routes = DOMAIN RouteSpecs
         /\ routes = [j \in DOMAIN RouteSpecs |-> parse_route(RouteSpecs[j])]
         /\ \A j \in DOMAIN RouteSpecs : ValidSpec(RouteSpecs[j])
<1>1. routes # <<>>
  OBVIOUS
<1>2. QED BY <1>1 DEF DispatchInv, RoutesInv

LEMMA KnownPath ==
  ASSUME DispatchInv, NEW r \in Requests, Known(r)
  PROVE  what[r] \in Incoming /\ what[r].path \in Seq(STRING) /\ what[r].body \in Bodies
BY DispatchAssumption DEF DispatchInv, RoutesInv, Known, IncomingType

\* Behind a base URL without its slashes comes what is left of a path behind its
\* prefix, which begins with a slash.
LEMMA SeamHasSlash ==
  ASSUME NEW base \in Seq(STRING), NEW n \in 0..Len(base), BareLength(base, n),
         NEW prefix \in Seq(STRING), NEW path \in Seq(STRING), On(prefix, path)
  PROVE  Joins(SubSeq(base, 1, n) \o SubSeq(path, Len(prefix) + 1, Len(path)),
               base, prefix, path)
<1> DEFINE front == SubSeq(base, 1, n)
           k == Len(prefix)
           rest == SubSeq(path, k + 1, Len(path))
           url == front \o rest
<1>1. PICK i \in 1..Len(path) : /\ prefix = SubSeq(path, 1, i)
                                /\ i = Len(path) \/ "/" \in {path[i], path[i + 1]}
  BY DEF On
<1>2. Len(path) \in Nat /\ Len(base) \in Nat /\ n \in Nat
  BY LenProperties
<1>3. k = i /\ prefix[i] = path[i] /\ k \in 1..Len(path)
  <2>1. \A j \in 1..i : path[j] \in STRING
    BY <1>2, ElementOfSeq
  <2>2. Len(SubSeq(path, 1, i)) = i /\ SubSeq(path, 1, i)[i] = path[i]
    BY <1>2, <2>1, SubSeqProperties
  <2>3. QED BY <1>1, <2>2
<1>4. front \in Seq(STRING) /\ Len(front) = n
  <2>1. \A j \in 1..n : base[j] \in STRING
    BY <1>2, ElementOfSeq
  <2>2. QED BY <1>2, <2>1, SubSeqProperties
<1> HIDE DEF front, k
<1>5. /\ rest \in Seq(STRING)
      /\ Len(rest) = IF k + 1 <= Len(path) THEN Len(path) - k ELSE 0
      /\ Len(path) > k => rest[1] = path[k + 1]
  <2>1. \A j \in k + 1..Len(path) : path[j] \in STRING
    BY <1>2, <1>3, ElementOfSeq
  <2>2. /\ rest \in Seq(STRING)
        /\ Len(rest) = IF k + 1 <= Len(path) THEN Len(path) - (k + 1) + 1 ELSE 0
        /\ \A j \in 1..Len(path) - (k + 1) + 1 : rest[j] = path[k + 1 + j - 1]
    BY <1>2, <1>3, <2>1, SubSeqProperties
  <2> HIDE DEF rest
  <2>3. Len(path) > k => rest[1] = path[k + 1 + 1 - 1]
    BY <1>2, <1>3, <2>2
  <2>4. k + 1 + 1 - 1 = k + 1 /\ Len(path) - (k + 1) + 1 = Len(path) - k
    BY <1>2, <1>3
  <2>5. QED BY <2>2, <2>3, <2>4
<1> HIDE DEF rest
<1>6. /\ Len(url) = n + Len(rest) /\ Len(rest) \in Nat
      /\ Len(rest) > 0 => url[n + 1] = rest[1]
  <2>1. Len(rest) \in Nat /\ Len(url) = Len(front) + Len(rest)
    BY <1>4, <1>5, ConcatProperties, LenProperties
  <2>2. \A j \in 1..Len(front) + Len(rest) :
          url[j] = IF j <= Len(front) THEN front[j] ELSE rest[j - Len(front)]
    BY <1>4, <1>5, ConcatProperties
  <2>3. Len(rest) > 0 => url[n + 1] = rest[n + 1 - n]
    <3>1. Len(rest) > 0 => n + 1 \in 1..Len(front) + Len(rest) /\ ~(n + 1 <= Len(front))
      BY <1>2, <1>4, <2>1
    <3>2. QED BY <1>4, <2>2, <3>1
  <2>4. n + 1 - n = 1
    BY <1>2
  <2>5. QED BY <1>4, <2>1, <2>3, <2>4
<1> HIDE DEF url
<1>7. Last(prefix) = path[k]
  BY <1>3 DEF Last, k
<1>8. ASSUME Len(url) > n, Last(prefix) # "/" PROVE url[n + 1] = "/"
  <2>1. Len(rest) > 0 /\ Len(path) > k
    BY <1>2, <1>3, <1>5, <1>6, <1>8
  <2>2. path[k + 1] = "/"
    BY <1>1, <1>3, <1>7, <1>8, <2>1
  <2>3. QED BY <1>5, <1>6, <2>1, <2>2
<1>9. url = SubSeq(base, 1, n) \o SubSeq(path, Len(prefix) + 1, Len(path))
  BY DEF url, front, rest, k
<1>10. QED BY <1>8, <1>9 DEF Joins

\* Nothing of a path is behind the path.
LEMMA NothingBehind ==
  ASSUME NEW s \in Seq(STRING), NEW n \in 0..Len(s), NEW path \in Seq(STRING)
  PROVE  SubSeq(s, 1, n) \o SubSeq(path, Len(path) + 1, Len(path)) = SubSeq(s, 1, n)
<1>1. Len(path) \in Nat /\ Len(s) \in Nat
  BY LenProperties
<1>2. SubSeq(path, Len(path) + 1, Len(path)) = <<>>
  BY <1>1, SubSeqEmpty
<1>3. \A j \in 1..n : s[j] \in STRING
  BY <1>1, ElementOfSeq
<1>4. SubSeq(s, 1, n) \in Seq(STRING)
  BY <1>1, <1>3, SubSeqProperties
<1>5. QED BY <1>2, <1>4, ConcatEmptySeq

\* A path is on itself.
LEMMA OnItself ==
  ASSUME NEW prefix \in Seq(STRING), NEW path \in Seq(STRING), On(prefix, path)
  PROVE  On(path, path)
<1>1. Len(path) \in 1..Len(path)
  <2>1. \E i \in 1..Len(path) : TRUE
    BY DEF On
  <2>2. QED BY <2>1, LenProperties
<1>2. QED BY <1>1, SubSeqFull DEF On

\* Whatever is posted for a request goes to the upstream of the most specific
\* route for its path and carries the headers of that route and of no other; on a
\* Solana route it goes to the bare upstream, without them.  Where URL and path
\* meet there is one slash, unless the prefix ends in one: config.cpp:13 and :76,
\* config.hpp:14, reqcache.cpp:60 and coalcache.cpp:161.
THEOREM PostsGoRight == DispatchSpec => []ForwardedRight
<1>1. DispatchInv => ForwardedRight
  <2> SUFFICES ASSUME DispatchInv, NEW r \in Requests, posted[r] # NotPosted
               PROVE  LET on == {s \in Specs : On(Prefix(s), what[r].path)}
                      IN  \E spec \in on :
                            /\ \A s \in on : Len(Prefix(s)) <= Len(Prefix(spec))
                            /\ PostedRight(posted[r], spec, what[r].path)
    BY DEF ForwardedRight, Prefix
  <2> DEFINE path == what[r].path
             i == RouteOf(r)
             spec == RouteSpecs[i]
  <2>1. Known(r) /\ i # 0 /\ IsPost(r, posted[r])
    BY DEF DispatchInv, WaitInv, HasRoute, HasSolana, IsPost
  <2>2. path \in Seq(STRING)
    BY <2>1, KnownPath
  <2>3. DOMAIN routes \subseteq Nat
    BY TableFacts, RouteSpecsAssumption
  <2>4. /\ i \in DOMAIN routes /\ Matches(routes[i], path)
        /\ \A j \in DOMAIN routes : Matches(routes[j], path) => ~Longer(routes[j], routes[i])
    BY <2>1, <2>3, MatchIsBest DEF RouteOf
  <2>5. /\ DOMAIN routes = DOMAIN RouteSpecs
        /\ \A j \in DOMAIN RouteSpecs : /\ ValidSpec(RouteSpecs[j])
                                        /\ routes[j] = parse_route(RouteSpecs[j])
    BY <2>4, TableFacts
  <2>6. ASSUME NEW j \in DOMAIN RouteSpecs
        PROVE  /\ routes[j].prefix = Prefix(RouteSpecs[j])
               /\ routes[j].upstream = TrimSlashes(Upstream(RouteSpecs[j]))
               /\ routes[j].headers = Given(RouteSpecs[j], "header")
               /\ routes[j].kind = Last(Given(RouteSpecs[j], "kind"))
               /\ Matches(routes[j], path) <=> On(Prefix(RouteSpecs[j]), path)
               /\ Len(Prefix(RouteSpecs[j])) \in Nat
    <3>1. /\ routes[j].prefix = Prefix(RouteSpecs[j])
          /\ routes[j].upstream = TrimSlashes(Upstream(RouteSpecs[j]))
          /\ routes[j].headers = Given(RouteSpecs[j], "header")
          /\ routes[j].kind = Last(Given(RouteSpecs[j], "kind"))
      BY <2>5 DEF parse_route, Prefix, Upstream
    <3>2. Prefix(RouteSpecs[j]) \in Seq(STRING) /\ Prefix(RouteSpecs[j]) # <<>>
      BY <2>5, SpecFacts
    <3>3. QED BY <2>2, <3>1, <3>2, MatchesIsOn, LenProperties
  <2>7. spec \in Specs /\ Upstream(spec) \in Seq(STRING) /\ Prefix(spec) \in Seq(STRING)
    BY <2>4, <2>5, SpecFacts
  <2>8. On(Prefix(spec), path)
    BY <2>4, <2>5, <2>6
  <2>9. ASSUME NEW s \in Specs, On(Prefix(s), path)
        PROVE  Len(Prefix(s)) <= Len(Prefix(spec))
    <3>1. PICK j \in DOMAIN RouteSpecs : s = RouteSpecs[j]
      BY DEF Specs
    <3>2. ~Longer(routes[j], routes[i])
      BY <2>4, <2>5, <2>6, <2>9, <3>1
    <3>3. QED BY <2>4, <2>5, <2>6, <3>1, <3>2 DEF Longer
  <2>10. PostedRight(posted[r], spec, path)
    <3> DEFINE route == routes[i]
               base == Upstream(spec)
    <3>1. /\ route.prefix = Prefix(spec) /\ route.upstream = TrimSlashes(base)
          /\ route.headers = Given(spec, "header")
          /\ route.kind = Last(Given(spec, "kind")) /\ route.kind = KindOf(r)
      BY <2>4, <2>5, <2>6 DEF KindOf
    <3>2. PICK n \in 0..Len(base) : TrimSlashes(base) = SubSeq(base, 1, n) /\ BareLength(base, n)
      BY <2>7, TrimmedAt DEF BareLength
    <3>3. CASE KindOf(r) # "solana"
      <4> DEFINE url == SubSeq(base, 1, n) \o SubSeq(path, Len(Prefix(spec)) + 1, Len(path))
      <4>1. posted[r] = <<route.upstream \o SubSeq(path, Len(route.prefix) + 1, Len(path)),
                          route.headers>>
        BY <2>1, <3>3 DEF IsPost, HasSolana, PostOf, fwd_url
      <4>2. Joins(url, base, Prefix(spec), path)
        BY <2>2, <2>7, <2>8, <3>2, SeamHasSlash
      <4> HIDE DEF path, spec, i, base, route
      <4>3. posted[r] = <<url, Given(spec, "header")>>
        BY <3>1, <3>2, <4>1
      <4> HIDE DEF url
      <4>4. posted[r][1] = url /\ posted[r][2] = Given(spec, "header")
        BY <4>3
      <4>5. QED BY <3>1, <3>3, <4>2, <4>4 DEF PostedRight, Prefix, Upstream, base
    <3>4. CASE KindOf(r) = "solana"
      <4> DEFINE url == SubSeq(base, 1, n)
      <4>1. posted[r] = <<route.upstream, <<>>>>
        BY <2>1, <3>4 DEF IsPost, HasRoute, SolanaPostOf
      <4>2. Joins(url, base, path, path)
        <5>1. On(path, path)
          BY <2>2, <2>7, <2>8, OnItself
        <5>2. url \o SubSeq(path, Len(path) + 1, Len(path)) = url
          BY <2>2, <2>7, <3>2, NothingBehind
        <5>3. QED BY <2>2, <2>7, <3>2, <5>1, <5>2, SeamHasSlash
      <4> HIDE DEF path, spec, i, base, route
      <4>3. posted[r] = <<url, <<>>>>
        BY <3>1, <3>2, <4>1
      <4> HIDE DEF url
      <4>4. posted[r][1] = url /\ posted[r][2] = <<>>
        BY <4>3
      <4>5. QED BY <3>1, <3>4, <4>2, <4>4 DEF PostedRight, Upstream, base
    <3>5. QED BY <3>3, <3>4
  <2> HIDE DEF spec, i
  <2>11. QED BY <2>7, <2>8, <2>9, <2>10
<1>2. QED BY <1>1, DispatchAlways, PTL

-----------------------------------------------------------------------------
(* The caching policy *)

\* A JSON-RPC request that is cached is so by its body without the id, for as
\* long as its method says.
LEMMA JsonPolicy ==
  ASSUME NEW b, classify_jsonrpc(b).cacheable
  PROVE  /\ classify_jsonrpc(b).key_body = deid(b)
         /\ b.method \notin Volatile
         /\ b.method = "eth_getTransactionReceipt" => classify_jsonrpc(b).ttl["missing"] = 0
         /\ b.method = "eth_getBlockByNumber" /\ b.tag \in {"latest", "pending"}
              => \A reply \in Replies : classify_jsonrpc(b).ttl[reply] = TTL_HEAD
<1> DEFINE d == classify_jsonrpc(b)
<1>1. b.json
  BY DEF classify_jsonrpc, Passthrough
<1>2. CASE b.method = "eth_chainId"
  <2>1. d = Cache(deid(b), const_ttl(TTL_CHAINID))
    BY <1>1, <1>2 DEF classify_jsonrpc
  <2>2. QED BY <1>2, <2>1 DEF Cache, Volatile
<1>3. CASE b.method = "eth_blockNumber"
  <2>1. d = Cache(deid(b), const_ttl(TTL_HEAD))
    BY <1>1, <1>3 DEF classify_jsonrpc
  <2>2. QED BY <1>3, <2>1 DEF Cache, Volatile
<1>4. CASE b.method \in {"eth_getLogs", "eth_getBlockByHash", "eth_getTransactionByHash"}
  <2>1. d = Cache(deid(b), const_ttl(TTL_IMMUTABLE))
    BY <1>1, <1>4 DEF classify_jsonrpc
  <2>2. QED BY <1>4, <2>1 DEF Cache, Volatile
<1>5. CASE b.method = "eth_getBlockByNumber"
  <2>1. d = Cache(deid(b), const_ttl(IF b.tag \in HeadTags THEN TTL_HEAD ELSE TTL_IMMUTABLE))
    BY <1>1, <1>5 DEF classify_jsonrpc
  <2>2. QED BY <1>5, <2>1 DEF Cache, Volatile, const_ttl, HeadTags
<1>6. CASE b.method = "eth_getTransactionReceipt"
  <2>1. d = Cache(deid(b), ttl_if_result_present(TTL_IMMUTABLE))
    BY <1>1, <1>6 DEF classify_jsonrpc
  <2>2. QED BY <1>6, <2>1 DEF Cache, Volatile, ttl_if_result_present, Replies
<1>7. CASE b.method \notin {"eth_chainId", "eth_blockNumber", "eth_getLogs", "eth_getBlockByHash",
                            "eth_getTransactionByHash", "eth_getBlockByNumber",
                            "eth_getTransactionReceipt"}
  <2>1. d = Passthrough
    BY <1>1, <1>7 DEF classify_jsonrpc
  <2>2. QED BY <2>1 DEF Passthrough
<1>8. QED BY <1>2, <1>3, <1>4, <1>5, <1>6, <1>7

LEMMA SequenceOfOne ==
  ASSUME NEW S, NEW m \in S, NEW s \in Seq(S), Len(s) = 1, s[1] = m
  PROVE  s = <<m>>
<1> DEFINE t == <<m>>
<1>1. t \in Seq(S) /\ Len(t) = 1 /\ t[1] = m
  OBVIOUS
<1> HIDE DEF t
<1>2. Len(s) = Len(t) /\ \A i \in 1..Len(s) : s[i] = t[i]
  BY <1>1
<1>3. s = t
  BY <1>1, <1>2, SeqEqual
<1>4. QED BY <1>3 DEF t

\* The wallet method that a path asks for is its last segment.
LEMMA LastSegmentIs ==
  ASSUME NEW path \in Seq(STRING), NEW method \in WalletLookups, AsksFor(path, method)
  PROVE  LastSegment(path) = <<method>>
<1> DEFINE n == Len(path)
<1>1. n \in Nat /\ n > 1 /\ path[n - 1] = "/" /\ path[n] = method /\ DOMAIN path = 1..n
  BY LenProperties DEF AsksFor
<1>2. method # "/" /\ path[n] \in STRING
  <2>1. method # "/"
    BY DEF WalletLookups
  <2>2. QED BY <1>1, <2>1, ElementOfSeq
<1> DEFINE Is(i) == path[i] = "/" /\ \A j \in i + 1..n : path[j] # "/"
<1> HIDE DEF n
<1>3. Is(n - 1) /\ n - 1 \in 1..n
  <2>1. \A j \in n - 1 + 1..n : j = n
    BY <1>1
  <2>2. QED BY <1>1, <1>2, <2>1
<1>4. ASSUME NEW i \in 1..n, Is(i) PROVE i = n - 1
  <2>1. i # n
    BY <1>1, <1>2, <1>4
  <2>2. ~(i < n - 1)
    <3>1. i < n - 1 => n - 1 \in i + 1..n
      BY <1>1
    <3>2. QED BY <1>1, <1>4, <3>1
  <2>3. QED BY <1>1, <2>1, <2>2
<1>5. (CHOOSE i \in DOMAIN path : Is(i)) = n - 1
  BY <1>1, <1>3, <1>4
<1>6. LastSegment(path) = SubSeq(path, n, n)
  <2>1. n - 1 + 1 = n
    BY <1>1
  <2>2. QED BY <1>5, <2>1 DEF LastSegment, n
<1>7. SubSeq(path, n, n) = <<method>>
  <2>1. \A i \in n..n : path[i] \in STRING
    BY <1>1, <1>2
  <2>2. SubSeq(path, n, n) \in Seq(STRING) /\ Len(SubSeq(path, n, n)) = 1
    BY <1>1, <2>1, SubSeqProperties
  <2>3. SubSeq(path, n, n)[1] = path[n]
    BY <1>1, <2>1, SubSeqProperties
  <2>4. QED BY <1>1, <1>2, <2>2, <2>3, SequenceOfOne
<1>8. QED BY <1>6, <1>7

\* A wallet request that is cached is so by its body, and a lookup of what is
\* missing is not.
LEMMA WalletPolicy ==
  ASSUME NEW path, NEW b, classify_wallet(path, b).cacheable
  PROVE  /\ classify_wallet(path, b).key_body = b
         /\ LastSegment(path) \in {<<"gettransactionbyid">>, <<"gettransactioninfobyid">>}
              => classify_wallet(path, b).ttl["missing"] = 0
<1> DEFINE d == classify_wallet(path, b)
           lookups == {<<"gettransactionbyid">>, <<"gettransactioninfobyid">>}
<1>0. <<"getblockbalance">> \notin lookups
  OBVIOUS
<1>1. CASE LastSegment(path) = <<"getblockbalance">>
  <2>1. d = Cache(b, const_ttl(TTL_IMMUTABLE))
    BY <1>0, <1>1 DEF classify_wallet
  <2>2. QED BY <1>0, <1>1, <2>1 DEF Cache
<1>2. CASE LastSegment(path) \in lookups
  <2>1. d = Cache(b, ttl_if_nonempty(TTL_IMMUTABLE))
    BY <1>0, <1>2 DEF classify_wallet
  <2>2. QED BY <2>1 DEF Cache, ttl_if_nonempty, Replies
<1>3. CASE LastSegment(path) \notin lookups \cup {<<"getblockbalance">>}
  <2>1. d = Passthrough
    BY <1>3 DEF classify_wallet
  <2>2. QED BY <2>1 DEF Passthrough
<1>4. QED BY <1>1, <1>2, <1>3

\* Requests that share a key may share an answer: they have one path, or two that
\* are both too long for blake2b to take as its key (proxycache.cpp:30).
LEMMA SharersMay ==
  ASSUME DispatchInv, NEW q \in Requests, NEW r \in Requests,
         Known(q), Known(r), Shares(q, r)
  PROVE  MayShare(q, r)
<1>1. \A x \in {q, r} : /\ DispositionOf(x) = classify(KindOf(x), what[x].path, what[x].body)
                        /\ DispositionOf(x).cacheable
  BY DEF Shares, Cacheable, DispositionOf, KindOf
<1>2. ASSUME KindOf(r) = "evm_jsonrpc" PROVE what[r].body.method \notin Volatile
  <2>1. DispositionOf(r) = classify_jsonrpc(what[r].body)
    BY <1>1, <1>2 DEF classify
  <2>2. QED BY <1>1, <2>1, JsonPolicy
<1>3. CASE Len(what[q].path) > MaxDomain /\ Len(what[r].path) > MaxDomain
  BY <1>2, <1>3 DEF MayShare
<1>4. CASE ~(Len(what[q].path) > MaxDomain /\ Len(what[r].path) > MaxDomain)
  <2> DEFINE K(x) == DispositionOf(x).key_body
             P(x) == what[x].path
  <2>1. \A x \in {q, r} : /\ Len(P(x)) \in Nat
                          /\ Key(x) = IF Len(P(x)) <= MaxDomain THEN <<K(x), P(x)>>
                                                                ELSE <<ZeroHash>>
    BY KnownPath, LenProperties DEF Key, KeyDomain, hash
  <2>2. \A x, y, z : <<x, y>> # <<z>>
    OBVIOUS
  <2>3. Key(q) = Key(r)
    BY DEF Shares
  <2>4. MaxDomain \in Nat
    BY DispatchAssumption
  <2>5. Key(q) = <<K(q), P(q)>> /\ Key(r) = <<K(r), P(r)>>
    <3>1. Len(P(q)) <= MaxDomain \/ Len(P(r)) <= MaxDomain
      BY <1>4, <2>1, <2>4
    <3> HIDE DEF K, P
    <3>2. QED BY <2>1, <2>2, <2>3, <3>1
  <2> HIDE DEF K, P
  <2>6. K(q) = K(r) /\ P(q) = P(r)
    <3>1. \A a, b, c, d : <<a, b>> = <<c, d>> => a = c /\ b = d
      OBVIOUS
    <3>2. <<K(q), P(q)>> = <<K(r), P(r)>>
      BY <2>3, <2>5
    <3>3. QED BY <3>1, <3>2
  <2>7. what[q].path = what[r].path /\ DispositionOf(q).key_body = DispositionOf(r).key_body
    BY <2>6 DEF K, P
  <2>8. RouteOf(q) = RouteOf(r) /\ KindOf(q) = KindOf(r)
    BY <2>7 DEF RouteOf, KindOf
  <2>9. CASE KindOf(r) = "evm_jsonrpc"
    <3>1. \A x \in {q, r} : DispositionOf(x) = classify_jsonrpc(what[x].body)
      BY <1>1, <2>8, <2>9 DEF classify
    <3>2. \A x \in {q, r} : DispositionOf(x).key_body = deid(what[x].body)
      BY <1>1, <3>1, JsonPolicy
    <3>3. QED BY <1>2, <2>7, <3>2 DEF MayShare
  <2>10. CASE KindOf(r) = "tron_wallet"
    <3>1. \A x \in {q, r} : DispositionOf(x) = classify_wallet(what[x].path, what[x].body)
      BY <1>1, <2>8, <2>10 DEF classify
    <3>2. \A x \in {q, r} : DispositionOf(x).key_body = what[x].body
      BY <1>1, <3>1, WalletPolicy
    <3>3. QED BY <2>7, <2>10, <3>2 DEF MayShare
  <2>11. CASE KindOf(r) \notin {"evm_jsonrpc", "tron_wallet"}
    <3>1. DispositionOf(r) = Passthrough
      BY <1>1, <2>11 DEF classify
    <3>2. QED BY <1>1, <3>1 DEF Passthrough
  <2>12. QED BY <2>9, <2>10, <2>11
<1>5. QED BY <1>3, <1>4

\* An upstream's answer that is given to a request was made for it, or for one
\* that differs by its id at most (proxycache.hpp:61, routes.cpp:75), or else both
\* paths are too long for blake2b; and for it alone if it asks an EVM node for its
\* current state (routes.cpp:148).
THEOREM AnswersAreRight == DispatchSpec => []RightAnswer
<1>1. DispatchInv => RightAnswer
  <2> SUFFICES ASSUME DispatchInv, NEW r \in Requests, NEW i \in DOMAIN sent[r]
               PROVE  LET m == sent[r][i]
                      IN  "of" \in DOMAIN m /\ m.of # r => MayShare(m.of, r)
    BY DEF RightAnswer
  <2>1. PICK m : m = sent[r][i]
    OBVIOUS
  <2>2. m \in Messages
    <3>1. sent[r] \in Seq(Messages)
      BY DEF DispatchInv, BaseType, TypeInv, ServerTypeOK
    <3>2. QED BY <2>1, <3>1, ElementOfSeq
  <2>3. SentTo(r, m)
    BY <2>1 DEF SentTo
  <2>4. "of" \in DOMAIN m => MadeFor(m, r)
    BY <2>2, <2>3 DEF DispatchInv, AnswersInv
  <2>5. ASSUME MadeFor(m, r), m.of # r PROVE MayShare(m.of, r)
    BY <2>5, SharersMay DEF MadeFor
  <2>6. QED BY <2>1, <2>4, <2>5
<1>2. QED BY <1>1, DispatchAlways, PTL

\* Nothing that waits in the cache says of a receipt or of a wallet's transaction
\* that it is missing, and a block that was asked for as the latest is kept for
\* seconds only: routes.cpp:39 and routes.cpp:48.
THEOREM CacheKeepsPolicy == DispatchSpec => []KeptByPolicy
<1>1. DispatchInv => KeptByPolicy
  <2> SUFFICES ASSUME DispatchInv, NEW e \in entries
               PROVE  LET q == what[e.of]
                      IN  /\ KindOf(e.of) = "evm_jsonrpc" =>
                               /\ q.body.method = "eth_getTransactionReceipt" => e.reply # "missing"
                               /\ /\ q.body.method = "eth_getBlockByNumber"
                                  /\ q.body.tag \in {"latest", "pending"}
                                  => e.ttl <= TTL_HEAD
                          /\ KindOf(e.of) = "tron_wallet" =>
                               \A method \in WalletLookups :
                                 AsksFor(q.path, method) => e.reply # "missing"
    BY DEF KeptByPolicy
  <2>1. PICK r \in Requests : r = e.of
    BY DEF DispatchInv, EntriesInv
  <2> DEFINE d == DispositionOf(r)
             q == what[r]
  <2>2. /\ Known(r) /\ d.cacheable /\ e.reply \in Replies
        /\ e.ttl = d.ttl[e.reply] /\ e.ttl > 0
    BY <2>1 DEF DispatchInv, EntriesInv, Cacheable, Lifetime
  <2>3. d = classify(KindOf(r), q.path, q.body)
    BY DEF DispositionOf, KindOf
  <2>4. q.path \in Seq(STRING)
    BY <2>2, KnownPath
  <2> HIDE DEF d, q
  <2>5. ASSUME KindOf(r) = "evm_jsonrpc"
        PROVE  /\ q.body.method = "eth_getTransactionReceipt" => e.reply # "missing"
               /\ q.body.method = "eth_getBlockByNumber" /\ q.body.tag \in {"latest", "pending"}
                    => e.ttl <= TTL_HEAD
    <3>1. d = classify_jsonrpc(q.body)
      BY <2>3, <2>5 DEF classify
    <3>2. QED BY <2>2, <3>1, JsonPolicy DEF TTL_HEAD
  <2>6. ASSUME KindOf(r) = "tron_wallet", NEW method \in WalletLookups, AsksFor(q.path, method)
        PROVE  e.reply # "missing"
    <3>1. d = classify_wallet(q.path, q.body)
      BY <2>3, <2>6 DEF classify
    <3>2. LastSegment(q.path) \in {<<"gettransactionbyid">>, <<"gettransactioninfobyid">>}
      BY <2>4, <2>6, LastSegmentIs DEF WalletLookups
    <3>3. QED BY <2>2, <3>1, <3>2, WalletPolicy
  <2>7. QED BY <2>1, <2>5, <2>6 DEF q
<1>2. QED BY <1>1, DispatchAlways, PTL

\* All of it has its types in every reachable state: routes as they are parsed, and
\* one entry per key, kept for a positive time and from a 2xx response.
THEOREM DispatchTypeCorrect == DispatchSpec => []DispatchTypeOK
<1>1. DispatchInv => DispatchTypeOK
  <2> SUFFICES ASSUME DispatchInv PROVE DispatchTypeOK
    OBVIOUS
  <2> DEFINE Route == [prefix : Seq(STRING), kind : CacheKinds, upstream : Seq(STRING),
                       headers : Seq(STRING)]
  <2>1. ASSUME NEW i \in DOMAIN RouteSpecs, ValidSpec(RouteSpecs[i])
        PROVE  parse_route(RouteSpecs[i]) \in Route
    <3>1. TrimSlashes(Upstream(RouteSpecs[i])) \in Seq(STRING)
      <4> DEFINE url == Upstream(RouteSpecs[i])
      <4>1. url \in Seq(STRING) /\ Len(url) \in Nat
        BY <2>1, SpecFacts, LenProperties
      <4>2. PICK n \in 0..Len(url) : TrimSlashes(url) = SubSeq(url, 1, n)
        BY <4>1, TrimmedAt
      <4>3. \A j \in 1..n : url[j] \in STRING
        BY <4>1, ElementOfSeq
      <4> HIDE DEF url
      <4>4. SubSeq(url, 1, n) \in Seq(STRING)
        BY <4>1, <4>3, SubSeqProperties
      <4>5. QED BY <4>2, <4>4 DEF url
    <3>2. QED BY <2>1, <3>1, SpecFacts DEF parse_route, Prefix, Upstream
  <2>2. routes \in Seq(Route)
    <3> HIDE DEF Route
    <3>1. CASE routes = <<>>
      BY <3>1
    <3>2. CASE routes # <<>>
      <4>1. DOMAIN RouteSpecs = 1..Len(RouteSpecs) /\ Len(RouteSpecs) \in Nat
        BY RouteSpecsAssumption, LenProperties
      <4>2. routes \in [1..Len(RouteSpecs) -> Route]
        BY <2>1, <3>2, <4>1 DEF DispatchInv, RoutesInv
      <4>3. QED BY <4>1, <4>2, SeqDef
    <3>3. QED BY <3>1, <3>2
  <2>3. \A e \in entries : /\ ok(e.status) /\ e.ttl > 0 /\ e.of \in Requests
                           /\ \A f \in entries : f.key = e.key => f = e
    BY DEF DispatchInv, EntriesInv
  <2>4. QED
    BY <2>2, <2>3 DEF DispatchInv, BaseType, RoutesInv, TypeInv, DispatchTypeOK, SigLabels
<1>2. QED BY <1>1, DispatchAlways, PTL
=============================================================================
