-------------------------- MODULE ProxyCacheProofs --------------------------
(***************************************************************************)
(* Theorems about ProxyCache, for any keys, callbacks, ttls and times.     *)
(***************************************************************************)
EXTENDS ProxyCache, CommonLemmas

-----------------------------------------------------------------------------
(* The entries *)

LEMMA Entries ==
  /\ \A e \in Entry : /\ e # NoEntry
                      /\ e.response \in Response \cup {NoResponse}
                      /\ e.in_flight \in BOOLEAN /\ e.callbacks \subseteq Callbacks
  /\ \A r \in Response : r # NoResponse /\ r.left \in Int /\ r.latest \in BOOLEAN
BY NoEntryAssumption DEF Entry, Response

\* The types by themselves.
BaseType ==
  /\ jobs \in Seq(Job)
  /\ cache \in [Keys -> Entry \cup {NoEntry}]
  /\ cleanIn \in Int
  /\ posts \subseteq Post
  /\ spared \subseteq Keys
  /\ asked \subseteq Callbacks
  /\ waited \in [Callbacks -> Nat]
  /\ answer \in [Callbacks -> Answers \cup {"none"}]

\* What the entries, the requests and those who wait have to do with each other.
KeysInv ==
  /\ OneRequestPerKey
  /\ \A k \in Keys : Cached(k) => InFlight(k) \/ HasResponse(k)

LEMMA EntryOf ==
  ASSUME BaseType, NEW k \in Keys
  PROVE  /\ Cached(k) <=> cache[k] \in Entry
         /\ HasResponse(k) => cache[k] \in Entry /\ cache[k].response \in Response
         /\ InFlight(k) => cache[k] \in Entry
         /\ Waiters(k) \subseteq Callbacks
         /\ ResponseOf(k) \in Response \cup {NoResponse}
         /\ HasResponse(k) <=> ResponseOf(k) # NoResponse
BY Entries DEF BaseType, Cached, HasResponse, InFlight, Waiters, ResponseOf

\* The job that is taken is the first, and it asks for c and k.
LEMMA DequeueJob ==
  ASSUME BaseType, NEW c, NEW k, Dequeue(c, k)
  PROVE  /\ c \in Callbacks /\ k \in Keys
         /\ jobs' \in Seq(Job)
         /\ c \in CallbacksIn(jobs) /\ Head(jobs).key = k
         /\ CallbacksIn(jobs') \subseteq CallbacksIn(jobs)
         /\ OneJobEach(jobs) => /\ OneJobEach(jobs')
                                /\ CallbacksIn(jobs') = CallbacksIn(jobs) \ {c}
<1> DEFINE h == [cb |-> c, key |-> k]
<1>1. jobs \in Seq(Job) /\ jobs # <<>> /\ Head(jobs) = h /\ jobs' = Tail(jobs)
  BY DEF BaseType, Dequeue
<1>2. h.cb = c /\ h.key = k
  OBVIOUS
<1> HIDE DEF h
<1>3. h \in Job
  BY <1>1, JobTaken
<1>4. c \in Callbacks /\ k \in Keys
  BY <1>2, <1>3 DEF Job
<1>5. QED BY <1>1, <1>2, <1>4, JobTaken

-----------------------------------------------------------------------------
(* What the steps do to the entries *)

\* A fetch that is no hit becomes a waiter, and its entry's request is in flight.
LEMMA RefetchView ==
  ASSUME BaseType, NEW c, NEW k, Refetch(c, k)
  PROVE  /\ c \in Callbacks /\ k \in Keys /\ ~IsFresh(k)
         /\ cache' \in [Keys -> Entry \cup {NoEntry}]
         /\ \A j \in Keys :
              /\ InFlight(j)' <=> InFlight(j) \/ j = k
              /\ Cached(j)' <=> Cached(j) \/ j = k
              /\ HasResponse(j)' <=> HasResponse(j)
              /\ HasResponse(j) => cache'[j].response = cache[j].response
              /\ Waiters(j)' = IF j = k THEN Waiters(j) \cup {c} ELSE Waiters(j)
<1> DEFINE e == [response |-> ResponseOf(k), in_flight |-> TRUE,
                 callbacks |-> Waiters(k) \cup {c}]
<1>1. c \in Callbacks /\ k \in Keys /\ ~IsFresh(k)
  BY DequeueJob DEF Refetch
<1>2. /\ e \in Entry /\ e.in_flight /\ e.callbacks = Waiters(k) \cup {c}
      /\ e.response = ResponseOf(k)
  BY <1>1, EntryOf DEF Entry
<1>3. cache' = [cache EXCEPT ![k] = e]
  BY DEF Refetch
<1> HIDE DEF e
<1>4. /\ cache' \in [Keys -> Entry \cup {NoEntry}]
      /\ cache'[k] = e /\ \A j \in Keys \ {k} : cache'[j] = cache[j]
  BY <1>1, <1>2, <1>3 DEF BaseType
<1>5. /\ Cached(k)' /\ InFlight(k)' /\ Waiters(k)' = Waiters(k) \cup {c}
      /\ HasResponse(k)' <=> HasResponse(k)
      /\ HasResponse(k) => cache'[k].response = cache[k].response
  BY <1>1, <1>2, <1>4, Entries, EntryOf
  DEF Cached, InFlight, Waiters, HasResponse, ResponseOf
<1>6. \A j \in Keys \ {k} : /\ InFlight(j)' <=> InFlight(j)
                            /\ Cached(j)' <=> Cached(j)
                            /\ HasResponse(j)' <=> HasResponse(j)
                            /\ Waiters(j)' = Waiters(j)
  BY <1>4 DEF InFlight, Cached, HasResponse, Waiters
<1>7. QED BY <1>1, <1>4, <1>5, <1>6

\* A response to a request whose entry is there: those who wait are called, and
\* what is left of the entry has a response, a new one or the one it had.
LEMMA ReplyView ==
  ASSUME BaseType, NEW p \in posts, LoopReply(p), Cached(p.key)
  PROVE  /\ p.key \in Keys
         /\ cache' \in [Keys -> Entry \cup {NoEntry}]
         /\ \E a \in {"fetched", "failed", "stale"} : Call(Waiters(p.key), a)
         /\ \A j \in Keys \ {p.key} : cache'[j] = cache[j]
         /\ ~InFlight(p.key)' /\ Waiters(p.key)' = {}
         /\ Cached(p.key)' => HasResponse(p.key)'
         /\ HasResponse(p.key)' =>
              \/ cache'[p.key].response.left > 0 /\ cache'[p.key].response.latest
              \/ HasResponse(p.key)
                 /\ cache'[p.key].response.left = cache[p.key].response.left
<1>1. PICK k \in Keys : k = p.key
  BY DEF BaseType, Post
<1>2. cache[k] \in Entry
  BY <1>1, EntryOf
<1> DEFINE Left(e) ==
      e \in Entry => /\ ~e.in_flight /\ e.callbacks = {} /\ e.response \in Response
                     /\ \/ e.response.left > 0 /\ e.response.latest
                        \/ HasResponse(k) /\ e.response.left = cache[k].response.left
<1>3. PICK e \in Entry \cup {NoEntry}, a \in {"fetched", "failed", "stale"} :
        /\ cache' = [cache EXCEPT ![k] = e] /\ Left(e)
        /\ Call(Waiters(k), a)
  <2>1. ASSUME NEW ttl \in Ttls, ResponseCached(p, ttl)
        PROVE  \E e \in Entry \cup {NoEntry}, a \in {"fetched", "failed", "stale"} :
                 /\ cache' = [cache EXCEPT ![k] = e] /\ Left(e)
                 /\ Call(Waiters(k), a)
    <3> DEFINE r == [left |-> ttl, latest |-> TRUE]
               e == [Settled(k) EXCEPT !.response = r]
    <3>1. r \in Response /\ r.left > 0 /\ r.latest
      BY <2>1, ProxyCacheAssumption DEF ResponseCached, Response
    <3>2. cache' = [cache EXCEPT ![k] = e] /\ Call(Waiters(k), "fetched")
      BY <1>1, <2>1 DEF ResponseCached, OnResponse
    <3> HIDE DEF r
    <3>3. e \in Entry /\ ~e.in_flight /\ e.callbacks = {} /\ e.response = r
      BY <1>2, <3>1 DEF Settled, Entry
    <3> HIDE DEF e
    <3>4. Left(e)
      BY <3>1, <3>3
    <3>5. QED BY <3>2, <3>3, <3>4
  <2>2. ASSUME NEW ttl \in Ttls, ResponsePassed(p, ttl)
        PROVE  \E e \in Entry \cup {NoEntry}, a \in {"fetched", "failed", "stale"} :
                 /\ cache' = [cache EXCEPT ![k] = e] /\ Left(e)
                 /\ Call(Waiters(k), a)
    <3> DEFINE e == SettledAndOlder(k)
    <3>1. cache' = [cache EXCEPT ![k] = e] /\ Call(Waiters(k), "fetched")
      BY <1>1, <2>2 DEF ResponsePassed, OnResponse
    <3>2. CASE HasResponse(k)
      <4>1. cache[k].response \in Response
        BY <3>2, EntryOf
      <4>2. /\ e \in Entry /\ ~e.in_flight /\ e.callbacks = {}
            /\ e.response = [cache[k].response EXCEPT !.latest = FALSE]
        BY <1>2, <3>2, <4>1 DEF SettledAndOlder, Settled, Entry, Response
      <4>3. e.response \in Response /\ e.response.left = cache[k].response.left
        BY <4>1, <4>2 DEF Response
      <4> HIDE DEF e
      <4>4. QED BY <3>1, <3>2, <4>2, <4>3
    <3>3. CASE ~HasResponse(k)
      <4>1. e = NoEntry
        BY <3>3 DEF SettledAndOlder
      <4>2. Left(NoEntry)
        BY Entries
      <4> HIDE DEF e
      <4>3. QED BY <3>1, <4>1, <4>2
    <3>4. QED BY <3>2, <3>3
  <2>3. ASSUME ResponseFailed(p)
        PROVE  \E e \in Entry \cup {NoEntry}, a \in {"fetched", "failed", "stale"} :
                 /\ cache' = [cache EXCEPT ![k] = e] /\ Left(e)
                 /\ Call(Waiters(k), a)
    <3> DEFINE e == SettledOrErased(k)
               a == IF HasResponse(k) THEN "stale" ELSE "failed"
    <3>1. cache' = [cache EXCEPT ![k] = e] /\ Call(Waiters(k), a)
      BY <1>1, <2>3 DEF ResponseFailed, OnResponse
    <3>2. CASE HasResponse(k)
      <4>1. cache[k].response \in Response
        BY <3>2, EntryOf
      <4>2. /\ e \in Entry /\ ~e.in_flight /\ e.callbacks = {}
            /\ e.response = cache[k].response
        BY <1>2, <3>2 DEF SettledOrErased, Settled, Entry
      <4> HIDE DEF e
      <4>3. QED BY <3>1, <3>2, <4>1, <4>2
    <3>3. CASE ~HasResponse(k)
      <4>1. e = NoEntry
        BY <3>3 DEF SettledOrErased
      <4>2. Left(NoEntry)
        BY Entries
      <4> HIDE DEF e
      <4>3. QED BY <3>1, <3>3, <4>1, <4>2
    <3>4. QED BY <3>2, <3>3
  <2> HIDE DEF Left
  <2>4. QED BY <2>1, <2>2, <2>3 DEF LoopReply
<1>4. /\ cache' \in [Keys -> Entry \cup {NoEntry}]
      /\ cache'[k] = e /\ \A j \in Keys \ {k} : cache'[j] = cache[j]
  BY <1>3 DEF BaseType
<1>5. /\ ~InFlight(k)' /\ Waiters(k)' = {} /\ (Cached(k)' => HasResponse(k)')
  BY <1>3, <1>4, Entries DEF InFlight, Cached, HasResponse, Waiters
<1>6. HasResponse(k)' => e \in Entry
  BY <1>3, <1>4 DEF HasResponse, Cached
<1>7. QED BY <1>1, <1>3, <1>4, <1>5, <1>6

\* The clean-up takes no entry that is in flight.
LEMMA CleanView ==
  ASSUME BaseType, KeysInv, Clean
  PROVE  /\ cache' \in [Keys -> Entry \cup {NoEntry}]
         /\ \A j \in Keys : /\ InFlight(j)' <=> InFlight(j)
                            /\ Waiters(j)' = Waiters(j)
                            /\ Cached(j)' => /\ Cached(j) /\ cache'[j] = cache[j]
                                             /\ ~Gone(j)
<1>1. \A j \in Keys : cache'[j] = IF Gone(j) THEN NoEntry ELSE cache[j]
  BY DEF Clean
<1>2. cache' \in [Keys -> Entry \cup {NoEntry}]
  BY <1>1 DEF Clean, BaseType
<1>3. \A j \in Keys : Gone(j) => ~InFlight(j) /\ Waiters(j) = {}
  BY DEF Gone, KeysInv, OneRequestPerKey
<1>4. ASSUME NEW j \in Keys, Gone(j)
      PROVE  ~InFlight(j)' /\ ~Cached(j)' /\ Waiters(j)' = {}
  BY <1>1, <1>4 DEF InFlight, Cached, Waiters
<1>5. ASSUME NEW j \in Keys, ~Gone(j)
      PROVE  /\ cache'[j] = cache[j] /\ (InFlight(j)' <=> InFlight(j))
             /\ Waiters(j)' = Waiters(j) /\ (Cached(j)' <=> Cached(j))
  BY <1>1, <1>5 DEF InFlight, Cached, Waiters
<1>6. QED BY <1>2, <1>3, <1>4, <1>5

\* Time ages the responses and changes nothing else in the entries.
LEMMA TickView ==
  ASSUME BaseType, Tick
  PROVE  /\ cache' \in [Keys -> Entry \cup {NoEntry}]
         /\ \A j \in Keys :
              /\ InFlight(j)' <=> InFlight(j)
              /\ Waiters(j)' = Waiters(j)
              /\ Cached(j)' <=> Cached(j)
              /\ HasResponse(j)' <=> HasResponse(j)
              /\ HasResponse(j) =>
                   /\ cache'[j].response.latest = cache[j].response.latest
                   /\ cache'[j].response.left \in Int
                   /\ cache[j].response.left \in Int
                   /\ cache'[j].response.left <= cache[j].response.left
                   /\ cache'[j].response.left >= cache[j].response.left - 1
<1>1. \A j \in Keys : cache'[j] = IF HasResponse(j) THEN Older(j) ELSE cache[j]
  BY DEF Tick
<1>2. ASSUME NEW j \in Keys, HasResponse(j)
      PROVE  /\ Older(j) \in Entry
             /\ Older(j).in_flight = cache[j].in_flight
             /\ Older(j).callbacks = cache[j].callbacks
             /\ Older(j).response \in Response
             /\ Older(j).response.latest = cache[j].response.latest
             /\ cache[j].response.left \in Int
             /\ Older(j).response.left \in {cache[j].response.left, cache[j].response.left - 1}
  <2> DEFINE r == cache[j].response
             s == [r EXCEPT !.left = IF @ > LastAge THEN @ - 1 ELSE @]
  <2>1. cache[j] \in Entry /\ r \in Response
    BY <1>2, EntryOf
  <2>2. /\ s \in Response /\ s.latest = r.latest /\ r.left \in Int
        /\ s.left \in {r.left, r.left - 1}
    BY <2>1 DEF Response
  <2>3. Older(j) = [cache[j] EXCEPT !.response = s]
    BY <2>1 DEF Older, Entry
  <2> HIDE DEF r, s
  <2>4. /\ Older(j) \in Entry /\ Older(j).response = s
        /\ Older(j).in_flight = cache[j].in_flight
        /\ Older(j).callbacks = cache[j].callbacks
    BY <2>1, <2>2, <2>3 DEF Entry
  <2>5. QED BY <2>2, <2>4 DEF r
<1>3. cache' = [j \in Keys |-> cache'[j]]
  BY DEF Tick
<1>4. cache' \in [Keys -> Entry \cup {NoEntry}]
  <2>1. \A j \in Keys : cache'[j] \in Entry \cup {NoEntry}
    BY <1>1, <1>2 DEF BaseType
  <2>2. QED BY <1>3, <2>1
<1>5. ASSUME NEW j \in Keys, HasResponse(j)
      PROVE  /\ InFlight(j)' <=> InFlight(j)
             /\ Waiters(j)' = Waiters(j)
             /\ Cached(j)' /\ Cached(j) /\ HasResponse(j)'
             /\ cache'[j].response.latest = cache[j].response.latest
             /\ cache'[j].response.left \in Int /\ cache[j].response.left \in Int
             /\ cache'[j].response.left <= cache[j].response.left
             /\ cache'[j].response.left >= cache[j].response.left - 1
  <2>1. cache'[j] = Older(j)
    BY <1>1, <1>5
  <2>2. /\ cache'[j] \in Entry /\ cache'[j].in_flight = cache[j].in_flight
        /\ cache'[j].callbacks = cache[j].callbacks
        /\ cache'[j].response \in Response
    BY <1>2, <1>5, <2>1
  <2>3. Cached(j) /\ cache'[j] # NoEntry /\ cache'[j].response # NoResponse
    BY <1>5, <2>2, Entries DEF HasResponse
  <2>4. /\ InFlight(j)' <=> InFlight(j)
        /\ Waiters(j)' = Waiters(j)
        /\ Cached(j)' /\ HasResponse(j)'
    BY <2>2, <2>3 DEF InFlight, Waiters, Cached, HasResponse
  <2>5. QED BY <1>2, <1>5, <2>1, <2>3, <2>4
<1>6. ASSUME NEW j \in Keys, ~HasResponse(j)
      PROVE  /\ InFlight(j)' <=> InFlight(j)
             /\ Waiters(j)' = Waiters(j)
             /\ Cached(j)' <=> Cached(j)
             /\ ~HasResponse(j)'
  BY <1>1, <1>6 DEF InFlight, Waiters, Cached, HasResponse
<1>7. QED BY <1>4, <1>5, <1>6

-----------------------------------------------------------------------------
(* One request for each key in flight. *)

LEMMA KeysSame ==
  ASSUME KeysInv, UNCHANGED posts,
         \A k \in Keys : /\ InFlight(k)' <=> InFlight(k)
                         /\ Waiters(k)' = Waiters(k)
                         /\ Cached(k)' => Cached(k) /\ (HasResponse(k) => HasResponse(k)')
  PROVE  KeysInv'
BY DEF KeysInv, OneRequestPerKey

LEMMA KeysRefetch ==
  ASSUME BaseType, KeysInv, NEW c, NEW k, Refetch(c, k)
  PROVE  KeysInv'
<1>1. /\ k \in Keys
      /\ \A j \in Keys : /\ InFlight(j)' <=> InFlight(j) \/ j = k
                         /\ Cached(j)' <=> Cached(j) \/ j = k
                         /\ HasResponse(j)' <=> HasResponse(j)
                         /\ Waiters(j)' = IF j = k THEN Waiters(j) \cup {c} ELSE Waiters(j)
  BY RefetchView
<1>2. /\ \A j \in Keys : InFlight(j)' <=> Waiters(j)' # {}
      /\ \A j \in Keys : Cached(j)' => InFlight(j)' \/ HasResponse(j)'
  BY <1>1 DEF KeysInv, OneRequestPerKey
<1>3. CASE InFlight(k)
  <2>1. posts' = posts
    BY <1>3 DEF Refetch, Joins
  <2>2. QED BY <1>1, <1>2, <1>3, <2>1 DEF KeysInv, OneRequestPerKey
<1>4. CASE ~InFlight(k)
  <2> DEFINE n == [key |-> k, left |-> UpstreamTimeout]
  <2>1. posts' = posts \cup {n}
    BY <1>4 DEF Refetch, Joins
  <2>2. n.key = k
    OBVIOUS
  <2> HIDE DEF n
  <2>3. {p.key : p \in posts} = {j \in Keys : InFlight(j)}
    BY DEF KeysInv, OneRequestPerKey
  <2>4. \A p \in posts : p.key # k
    BY <1>4, <2>3
  <2>5. {p.key : p \in posts'} = {p.key : p \in posts} \cup {k}
    BY <2>1, <2>2
  <2>6. {p.key : p \in posts'} = {j \in Keys : InFlight(j)'}
    BY <1>1, <2>3, <2>5
  <2>7. \A p1, p2 \in posts' : p1.key = p2.key => p1 = p2
    BY <2>1, <2>2, <2>4 DEF KeysInv, OneRequestPerKey
  <2>8. QED BY <1>2, <2>6, <2>7 DEF KeysInv, OneRequestPerKey
<1>5. QED BY <1>3, <1>4

\* A response finds its entry.
LEMMA ReplyFinds ==
  ASSUME KeysInv, NEW p \in posts
  PROVE  p.key \in Keys /\ InFlight(p.key) /\ Cached(p.key)
BY DEF KeysInv, OneRequestPerKey, InFlight

LEMMA KeysReply ==
  ASSUME BaseType, KeysInv, NEW p \in posts, LoopReply(p)
  PROVE  KeysInv'
<1>1. PICK k \in Keys : k = p.key
  BY ReplyFinds
<1>2. /\ \A j \in Keys \ {k} : cache'[j] = cache[j]
      /\ ~InFlight(k)' /\ Waiters(k)' = {} /\ (Cached(k)' => HasResponse(k)')
  BY <1>1, ReplyFinds, ReplyView
<1>3. \A j \in Keys \ {k} : /\ InFlight(j)' <=> InFlight(j)
                            /\ Waiters(j)' = Waiters(j)
                            /\ Cached(j)' <=> Cached(j)
                            /\ HasResponse(j)' <=> HasResponse(j)
  BY <1>2 DEF InFlight, Waiters, Cached, HasResponse
<1>4. posts' = posts \ {p}
  BY DEF LoopReply, ResponseCached, ResponsePassed, ResponseFailed, OnResponse
<1>5. {q.key : q \in posts'} = {q.key : q \in posts} \ {k}
  BY <1>1, <1>4 DEF KeysInv, OneRequestPerKey
<1>6. {q.key : q \in posts'} = {j \in Keys : InFlight(j)'}
  BY <1>2, <1>3, <1>5 DEF KeysInv, OneRequestPerKey
<1>7. /\ \A j \in Keys : InFlight(j)' <=> Waiters(j)' # {}
      /\ \A j \in Keys : Cached(j)' => InFlight(j)' \/ HasResponse(j)'
  BY <1>2, <1>3 DEF KeysInv, OneRequestPerKey
<1>8. QED BY <1>4, <1>6, <1>7 DEF KeysInv, OneRequestPerKey

LEMMA KeysTick ==
  ASSUME BaseType, KeysInv, Tick
  PROVE  KeysInv'
<1> DEFINE later(p) == [p EXCEPT !.left = @ - 1]
<1>1. posts' = {later(p) : p \in posts}
  BY DEF Tick
<1>2. \A p \in posts : later(p).key = p.key
  BY DEF BaseType, Post
<1> HIDE DEF later
<1>3. {p.key : p \in posts'} = {p.key : p \in posts}
  BY <1>1, <1>2
<1>4. \A p1, p2 \in posts' : p1.key = p2.key => p1 = p2
  BY <1>1, <1>2 DEF KeysInv, OneRequestPerKey
<1>5. \A k \in Keys : /\ InFlight(k)' <=> InFlight(k)
                      /\ Waiters(k)' = Waiters(k)
                      /\ Cached(k)' <=> Cached(k)
                      /\ HasResponse(k)' <=> HasResponse(k)
  BY TickView
<1>6. QED BY <1>3, <1>4, <1>5 DEF KeysInv, OneRequestPerKey

-----------------------------------------------------------------------------
(* A callback is in one job or waits in one entry until it is called. *)

Holds(c) == \E k \in Keys : c \in Waiters(k)

HeldInv ==
  /\ OneJobEach(jobs)
  /\ \A c \in Callbacks : \A j, k \in Keys :
       c \in Waiters(j) /\ c \in Waiters(k) => j = k
  /\ \A c \in CallbacksIn(jobs) : c \in Callbacks /\ ~Holds(c)
  /\ \A c \in Callbacks : c \in Pending <=> c \in CallbacksIn(jobs) \/ Holds(c)
  /\ \A c \in Callbacks \ asked : answer[c] = "none"

\* What a call of callbacks that wait does to them.
LEMMA CallSettles ==
  ASSUME BaseType, HeldInv, NEW C \in SUBSET Callbacks, C \subseteq Pending,
         NEW a \in Answers, Call(C, a), UNCHANGED asked
  PROVE  /\ answer' \in [Callbacks -> Answers \cup {"none"}]
         /\ \A c \in Callbacks : c \in Pending' <=> c \in Pending /\ c \notin C
         /\ \A c \in Callbacks : answer'[c] = IF c \in C THEN a ELSE answer[c]
         /\ \A c \in Callbacks \ asked' : answer'[c] = "none"
<1>1. \A c \in C : c \in asked /\ answer[c] = "none"
  BY DEF Pending
<1>2. /\ answer' \in [Callbacks -> Answers \cup {"none"}]
      /\ \A c \in Callbacks : answer'[c] = IF c \in C THEN a ELSE answer[c]
  BY DEF Call, BaseType
<1>3. a # "none"
  BY DEF Answers
<1>4. QED BY <1>1, <1>2, <1>3 DEF HeldInv, Pending, BaseType

LEMMA HeldFetch ==
  ASSUME BaseType, HeldInv, NEW c \in Callbacks, NEW k \in Keys, Fetch(c, k)
  PROVE  HeldInv' /\ jobs' \in Seq(Job)
<1> DEFINE e == [cb |-> c, key |-> k]
<1>1. e \in Job /\ e.cb = c /\ jobs' = Append(jobs, e) /\ jobs \in Seq(Job)
  BY DEF Job, Fetch, BaseType
<1> HIDE DEF e
<1>2. /\ c \notin asked /\ asked' = asked \cup {c}
      /\ UNCHANGED <<cache, answer>>
  BY DEF Fetch
<1>3. c \notin Pending /\ c \notin CallbacksIn(jobs) /\ ~Holds(c) /\ answer[c] = "none"
  BY <1>2 DEF HeldInv, Pending
<1>4. /\ jobs' \in Seq(Job) /\ OneJobEach(jobs')
      /\ CallbacksIn(jobs') = CallbacksIn(jobs) \cup {c}
  BY <1>1, <1>3, JobAppended DEF HeldInv
<1>5. /\ \A d : Holds(d)' <=> Holds(d)
      /\ \A j \in Keys : Waiters(j)' = Waiters(j)
  BY <1>2 DEF Holds, Waiters, Cached
<1>6. \A d \in Callbacks : d \in Pending' <=> d \in Pending \/ d = c
  BY <1>2, <1>3 DEF Pending
<1>7. QED BY <1>2, <1>3, <1>4, <1>5, <1>6 DEF HeldInv

LEMMA HeldHit ==
  ASSUME BaseType, HeldInv, NEW c, NEW k, Hit(c, k)
  PROVE  /\ HeldInv' /\ answer' \in [Callbacks -> Answers \cup {"none"}]
         /\ \A d \in Callbacks : answer'[d] # answer[d] => d \in Pending
<1>1. /\ c \in Callbacks /\ k \in Keys /\ c \in CallbacksIn(jobs)
      /\ OneJobEach(jobs') /\ CallbacksIn(jobs') = CallbacksIn(jobs) \ {c}
  BY DequeueJob DEF Hit, HeldInv
<1>2. c \in Pending /\ ~Holds(c)
  BY <1>1 DEF HeldInv
<1>3. Call({c}, "hit") /\ "hit" \in Answers /\ UNCHANGED <<cache, asked>>
  BY DEF Hit, Answers
<1>4. /\ answer' \in [Callbacks -> Answers \cup {"none"}]
      /\ \A d \in Callbacks : d \in Pending' <=> d \in Pending /\ d # c
      /\ \A d \in Callbacks : answer'[d] # answer[d] => d = c
      /\ \A d \in Callbacks \ asked' : answer'[d] = "none"
  BY <1>1, <1>2, <1>3, CallSettles
<1>5. /\ \A d : Holds(d)' <=> Holds(d)
      /\ \A j \in Keys : Waiters(j)' = Waiters(j)
  BY <1>3 DEF Holds, Waiters, Cached
<1>6. HeldInv'
  BY <1>1, <1>2, <1>4, <1>5 DEF HeldInv
<1>7. QED BY <1>2, <1>4, <1>6

LEMMA HeldRefetch ==
  ASSUME BaseType, HeldInv, NEW c, NEW k, Refetch(c, k)
  PROVE  HeldInv'
<1>1. /\ c \in Callbacks /\ k \in Keys /\ c \in CallbacksIn(jobs)
      /\ OneJobEach(jobs') /\ CallbacksIn(jobs') = CallbacksIn(jobs) \ {c}
  BY DequeueJob DEF Refetch, HeldInv
<1>2. UNCHANGED <<asked, answer>>
  BY DEF Refetch
<1>3. \A j \in Keys : Waiters(j)' = IF j = k THEN Waiters(j) \cup {c} ELSE Waiters(j)
  BY RefetchView
<1>4. \A d : Holds(d)' <=> Holds(d) \/ d = c
  BY <1>1, <1>3 DEF Holds
<1>5. ~Holds(c)
  BY <1>1 DEF HeldInv
<1>6. \A d \in Callbacks : \A i, j \in Keys : d \in Waiters(i)' /\ d \in Waiters(j)' => i = j
  BY <1>3, <1>5 DEF HeldInv, Holds
<1>7. QED BY <1>1, <1>2, <1>4, <1>6 DEF HeldInv, Pending

LEMMA HeldReply ==
  ASSUME BaseType, KeysInv, HeldInv, NEW p \in posts, LoopReply(p)
  PROVE  /\ HeldInv' /\ answer' \in [Callbacks -> Answers \cup {"none"}]
         /\ \A d \in Callbacks : answer'[d] # answer[d] =>
              d \in Pending /\ answer'[d] # "hit"
<1>1. PICK k \in Keys : k = p.key
  BY ReplyFinds
<1>2. PICK a \in {"fetched", "failed", "stale"} : Call(Waiters(k), a)
  BY <1>1, ReplyFinds, ReplyView
<1>3. /\ \A j \in Keys \ {k} : cache'[j] = cache[j]
      /\ Waiters(k)' = {}
  BY <1>1, ReplyFinds, ReplyView
<1>4. \A j \in Keys : Waiters(j)' = IF j = k THEN {} ELSE Waiters(j)
  BY <1>3 DEF Waiters, Cached
<1>5. UNCHANGED <<jobs, asked>>
  BY DEF LoopReply, ResponseCached, ResponsePassed, ResponseFailed, OnResponse
<1>6. /\ Waiters(k) \subseteq Callbacks /\ Waiters(k) \subseteq Pending
      /\ a \in Answers /\ a # "hit"
  BY EntryOf DEF HeldInv, Holds, Answers
<1>7. /\ answer' \in [Callbacks -> Answers \cup {"none"}]
      /\ \A d \in Callbacks : d \in Pending' <=> d \in Pending /\ d \notin Waiters(k)
      /\ \A d \in Callbacks : answer'[d] = IF d \in Waiters(k) THEN a ELSE answer[d]
      /\ \A d \in Callbacks \ asked' : answer'[d] = "none"
  BY <1>2, <1>5, <1>6, CallSettles
<1>8. \A d \in Callbacks : Holds(d)' <=> Holds(d) /\ d \notin Waiters(k)
  BY <1>4 DEF Holds, HeldInv
<1>9. \A d \in CallbacksIn(jobs) : d \notin Waiters(k) /\ d \in Callbacks /\ ~Holds(d)'
  BY <1>8 DEF HeldInv, Holds
<1>10. \A d \in Callbacks : \A i, j \in Keys : d \in Waiters(i)' /\ d \in Waiters(j)' => i = j
  BY <1>4 DEF HeldInv
<1>11. HeldInv'
  BY <1>5, <1>7, <1>8, <1>9, <1>10 DEF HeldInv
<1>12. QED BY <1>6, <1>7, <1>11

\* The clean-up, time and stuttering leave the callbacks where they are.
LEMMA HeldSame ==
  ASSUME HeldInv, UNCHANGED <<jobs, asked, answer>>,
         \A k \in Keys : Waiters(k)' = Waiters(k)
  PROVE  HeldInv'
<1>1. \A c : Holds(c)' <=> Holds(c)
  BY DEF Holds
<1>2. Pending' = Pending
  BY DEF Pending
<1>3. QED BY <1>1, <1>2 DEF HeldInv

-----------------------------------------------------------------------------
(* The steps keep the types and what is said of keys and callbacks. *)

SafeInv == BaseType /\ KeysInv /\ HeldInv

LEMMA SafeInit == Init => SafeInv
<1> SUFFICES ASSUME Init PROVE SafeInv
  OBVIOUS
<1>1. BaseType
  BY ProxyCacheAssumption DEF Init, BaseType
<1>2. KeysInv
  BY DEF Init, KeysInv, OneRequestPerKey, InFlight, Cached, Waiters
<1>3. HeldInv
  BY DEF Init, HeldInv, OneJobEach, CallbacksIn, Holds, Waiters, Cached, Pending
<1>4. QED BY <1>1, <1>2, <1>3 DEF SafeInv

LEMMA SafeStep == SafeInv /\ [Next]_vars => SafeInv'
<1> SUFFICES ASSUME SafeInv, [Next]_vars PROVE SafeInv'
  OBVIOUS
<1> USE DEF SafeInv
<1>1. ASSUME NEW c \in Callbacks, NEW k \in Keys, Fetch(c, k)
      PROVE  SafeInv'
  <2>1. HeldInv' /\ jobs' \in Seq(Job)
    BY <1>1, HeldFetch
  <2>2. BaseType'
    BY <1>1, <2>1 DEF Fetch, BaseType
  <2>3. KeysInv'
    BY <1>1, KeysSame DEF Fetch, InFlight, Waiters, Cached, HasResponse
  <2>4. QED BY <2>1, <2>2, <2>3
<1>2. ASSUME NEW c, NEW k, Hit(c, k)
      PROVE  SafeInv'
  <2>1. /\ HeldInv' /\ answer' \in [Callbacks -> Answers \cup {"none"}]
        /\ jobs' \in Seq(Job)
    BY <1>2, HeldHit, DequeueJob DEF Hit
  <2>2. BaseType'
    BY <1>2, <2>1 DEF Hit, BaseType
  <2>3. KeysInv'
    BY <1>2, KeysSame DEF Hit, InFlight, Waiters, Cached, HasResponse
  <2>4. QED BY <2>1, <2>2, <2>3
<1>3. ASSUME NEW c, NEW k, Refetch(c, k)
      PROVE  SafeInv'
  <2>1. HeldInv' /\ KeysInv'
    BY <1>3, HeldRefetch, KeysRefetch
  <2>2. /\ jobs' \in Seq(Job) /\ k \in Keys
        /\ cache' \in [Keys -> Entry \cup {NoEntry}]
    BY <1>3, DequeueJob, RefetchView DEF Refetch
  <2>3. posts' \subseteq Post
    BY <1>3, <2>2, ProxyCacheAssumption DEF Refetch, BaseType, Post
  <2>4. BaseType'
    BY <1>3, <2>2, <2>3 DEF Refetch, BaseType
  <2>5. QED BY <2>1, <2>4
<1>4. ASSUME NEW p \in posts, LoopReply(p)
      PROVE  SafeInv'
  <2>1. /\ HeldInv' /\ KeysInv'
        /\ answer' \in [Callbacks -> Answers \cup {"none"}]
    BY <1>4, HeldReply, KeysReply
  <2>2. cache' \in [Keys -> Entry \cup {NoEntry}]
    BY <1>4, ReplyFinds, ReplyView
  <2>3. posts' \subseteq posts /\ UNCHANGED <<jobs, cleanIn, spared, asked, waited>>
    BY <1>4 DEF LoopReply, ResponseCached, ResponsePassed, ResponseFailed, OnResponse
  <2>4. BaseType'
    BY <2>1, <2>2, <2>3 DEF BaseType
  <2>5. QED BY <2>1, <2>4
<1>5. CASE Clean
  <2>1. /\ cache' \in [Keys -> Entry \cup {NoEntry}]
        /\ \A j \in Keys : /\ InFlight(j)' <=> InFlight(j)
                           /\ Waiters(j)' = Waiters(j)
                           /\ Cached(j)' => Cached(j) /\ cache'[j] = cache[j]
    BY <1>5, CleanView
  <2>2. \A j \in Keys : Cached(j)' => (HasResponse(j) => HasResponse(j)')
    BY <2>1 DEF HasResponse, Cached
  <2>3. KeysInv' /\ HeldInv'
    BY <1>5, <2>1, <2>2, KeysSame, HeldSame DEF Clean
  <2>4. BaseType'
    BY <1>5, <2>1, ProxyCacheAssumption DEF Clean, BaseType
  <2>5. QED BY <2>3, <2>4
<1>6. CASE Tick
  <2>1. /\ cache' \in [Keys -> Entry \cup {NoEntry}]
        /\ \A j \in Keys : Waiters(j)' = Waiters(j)
    BY <1>6, TickView
  <2>2. KeysInv' /\ HeldInv'
    BY <1>6, <2>1, KeysTick, HeldSame DEF Tick
  <2>3. posts' \subseteq Post
    <3>1. ASSUME NEW p \in Post PROVE [p EXCEPT !.left = @ - 1] \in Post
      BY DEF Post
    <3>2. QED BY <1>6, <3>1 DEF Tick, BaseType
  <2>4. BaseType'
    BY <1>6, <2>1, <2>3 DEF Tick, BaseType
  <2>5. QED BY <2>2, <2>4
<1>7. CASE UNCHANGED vars
  <2>1. KeysInv' /\ HeldInv'
    BY <1>7, KeysSame, HeldSame DEF vars, InFlight, Waiters, Cached, HasResponse
  <2>2. BaseType'
    BY <1>7 DEF vars, BaseType
  <2>3. QED BY <2>1, <2>2
<1>8. QED
  BY <1>1, <1>2, <1>3, <1>4, <1>5, <1>6, <1>7 DEF Next, LoopJob

LEMMA SafeAlways == Spec => []SafeInv
BY SafeInit, SafeStep, PTL DEF Spec

\* The variables have their types in every reachable state, whatever the ttl
\* functions return.
THEOREM ProxyTypeCorrect == Spec => []TypeOK
<1>1. SafeInv => TypeOK
  BY DEF SafeInv, BaseType, KeysInv, TypeOK
<1>2. QED BY <1>1, SafeAlways, PTL

\* Concurrent fetches of a key, refreshes too, share one request upstream
\* (proxycache.hpp:58); its response finds its entry and somebody who waits.
THEOREM ProxyOneRequest == Spec => []OneRequestPerKey
<1>1. SafeInv => OneRequestPerKey
  BY DEF SafeInv, KeysInv
<1>2. QED BY <1>1, SafeAlways, PTL

\* No callback is lost and none is kept once it was called.
THEOREM ProxyHeldOnce == Spec => []HeldOnce
<1>1. SafeInv => HeldOnce
  <2> SUFFICES ASSUME SafeInv, NEW c \in Callbacks
               PROVE  Cardinality({i \in DOMAIN jobs : jobs[i].cb = c}
                                  \cup {k \in Keys : c \in Waiters(k)})
                        = IF c \in Pending THEN 1 ELSE 0
    BY DEF HeldOnce
  <2> DEFINE W == {k \in Keys : c \in Waiters(k)}
  <2>1. /\ jobs \in Seq(Job) /\ OneJobEach(jobs)
        /\ \A j, k \in W : j = k
        /\ c \in CallbacksIn(jobs) => W = {}
        /\ c \in Pending <=> c \in CallbacksIn(jobs) \/ W # {}
    BY DEF SafeInv, BaseType, HeldInv, Holds
  <2> HIDE DEF W
  <2>2. Cardinality({i \in DOMAIN jobs : jobs[i].cb = c} \cup W)
          = IF c \in CallbacksIn(jobs) \/ W # {} THEN 1 ELSE 0
    BY <2>1, HeldCount
  <2>3. QED BY <2>1, <2>2 DEF W
<1>2. QED BY <1>1, SafeAlways, PTL

-----------------------------------------------------------------------------
(* Idle entries go: the cleaner runs within an interval of the end of an     *)
(* entry's grace, and takes the entry unless it is in flight.                *)

IdleInv ==
  /\ -Slack <= cleanIn /\ cleanIn <= CleanInterval
  /\ \A k \in Keys \ spared : HasResponse(k) =>
       cleanIn <= cache[k].response.left + StaleGrace + CleanInterval

LEMMA IdleInit == Init => IdleInv
BY ProxyCacheAssumption DEF Init, IdleInv, HasResponse, Cached

LEMMA IdleStep == SafeInv /\ IdleInv /\ [Next]_vars => IdleInv'
<1> SUFFICES ASSUME SafeInv, IdleInv, [Next]_vars PROVE IdleInv'
  OBVIOUS
<1> USE ProxyCacheAssumption
<1>a. /\ BaseType /\ KeysInv
      /\ \A k \in Keys : HasResponse(k) => cache[k].response.left \in Int
  BY EntryOf, Entries DEF SafeInv
<1>1. ASSUME NEW c, NEW k, Refetch(c, k)
      PROVE  IdleInv'
  <2>1. \A j \in Keys : /\ HasResponse(j)' <=> HasResponse(j)
                        /\ HasResponse(j) => cache'[j].response = cache[j].response
    BY <1>1, <1>a, RefetchView
  <2>2. UNCHANGED <<cleanIn, spared>>
    BY <1>1 DEF Refetch
  <2>3. QED BY <2>1, <2>2 DEF IdleInv
<1>2. ASSUME NEW p \in posts, LoopReply(p)
      PROVE  IdleInv'
  <2>1. /\ p.key \in Keys /\ \A j \in Keys \ {p.key} : cache'[j] = cache[j]
        /\ HasResponse(p.key)' =>
             \/ cache'[p.key].response.left > 0
             \/ HasResponse(p.key)
                /\ cache'[p.key].response.left = cache[p.key].response.left
        /\ cache' \in [Keys -> Entry \cup {NoEntry}]
    BY <1>2, <1>a, ReplyFinds, ReplyView
  <2>2. UNCHANGED <<cleanIn, spared>> /\ cleanIn \in Int
    BY <1>2, <1>a
    DEF LoopReply, ResponseCached, ResponsePassed, ResponseFailed, OnResponse, BaseType
  <2>3. ASSUME NEW j \in Keys \ spared, HasResponse(j)'
        PROVE  cleanIn <= cache'[j].response.left + StaleGrace + CleanInterval
    <3>1. CASE j = p.key
      <4>1. cache'[j].response.left \in Int
        BY <2>1, <2>3, Entries DEF HasResponse, Cached
      <4>2. CASE cache'[j].response.left > 0
        BY <2>2, <4>1, <4>2 DEF IdleInv
      <4>3. CASE HasResponse(j) /\ cache'[j].response.left = cache[j].response.left
        BY <2>3, <4>3 DEF IdleInv
      <4>4. QED BY <2>1, <2>3, <3>1, <4>2, <4>3
    <3>2. CASE j # p.key
      <4>1. cache'[j] = cache[j] /\ HasResponse(j)
        BY <2>1, <2>3, <3>2 DEF HasResponse, Cached
      <4>2. QED BY <4>1 DEF IdleInv
    <3>3. QED BY <3>1, <3>2
  <2>4. QED BY <2>2, <2>3 DEF IdleInv
<1>3. CASE Clean
  <2>1. cleanIn' = CleanInterval /\ spared' = {k \in Keys : InFlight(k)}
    BY <1>3 DEF Clean
  <2>2. ASSUME NEW j \in Keys \ spared', HasResponse(j)'
        PROVE  cleanIn' <= cache'[j].response.left + StaleGrace + CleanInterval
    <3>1. cache'[j] = cache[j] /\ ~Gone(j) /\ Cached(j) /\ ~InFlight(j) /\ HasResponse(j)
      BY <1>3, <1>a, <2>1, <2>2, CleanView DEF HasResponse, Cached
    <3>2. ~(cache[j].response.left + StaleGrace < 0) /\ cache[j].response.left \in Int
      BY <1>a, <3>1 DEF Gone, PastGrace
    <3>3. QED BY <2>1, <3>1, <3>2
  <2>3. QED BY <2>1, <2>2 DEF IdleInv
<1>4. CASE Tick
  <2>1. cleanIn \in Int /\ cleanIn' = cleanIn - 1 /\ cleanIn > -Slack /\ spared' = spared
    BY <1>4, <1>a DEF Tick, BaseType
  <2>2. ASSUME NEW j \in Keys \ spared, HasResponse(j)'
        PROVE  cleanIn' <= cache'[j].response.left + StaleGrace + CleanInterval
    <3>1. /\ HasResponse(j) /\ cache[j].response.left \in Int
          /\ cache'[j].response.left \in Int
          /\ cache'[j].response.left >= cache[j].response.left - 1
      BY <1>4, <1>a, <2>2, TickView
    <3>2. cleanIn <= cache[j].response.left + StaleGrace + CleanInterval
      BY <3>1 DEF IdleInv
    <3>3. QED BY <2>1, <3>1, <3>2
  <2>3. -Slack <= cleanIn' /\ cleanIn' <= CleanInterval
    BY <2>1 DEF IdleInv
  <2>4. QED BY <2>1, <2>2, <2>3 DEF IdleInv
<1>5. ASSUME \/ \E c \in Callbacks, k \in Keys : Fetch(c, k) \/ Hit(c, k)
             \/ UNCHANGED vars
      PROVE  IdleInv'
  BY <1>5 DEF Fetch, Hit, vars, IdleInv, HasResponse, Cached
<1>6. QED
  BY <1>1, <1>2, <1>3, <1>4, <1>5 DEF Next, LoopJob

\* Nothing outlives its ttl and grace by more than a clean-up interval, unless a
\* request was in flight for it when clean() ran.
THEOREM ProxyIdleEntriesGo == Spec => []IdleEntriesGo
<1>1. SafeInv /\ IdleInv => IdleEntriesGo
  <2> SUFFICES ASSUME SafeInv, IdleInv, NEW k \in Keys \ spared, HasResponse(k)
               PROVE  ~(cache[k].response.left + StaleGrace + CleanInterval + Slack < 0)
    BY DEF IdleEntriesGo
  <2>1. cache[k].response.left \in Int /\ cleanIn \in Int
    BY EntryOf, Entries DEF SafeInv, BaseType
  <2>2. /\ -Slack <= cleanIn
        /\ cleanIn <= cache[k].response.left + StaleGrace + CleanInterval
    BY DEF IdleInv
  <2>3. QED BY <2>1, <2>2, ProxyCacheAssumption
<1>2. QED BY <1>1, SafeInit, SafeStep, IdleInit, IdleStep, PTL DEF Spec

-----------------------------------------------------------------------------
(* Hits: a request is only sent for an entry that has expired, so whatever   *)
(* it brings, the response that was there is not fresh any more.             *)

FreshInv ==
  \A k \in Keys : HasResponse(k) /\ (InFlight(k) \/ ~cache[k].response.latest)
                    => cache[k].response.left <= 0

LEMMA FreshInit == Init => FreshInv
BY DEF Init, FreshInv, HasResponse, Cached

LEMMA FreshStep == SafeInv /\ FreshInv /\ [Next]_vars => FreshInv'
<1> SUFFICES ASSUME SafeInv, FreshInv, [Next]_vars PROVE FreshInv'
  OBVIOUS
<1>a. /\ BaseType /\ KeysInv
      /\ \A k \in Keys : HasResponse(k) => cache[k].response.left \in Int
  BY EntryOf, Entries DEF SafeInv
<1>1. ASSUME NEW c, NEW k, Refetch(c, k)
      PROVE  FreshInv'
  <2>1. /\ ~IsFresh(k) /\ k \in Keys
        /\ \A j \in Keys : /\ HasResponse(j)' <=> HasResponse(j)
                           /\ HasResponse(j) => cache'[j].response = cache[j].response
                           /\ InFlight(j)' <=> InFlight(j) \/ j = k
    BY <1>1, <1>a, RefetchView
  <2>2. HasResponse(k) => cache[k].response.left <= 0
    BY <1>a, <2>1 DEF IsFresh
  <2>3. QED BY <2>1, <2>2 DEF FreshInv
<1>2. ASSUME NEW p \in posts, LoopReply(p)
      PROVE  FreshInv'
  <2>1. /\ p.key \in Keys /\ \A j \in Keys \ {p.key} : cache'[j] = cache[j]
        /\ ~InFlight(p.key)' /\ InFlight(p.key)
        /\ HasResponse(p.key)' =>
             \/ cache'[p.key].response.latest
             \/ HasResponse(p.key)
                /\ cache'[p.key].response.left = cache[p.key].response.left
    BY <1>2, <1>a, ReplyFinds, ReplyView
  <2>2. ASSUME NEW j \in Keys, HasResponse(j)', InFlight(j)' \/ ~cache'[j].response.latest
        PROVE  cache'[j].response.left <= 0
    <3>1. CASE j = p.key
      BY <2>1, <2>2, <3>1 DEF FreshInv
    <3>2. CASE j # p.key
      <4>1. cache'[j] = cache[j] /\ HasResponse(j) /\ (InFlight(j)' <=> InFlight(j))
        BY <2>1, <2>2, <3>2 DEF HasResponse, Cached, InFlight
      <4>2. QED BY <2>2, <4>1 DEF FreshInv
    <3>3. QED BY <3>1, <3>2
  <2>3. QED BY <2>2 DEF FreshInv
<1>3. CASE Clean
  <2>1. \A j \in Keys : Cached(j)' => /\ cache'[j] = cache[j] /\ Cached(j)
                                      /\ InFlight(j)' <=> InFlight(j)
    BY <1>3, <1>a, CleanView
  <2>2. QED BY <2>1 DEF FreshInv, HasResponse, Cached
<1>4. CASE Tick
  <2>1. \A j \in Keys :
          /\ HasResponse(j)' <=> HasResponse(j)
          /\ InFlight(j)' <=> InFlight(j)
          /\ HasResponse(j) =>
               /\ cache'[j].response.latest = cache[j].response.latest
               /\ cache'[j].response.left \in Int /\ cache[j].response.left \in Int
               /\ cache'[j].response.left <= cache[j].response.left
    BY <1>4, <1>a, TickView
  <2>2. QED BY <2>1 DEF FreshInv
<1>5. ASSUME \/ \E c \in Callbacks, k \in Keys : Fetch(c, k) \/ Hit(c, k)
             \/ UNCHANGED vars
      PROVE  FreshInv'
  BY <1>5 DEF Fetch, Hit, vars, FreshInv, HasResponse, Cached, InFlight
<1>6. QED
  BY <1>1, <1>2, <1>3, <1>4, <1>5 DEF Next, LoopJob

LEMMA HitLatest ==
  SafeInv /\ FreshInv /\ [Next]_vars =>
    \A c \in Callbacks : answer[c] = "none" /\ answer'[c] = "hit" =>
      cache[Head(jobs).key].response.latest
<1> SUFFICES ASSUME SafeInv, FreshInv, [Next]_vars, NEW c \in Callbacks,
                    answer[c] = "none", answer'[c] = "hit"
             PROVE  cache[Head(jobs).key].response.latest
  OBVIOUS
<1> USE DEF SafeInv
<1>1. ASSUME NEW d, NEW k, Hit(d, k)
      PROVE  cache[Head(jobs).key].response.latest
  <2>1. Head(jobs).key = k /\ k \in Keys
    BY <1>1, DequeueJob DEF Hit
  <2>2. HasResponse(k) /\ cache[k].response.left > 0
    BY <1>1 DEF Hit, IsFresh
  <2>3. cache[k].response.left \in Int /\ cache[k].response.latest \in BOOLEAN
    BY <2>1, <2>2, EntryOf, Entries
  <2>4. QED BY <2>1, <2>2, <2>3 DEF FreshInv
<1>2. ASSUME NEW p \in posts, LoopReply(p)
      PROVE  FALSE
  BY <1>2, HeldReply
<1>3. ASSUME \/ \E d \in Callbacks, k \in Keys : Fetch(d, k) \/ Refetch(d, k)
             \/ Clean \/ Tick \/ UNCHANGED vars
      PROVE  FALSE
  BY <1>3 DEF Fetch, Refetch, Clean, Tick, vars
<1>4. QED BY <1>1, <1>2, <1>3 DEF Next, LoopJob

\* A hit is never older than what somebody has already been told: a response
\* that was passed on uncached (proxycache.cpp:176) leaves nothing fresh behind.
THEOREM ProxyHitsLatest == Spec => HitsAreLatest
<1>1. SafeInv /\ FreshInv /\ [Next]_vars =>
        [\A c \in Callbacks : answer[c] = "none" /\ answer'[c] = "hit" =>
           cache[Head(jobs).key].response.latest]_vars
  BY HitLatest
<1>2. QED
  BY <1>1, SafeInit, SafeStep, FreshInit, FreshStep, PTL DEF Spec, HitsAreLatest

-----------------------------------------------------------------------------
(* Waiting times: a callback waits for its job to run and then for the       *)
(* request of its entry, and both are Slack late at most.                    *)

JobsInTime == \A c \in CallbacksIn(jobs) : waited[c] <= Slack

PostsInTime == \A p \in posts : p.left <= UpstreamTimeout

WaitersInTime ==
  \A p \in posts : \A c \in Waiters(p.key) : waited[c] + p.left <= Slack + UpstreamTimeout

DueInv ==
  /\ JobsInTime /\ PostsInTime /\ WaitersInTime
  /\ \A c \in Callbacks \ asked : waited[c] = 0

LEMMA DueInit == Init => DueInv
BY DEF Init, DueInv, JobsInTime, PostsInTime, WaitersInTime, CallbacksIn

LEMMA DueRefetch ==
  ASSUME SafeInv, DueInv, NEW c, NEW k, Refetch(c, k)
  PROVE  DueInv'
<1>1. /\ c \in Callbacks /\ k \in Keys /\ c \in CallbacksIn(jobs)
      /\ CallbacksIn(jobs') \subseteq CallbacksIn(jobs)
  BY DequeueJob DEF Refetch, SafeInv
<1>2. UNCHANGED <<asked, waited>> /\ waited[c] \in Nat /\ waited[c] <= Slack
  BY <1>1 DEF Refetch, SafeInv, BaseType, DueInv, JobsInTime
<1>3. \A j \in Keys : Waiters(j)' = IF j = k THEN Waiters(j) \cup {c} ELSE Waiters(j)
  BY RefetchView DEF SafeInv
<1> DEFINE n == [key |-> k, left |-> UpstreamTimeout]
<1>4. posts' \subseteq posts \cup {n} /\ (~InFlight(k) \/ posts' = posts)
  BY DEF Refetch, Joins
<1>5. n.key = k /\ n.left = UpstreamTimeout
  OBVIOUS
<1> HIDE DEF n
<1>6. PostsInTime'
  BY <1>4, <1>5, ProxyCacheAssumption DEF DueInv, PostsInTime
<1>7. ASSUME NEW p \in posts', NEW d \in Waiters(p.key)'
      PROVE  waited[d] + p.left <= Slack + UpstreamTimeout
  <2>1. PICK j \in Keys : j = p.key
    <3>1. p.key \in Keys
      BY <1>1, <1>4, <1>5 DEF SafeInv, BaseType, Post
    <3>2. QED BY <3>1
  <2>2. d \in Waiters(j)'
    BY <1>7, <2>1 DEF Waiters, Cached
  <2>3. p.left \in Int /\ p.left <= UpstreamTimeout
    BY <1>4, <1>5, <1>6, ProxyCacheAssumption DEF SafeInv, BaseType, Post, DueInv, PostsInTime
  <2>4. CASE d = c
    BY <1>2, <2>3, <2>4, ProxyCacheAssumption
  <2>5. CASE d # c
    <3>1. d \in Waiters(j)
      BY <1>3, <2>2, <2>5
    <3>2. CASE p \in posts
      BY <2>1, <3>1, <3>2 DEF DueInv, WaitersInTime
    <3>3. CASE p \notin posts
      <4>1. j = k /\ ~InFlight(k)
        BY <1>4, <1>5, <2>1, <3>3
      <4>2. Waiters(k) = {}
        BY <1>1, <4>1 DEF SafeInv, KeysInv, OneRequestPerKey
      <4>3. QED BY <3>1, <4>1, <4>2
    <3>4. QED BY <3>2, <3>3
  <2>6. QED BY <2>4, <2>5
<1>8. WaitersInTime'
  BY <1>2, <1>7 DEF WaitersInTime
<1>9. QED BY <1>1, <1>2, <1>6, <1>8 DEF DueInv, JobsInTime

LEMMA DueReply ==
  ASSUME SafeInv, DueInv, NEW p \in posts, LoopReply(p)
  PROVE  DueInv'
<1>1. posts' = posts \ {p} /\ UNCHANGED <<jobs, asked, waited>>
  BY DEF LoopReply, ResponseCached, ResponsePassed, ResponseFailed, OnResponse
<1>2. \A j \in Keys : Waiters(j)' \subseteq Waiters(j)
  <2>1. PICK k \in Keys : k = p.key
    BY ReplyFinds DEF SafeInv
  <2>2. Waiters(k)' = {} /\ \A j \in Keys \ {k} : cache'[j] = cache[j]
    BY <2>1, ReplyFinds, ReplyView DEF SafeInv
  <2>3. QED BY <2>2 DEF Waiters, Cached
<1>3. ASSUME NEW q \in posts', NEW d \in Waiters(q.key)'
      PROVE  waited[d] + q.left <= Slack + UpstreamTimeout
  <2>1. PICK j \in Keys : j = q.key
    BY <1>1 DEF SafeInv, BaseType, Post
  <2>2. d \in Waiters(j)'
    BY <1>3, <2>1 DEF Waiters, Cached
  <2>3. d \in Waiters(q.key)
    BY <1>2, <2>1, <2>2
  <2>4. QED BY <1>1, <2>3 DEF DueInv, WaitersInTime
<1>4. WaitersInTime'
  BY <1>1, <1>3 DEF WaitersInTime
<1>5. QED BY <1>1, <1>4 DEF DueInv, JobsInTime, PostsInTime

LEMMA DueTick ==
  ASSUME SafeInv, DueInv, Tick
  PROVE  DueInv'
<1> DEFINE later(p) == [p EXCEPT !.left = @ - 1]
<1>1. posts' = {later(p) : p \in posts} /\ UNCHANGED <<jobs, asked>>
  BY DEF Tick
<1>2. \A p \in posts : /\ p.left \in Int /\ p.key \in Keys
                       /\ later(p).key = p.key /\ later(p).left = p.left - 1
  BY DEF SafeInv, BaseType, Post
<1> HIDE DEF later
<1>3. \A c \in Callbacks : /\ waited[c] \in Nat /\ waited'[c] \in Nat
                           /\ waited'[c] <= waited[c] + 1
                           /\ c \notin asked => waited'[c] = waited[c]
  BY DEF Tick, SafeInv, BaseType, Pending
<1>4. \A j \in Keys : Waiters(j)' = Waiters(j) /\ Waiters(j) \subseteq Callbacks
  BY TickView, EntryOf DEF SafeInv
<1>5. JobsInTime'
  <2>1. \A c \in CallbacksIn(jobs) : c \in Callbacks /\ waited[c] < Slack
    BY DEF Tick, JobCallbacks, CallbacksIn, SafeInv, HeldInv
  <2>2. QED BY <1>1, <1>3, <2>1, ProxyCacheAssumption DEF JobsInTime
<1>6. PostsInTime'
  BY <1>1, <1>2, ProxyCacheAssumption DEF DueInv, PostsInTime
<1>7. ASSUME NEW p \in posts', NEW d \in Waiters(p.key)'
      PROVE  waited'[d] + p.left <= Slack + UpstreamTimeout
  <2>1. PICK q \in posts : p = later(q)
    BY <1>1
  <2>2. PICK j \in Keys : j = q.key
    BY <1>2
  <2>3. d \in Waiters(j)'
    BY <1>2, <1>7, <2>1, <2>2 DEF Waiters, Cached
  <2>4. d \in Waiters(q.key) /\ d \in Callbacks
    BY <1>4, <2>2, <2>3
  <2>5. waited[d] + q.left <= Slack + UpstreamTimeout
    BY <2>4 DEF DueInv, WaitersInTime
  <2>6. QED BY <1>2, <1>3, <2>1, <2>4, <2>5, ProxyCacheAssumption
<1>8. WaitersInTime'
  BY <1>7 DEF WaitersInTime
<1>9. QED BY <1>1, <1>3, <1>5, <1>6, <1>8 DEF DueInv

LEMMA DueStep == SafeInv /\ DueInv /\ [Next]_vars => DueInv'
<1> SUFFICES ASSUME SafeInv, DueInv, [Next]_vars PROVE DueInv'
  OBVIOUS
\* what leaves the waiters and the requests alone, and queues at most those
\* who have not waited
<1>1. ASSUME UNCHANGED <<waited, posts>>, asked \subseteq asked',
             \A j \in Keys : Waiters(j)' = Waiters(j),
             \A c \in CallbacksIn(jobs') : c \in CallbacksIn(jobs) \/ waited[c] = 0
      PROVE  DueInv'
  <2>1. JobsInTime'
    BY <1>1, ProxyCacheAssumption DEF DueInv, JobsInTime
  <2>2. WaitersInTime'
    <3>1. ASSUME NEW p \in posts, NEW d \in Waiters(p.key)'
          PROVE  waited[d] + p.left <= Slack + UpstreamTimeout
      <4>1. PICK j \in Keys : j = p.key
        BY DEF SafeInv, BaseType, Post
      <4>2. d \in Waiters(j)'
        BY <1>1, <3>1, <4>1 DEF Waiters, Cached
      <4>3. d \in Waiters(p.key)
        BY <1>1, <4>1, <4>2
      <4>4. QED BY <4>3 DEF DueInv, WaitersInTime
    <3>2. QED BY <1>1, <3>1 DEF WaitersInTime
  <2>3. QED BY <1>1, <2>1, <2>2 DEF DueInv, PostsInTime
<1>2. ASSUME NEW c \in Callbacks, NEW k \in Keys, Fetch(c, k)
      PROVE  DueInv'
  <2> DEFINE e == [cb |-> c, key |-> k]
  <2>1. e \in Job /\ e.cb = c /\ jobs' = Append(jobs, e) /\ jobs \in Seq(Job)
    BY <1>2 DEF Job, Fetch, SafeInv, BaseType
  <2> HIDE DEF e
  <2>2. CallbacksIn(jobs') = CallbacksIn(jobs) \cup {c}
    BY <2>1, JobAppended
  <2>3. waited[c] = 0 /\ UNCHANGED <<cache, posts, waited>> /\ asked \subseteq asked'
    BY <1>2 DEF Fetch, DueInv
  <2>4. QED BY <1>1, <2>2, <2>3 DEF Waiters, Cached
<1>3. ASSUME NEW c, NEW k, Hit(c, k)
      PROVE  DueInv'
  <2>1. CallbacksIn(jobs') \subseteq CallbacksIn(jobs)
    BY <1>3, DequeueJob DEF Hit, SafeInv
  <2>2. QED BY <1>1, <1>3, <2>1 DEF Hit, Waiters, Cached
<1>4. ASSUME NEW c, NEW k, Refetch(c, k) PROVE DueInv'
  BY <1>4, DueRefetch
<1>5. ASSUME NEW p \in posts, LoopReply(p) PROVE DueInv'
  BY <1>5, DueReply
<1>6. CASE Clean
  BY <1>1, <1>6, CleanView DEF Clean, SafeInv
<1>7. CASE Tick
  BY <1>7, DueTick
<1>8. CASE UNCHANGED vars
  BY <1>1, <1>8 DEF vars, Waiters, Cached
<1>9. QED
  BY <1>2, <1>3, <1>4, <1>5, <1>6, <1>7, <1>8 DEF Next, LoopJob

-----------------------------------------------------------------------------
(* The service.  Every step of ProxyCache is a step of LookupService that    *)
(* forsakes nobody.                                                          *)

LEMMA ServiceInit == Init => Service!Init
BY DEF Init, Service!Init

\* Whoever is called was waiting.
LEMMA ServiceCall ==
  ASSUME UNCHANGED <<asked, waited>>, answer' \in [Callbacks -> Answers \cup {"none"}],
         \A c \in Callbacks : answer'[c] # answer[c] => c \in Pending
  PROVE  Service!Answer
BY DEF Service!Answer, Service!Waiting, Pending

\* Time stops for nobody who is due.
LEMMA ServiceTick ==
  ASSUME SafeInv, DueInv, Tick
  PROVE  Service!Tick
<1>1. Service!Waiting = Pending
  BY DEF Service!Waiting, Pending
<1>2. ASSUME NEW c \in Pending
      PROVE  waited[c] < Deadline
  <2>1. c \in Callbacks /\ waited[c] \in Nat /\ Deadline = UpstreamTimeout + 2 * Slack
    BY DEF SafeInv, BaseType, Pending, Deadline
  <2>2. CASE c \in CallbacksIn(jobs)
    <3>1. waited[c] < Slack
      BY <2>2 DEF Tick, JobCallbacks, CallbacksIn
    <3>2. QED BY <2>1, <3>1, ProxyCacheAssumption
  <2>3. ASSUME NEW k \in Keys, c \in Waiters(k)
        PROVE  waited[c] < Deadline
    <3>1. InFlight(k)
      BY <2>3 DEF SafeInv, KeysInv, OneRequestPerKey
    <3>2. PICK p \in posts : p.key = k
      BY <3>1 DEF SafeInv, KeysInv, OneRequestPerKey
    <3>3. p.left \in Int /\ p.left > -Slack
      BY DEF Tick, SafeInv, BaseType, Post
    <3>4. waited[c] + p.left <= Slack + UpstreamTimeout
      BY <2>3, <3>2 DEF DueInv, WaitersInTime
    <3>5. QED BY <2>1, <3>3, <3>4, ProxyCacheAssumption
  <2>4. QED BY <2>1, <2>2, <2>3 DEF SafeInv, HeldInv, Holds
<1>3. QED BY <1>1, <1>2 DEF Tick, Service!Tick

LEMMA ServiceStep ==
  ASSUME SafeInv, DueInv, [Next]_vars
  PROVE  [Service!Next]_Service!vars
<1>1. CASE Tick
  BY <1>1, ServiceTick DEF Service!Next
<1> USE DEF SafeInv
<1>2. ASSUME NEW c \in Callbacks, NEW k \in Keys, Fetch(c, k)
      PROVE  Service!Ask(c)
  <2>1. answer' = [answer EXCEPT ![c] = "none"]
    BY <1>2 DEF Fetch, HeldInv, BaseType
  <2>2. QED BY <1>2, <2>1 DEF Fetch, Service!Ask
<1>3. ASSUME NEW c, NEW k, Hit(c, k)
      PROVE  Service!Answer
  BY <1>3, HeldHit, ServiceCall DEF Hit
<1>4. ASSUME NEW p \in posts, LoopReply(p)
      PROVE  Service!Answer
  <2>1. UNCHANGED <<asked, waited>>
    BY <1>4 DEF LoopReply, ResponseCached, ResponsePassed, ResponseFailed, OnResponse
  <2>2. QED BY <1>4, <2>1, HeldReply, ServiceCall
<1>5. ASSUME \/ \E c \in Callbacks, k \in Keys : Refetch(c, k)
             \/ Clean \/ UNCHANGED vars
      PROVE  UNCHANGED Service!vars
  BY <1>5 DEF Refetch, Clean, vars, Service!vars
<1>6. QED
  BY <1>1, <1>2, <1>3, <1>4, <1>5 DEF Next, LoopJob, Service!Next

\* ProxyCache implements LookupService, for any ttls, grace and clean-up
\* periods, timeout and lateness of the loop, whatever upstream replies: each
\* fetch sees one answer, within Deadline, and no waiter is dropped.
THEOREM ProxyImplementsService == Spec => ServicePromise
<1>1. SafeInv /\ DueInv /\ [Next]_vars => [Service!Next]_Service!vars
  BY ServiceStep
<1>2. QED
  BY <1>1, SafeInit, SafeStep, DueInit, DueStep, ServiceInit, PTL
  DEF Spec, ServicePromise, Service!Spec
=============================================================================
