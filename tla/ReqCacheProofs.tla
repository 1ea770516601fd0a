--------------------------- MODULE ReqCacheProofs ---------------------------
(***************************************************************************)
(* Theorems about ReqCache, for any keys, callbacks, times and replies.    *)
(***************************************************************************)
EXTENDS ReqCache, CommonLemmas

-----------------------------------------------------------------------------
(* The entries *)

\* An entry is pending or done, never both, and never NoItem.
LEMMA Items ==
  /\ \A e \in PendingItem : /\ e # NoItem
                            /\ "callbacks" \in DOMAIN e /\ "result" \notin DOMAIN e
                            /\ e.sent \in BOOLEAN /\ e.callbacks \subseteq Callbacks
  /\ \A e \in DoneItem : /\ e # NoItem
                         /\ "callbacks" \notin DOMAIN e /\ "result" \in DOMAIN e
                         /\ e.result \in Results /\ e.left \in Int
BY NoItemAssumption DEF PendingItem, DoneItem

\* The types; that only asked callbacks are lost is for HeldInv to say.
BaseType ==
  /\ jobs \in Seq(Job)
  /\ cache \in [Keys -> PendingItem \cup DoneItem \cup {NoItem}]
  /\ cleanIn \in Int
  /\ posts \subseteq Post
  /\ lost \subseteq Callbacks
  /\ asked \subseteq Callbacks
  /\ waited \in [Callbacks -> Nat]
  /\ answer \in [Callbacks -> {"none", "failed", "object"}]

LEMMA WaitersType ==
  ASSUME BaseType, NEW k \in Keys
  PROVE  /\ Waiters(k) \subseteq Callbacks
         /\ IsPending(k) <=> cache[k] \in PendingItem
         /\ IsDone(k) <=> cache[k] \in DoneItem
         /\ ~(IsPending(k) /\ IsDone(k))
         /\ IsPending(k) \/ IsDone(k) \/ cache[k] = NoItem
BY Items DEF BaseType, Waiters, IsPending, IsDone

\* The job that is taken is the first, and it asks for c and k.
LEMMA DequeueJob ==
  ASSUME BaseType, NEW c, NEW k, Dequeue(c, k)
  PROVE  /\ c \in Callbacks /\ k \in Keys
         /\ jobs' \in Seq(Job)
         /\ c \in CallbacksIn(jobs)
         /\ CallbacksIn(jobs') \subseteq CallbacksIn(jobs)
         /\ OneJobEach(jobs) => /\ OneJobEach(jobs')
                                /\ CallbacksIn(jobs') = CallbacksIn(jobs) \ {c}
<1> DEFINE h == [cb |-> c, key |-> k]
<1>1. jobs \in Seq(Job) /\ jobs # <<>> /\ Head(jobs) = h /\ jobs' = Tail(jobs)
  BY DEF BaseType, Dequeue
<1>2. h.cb = c /\ h.key = k
  OBVIOUS
<1> HIDE DEF h
<1>3. h \in Job
  BY <1>1, JobTaken
<1>4. c \in Callbacks /\ k \in Keys
  BY <1>2, <1>3 DEF Job
<1>5. QED BY <1>1, <1>2, <1>4, JobTaken

-----------------------------------------------------------------------------
(* What the steps do to the entries *)

\* A lookup for a key that is not done becomes a waiter of its entry.
LEMMA WaitView ==
  ASSUME BaseType, NEW c, NEW k, Wait(c, k)
  PROVE  /\ c \in Callbacks /\ k \in Keys /\ ~IsDone(k)
         /\ cache' \in [Keys -> PendingItem \cup DoneItem \cup {NoItem}]
         /\ IsPending(k)' /\ cache'[k].sent
         /\ \A j \in Keys \ {k} : cache'[j] = cache[j]
         /\ \A j \in Keys : /\ IsPending(j)' <=> IsPending(j) \/ j = k
                            /\ IsDone(j)' <=> IsDone(j)
                            /\ Waiters(j)' = IF j = k THEN Waiters(j) \cup {c} ELSE Waiters(j)
<1> DEFINE e == [sent |-> TRUE, callbacks |-> Waiters(k) \cup {c}]
<1>1. c \in Callbacks /\ k \in Keys /\ ~IsDone(k)
  BY DequeueJob DEF Wait
<1>2. e \in PendingItem /\ e.sent /\ e.callbacks = Waiters(k) \cup {c}
  BY <1>1, WaitersType DEF PendingItem
<1>3. cache' = [cache EXCEPT ![k] = e]
  BY DEF Wait
<1> HIDE DEF e
<1>4. /\ cache' \in [Keys -> PendingItem \cup DoneItem \cup {NoItem}]
      /\ cache'[k] = e /\ \A j \in Keys \ {k} : cache'[j] = cache[j]
  BY <1>1, <1>2, <1>3 DEF BaseType
<1>5. e # NoItem /\ "callbacks" \in DOMAIN e /\ "result" \notin DOMAIN e
  BY <1>2, Items
<1>6. IsPending(k)' /\ ~IsDone(k)' /\ Waiters(k)' = Waiters(k) \cup {c}
  BY <1>2, <1>4, <1>5 DEF IsPending, IsDone, Waiters
<1>7. \A j \in Keys \ {k} : /\ IsPending(j)' <=> IsPending(j)
                            /\ IsDone(j)' <=> IsDone(j)
                            /\ Waiters(j)' = Waiters(j)
  BY <1>4 DEF IsPending, IsDone, Waiters
<1>8. QED BY <1>1, <1>2, <1>4, <1>6, <1>7

\* A response that finds its entry ends its wait.
LEMMA ReplyView ==
  ASSUME BaseType, NEW p \in posts, LoopReply(p), cache[p.key] # NoItem
  PROVE  /\ p.key \in Keys
         /\ cache' \in [Keys -> PendingItem \cup DoneItem \cup {NoItem}]
         /\ \A j \in Keys \ {p.key} : cache'[j] = cache[j]
         /\ IsDone(p.key)' => cache'[p.key].left = CacheExpiry
         /\ \A j \in Keys : /\ IsPending(j)' <=> IsPending(j) /\ j # p.key
                            /\ Waiters(j)' = IF j = p.key THEN {} ELSE Waiters(j)
<1>1. PICK k \in Keys : k = p.key
  BY DEF BaseType, Post
<1>2. PICK e \in DoneItem \cup {NoItem} :
        /\ cache' = [cache EXCEPT ![k] = e]
        /\ e # NoItem => e.left = CacheExpiry
  <2>1. CASE ReplyFailure(p)
    BY <1>1, <2>1 DEF ReplyFailure, NoEntry, Erased
  <2>2. ASSUME NEW r \in Results, ReplyResult(p, r)
        PROVE  \E e \in DoneItem \cup {NoItem} : /\ cache' = [cache EXCEPT ![k] = e]
                                                 /\ e # NoItem => e.left = CacheExpiry
    <3> DEFINE e == [result |-> r, left |-> CacheExpiry]
    <3>1. e \in DoneItem /\ e.left = CacheExpiry
      BY ReqCacheAssumption DEF DoneItem
    <3>2. cache' = [cache EXCEPT ![k] = e]
      BY <1>1, <2>2 DEF ReplyResult, NoEntry
    <3> HIDE DEF e
    <3>3. QED BY <3>1, <3>2
  <2>3. QED BY <2>1, <2>2 DEF LoopReply
<1>3. /\ cache' \in [Keys -> PendingItem \cup DoneItem \cup {NoItem}]
      /\ cache'[k] = e /\ \A j \in Keys \ {k} : cache'[j] = cache[j]
  BY <1>2 DEF BaseType
<1>4. ~IsPending(k)' /\ Waiters(k)' = {} /\ (IsDone(k)' => cache'[k].left = CacheExpiry)
  BY <1>2, <1>3, Items DEF IsPending, IsDone, Waiters
<1>5. \A j \in Keys \ {k} : (IsPending(j)' <=> IsPending(j)) /\ Waiters(j)' = Waiters(j)
  BY <1>3 DEF IsPending, Waiters
<1>6. QED BY <1>1, <1>3, <1>4, <1>5

\* The clean-up takes done entries only.
LEMMA CleanView ==
  ASSUME BaseType, CleanCache
  PROVE  /\ cache' \in [Keys -> PendingItem \cup DoneItem \cup {NoItem}]
         /\ \A j \in Keys : /\ IsPending(j)' <=> IsPending(j)
                            /\ IsPending(j) => cache'[j] = cache[j]
                            /\ Waiters(j)' = Waiters(j)
                            /\ IsDone(j)' => /\ IsDone(j) /\ cache'[j] = cache[j]
                                             /\ ~(cache[j].left < 0)
<1>1. \A j \in Keys : cache'[j] = IF Expired(j) THEN NoItem ELSE cache[j]
  BY DEF CleanCache
<1>2. cache' \in [Keys -> PendingItem \cup DoneItem \cup {NoItem}]
  BY <1>1 DEF CleanCache, BaseType
<1>3. \A j \in Keys : Expired(j) <=> IsDone(j) /\ cache[j].left < 0
  BY DEF Expired
<1>4. \A j \in Keys : ~(IsPending(j) /\ IsDone(j))
  BY WaitersType
<1>5. QED BY <1>1, <1>2, <1>3, <1>4 DEF IsPending, IsDone, Waiters

\* Time ages the done entries.
LEMMA TickView ==
  ASSUME BaseType, Tick
  PROVE  /\ cache' \in [Keys -> PendingItem \cup DoneItem \cup {NoItem}]
         /\ \A j \in Keys : /\ IsPending(j)' <=> IsPending(j)
                            /\ IsPending(j) => cache'[j] = cache[j]
                            /\ Waiters(j)' = Waiters(j)
                            /\ IsDone(j)' <=> IsDone(j)
                            /\ IsDone(j) => cache'[j].left = cache[j].left - 1
<1> DEFINE older(e) == [e EXCEPT !.left = @ - 1]
<1>1. \A j \in Keys : cache'[j] = IF IsDone(j) THEN older(cache[j]) ELSE cache[j]
  BY DEF Tick
<1>2. \A e \in DoneItem : older(e) \in DoneItem /\ older(e).left = e.left - 1
  BY DEF DoneItem
<1> HIDE DEF older
<1>3. \A j \in Keys : IsDone(j) => cache[j] \in DoneItem
  BY WaitersType
<1>4. cache' = [j \in Keys |-> cache'[j]]
  BY DEF Tick
<1>5. cache' \in [Keys -> PendingItem \cup DoneItem \cup {NoItem}]
  <2>1. \A j \in Keys : cache'[j] \in PendingItem \cup DoneItem \cup {NoItem}
    BY <1>1, <1>2, <1>3 DEF BaseType
  <2>2. QED BY <1>4, <2>1
<1>6. ASSUME NEW j \in Keys, IsDone(j)
      PROVE  /\ IsDone(j)' /\ ~IsPending(j)' /\ Waiters(j)' = {} /\ Waiters(j) = {}
             /\ ~IsPending(j) /\ cache'[j].left = cache[j].left - 1
  <2>1. cache'[j] \in DoneItem /\ cache[j] \in DoneItem
        /\ cache'[j].left = cache[j].left - 1
    BY <1>1, <1>2, <1>3, <1>6
  <2>2. QED BY <2>1, Items DEF IsPending, IsDone, Waiters
<1>7. ASSUME NEW j \in Keys, ~IsDone(j)
      PROVE  /\ cache'[j] = cache[j] /\ ~IsDone(j)' /\ (IsPending(j)' <=> IsPending(j))
             /\ Waiters(j)' = Waiters(j)
  BY <1>1, <1>7 DEF IsPending, IsDone, Waiters
<1>8. QED BY <1>5, <1>6, <1>7

-----------------------------------------------------------------------------
(* One request for each pending key. *)

KeysInv ==
  /\ OneRequestPerKey
  /\ \A k \in Keys : IsPending(k) => cache[k].sent

\* Neither the requests nor the pending entries change.
LEMMA KeysSame ==
  ASSUME KeysInv, UNCHANGED posts,
         \A k \in Keys : /\ IsPending(k)' <=> IsPending(k)
                         /\ IsPending(k) => cache'[k] = cache[k]
  PROVE  KeysInv'
BY DEF KeysInv, OneRequestPerKey

LEMMA KeysWait ==
  ASSUME BaseType, KeysInv, NEW c, NEW k, Wait(c, k)
  PROVE  KeysInv'
<1>1. /\ k \in Keys /\ IsPending(k)' /\ cache'[k].sent
      /\ \A j \in Keys : IsPending(j)' <=> IsPending(j) \/ j = k
      /\ \A j \in Keys \ {k} : cache'[j] = cache[j]
  BY WaitView
<1>2. \A j \in Keys : IsPending(j)' => cache'[j].sent
  BY <1>1 DEF KeysInv
<1>3. CASE IsPending(k)
  <2>1. Sent(k) /\ posts' = posts
    BY <1>3, <1>1 DEF Sent, KeysInv, Wait
  <2>2. QED BY <1>1, <1>2, <1>3, <2>1 DEF KeysInv, OneRequestPerKey
<1>4. CASE ~IsPending(k)
  <2> DEFINE n == [key |-> k, left |-> UpstreamTimeout]
  <2>1. posts' = posts \cup {n}
    BY <1>4 DEF Sent, Wait
  <2>2. n.key = k
    OBVIOUS
  <2> HIDE DEF n
  <2>3. {p.key : p \in posts} = {j \in Keys : IsPending(j)}
    BY DEF KeysInv, OneRequestPerKey
  <2>4. \A p \in posts : p.key # k
    BY <1>4, <2>3
  <2>5. {p.key : p \in posts'} = {p.key : p \in posts} \cup {k}
    BY <2>1, <2>2
  <2>6. {p.key : p \in posts'} = {j \in Keys : IsPending(j)'}
    BY <1>1, <2>3, <2>5
  <2>7. \A p1, p2 \in posts' : p1.key = p2.key => p1 = p2
    BY <2>1, <2>2, <2>4 DEF KeysInv, OneRequestPerKey
  <2>8. QED BY <1>2, <2>6, <2>7 DEF KeysInv, OneRequestPerKey
<1>5. QED BY <1>3, <1>4

\* A response finds its entry.
LEMMA ReplyFinds ==
  ASSUME KeysInv, NEW p \in posts
  PROVE  p.key \in Keys /\ IsPending(p.key) /\ cache[p.key] # NoItem
BY DEF KeysInv, OneRequestPerKey, IsPending

LEMMA KeysReply ==
  ASSUME BaseType, KeysInv, NEW p \in posts, LoopReply(p)
  PROVE  KeysInv'
<1>1. /\ \A j \in Keys : IsPending(j)' <=> IsPending(j) /\ j # p.key
      /\ \A j \in Keys \ {p.key} : cache'[j] = cache[j]
  BY ReplyFinds, ReplyView
<1>2. posts' = posts \ {p}
  BY DEF LoopReply, ReplyFailure, ReplyResult
<1>3. \A j \in Keys : IsPending(j)' => cache'[j].sent
  BY <1>1 DEF KeysInv
<1>4. {q.key : q \in posts'} = {q.key : q \in posts} \ {p.key}
  BY <1>2 DEF KeysInv, OneRequestPerKey
<1>5. {q.key : q \in posts'} = {j \in Keys : IsPending(j)'}
  BY <1>1, <1>4 DEF KeysInv, OneRequestPerKey
<1>6. QED BY <1>2, <1>3, <1>5 DEF KeysInv, OneRequestPerKey

LEMMA KeysTick ==
  ASSUME BaseType, KeysInv, Tick
  PROVE  KeysInv'
<1> DEFINE later(p) == [p EXCEPT !.left = @ - 1]
<1>1. posts' = {later(p) : p \in posts}
  BY DEF Tick
<1>2. \A p \in posts : later(p).key = p.key
  BY DEF BaseType, Post
<1> HIDE DEF later
<1>3. {p.key : p \in posts'} = {p.key : p \in posts}
  BY <1>1, <1>2
<1>4. \A p1, p2 \in posts' : p1.key = p2.key => p1 = p2
  BY <1>1, <1>2 DEF KeysInv, OneRequestPerKey
<1>5. \A k \in Keys : /\ IsPending(k)' <=> IsPending(k)
                      /\ IsPending(k) => cache'[k] = cache[k]
  BY TickView
<1>6. QED BY <1>3, <1>4, <1>5 DEF KeysInv, OneRequestPerKey

-----------------------------------------------------------------------------
(* A callback is in one job or waits in one entry until it is called or      *)
(* dropped.                                                                  *)

Holds(c) == \E k \in Keys : c \in Waiters(k)

HeldInv ==
  /\ OneJobEach(jobs)
  /\ \A c \in Callbacks : \A j, k \in Keys :
       c \in Waiters(j) /\ c \in Waiters(k) => j = k
  /\ \A c \in CallbacksIn(jobs) : c \in Callbacks /\ ~Holds(c)
  /\ \A c \in Callbacks : c \in Pending \ lost <=> c \in CallbacksIn(jobs) \/ Holds(c)
  /\ lost \subseteq Pending
  /\ \A c \in Callbacks \ asked : answer[c] = "none"

\* What a call of callbacks that wait does to them.
LEMMA CallSettles ==
  ASSUME BaseType, HeldInv, NEW C \in SUBSET Callbacks, C \subseteq Pending \ lost,
         NEW result \in {"failed", "object", "scalar"}, Call(C, result), UNCHANGED asked
  PROVE  /\ lost' \subseteq Callbacks /\ lost \subseteq lost' /\ lost' \subseteq Pending'
         /\ answer' \in [Callbacks -> {"none", "failed", "object"}]
         /\ \A c \in Callbacks : c \in (Pending \ lost)' <=> c \in (Pending \ lost) \ C
         /\ \A c \in Callbacks : answer'[c] # answer[c] => c \in C
         /\ \A c \in Callbacks \ asked' : answer'[c] = "none"
<1>1. \A c \in C : c \in asked /\ answer[c] = "none" /\ c \notin lost
  BY DEF Pending
<1>2. CASE result = "scalar"
  <2>1. lost' = lost \cup C /\ answer' = answer
    BY <1>2 DEF Call
  <2>2. QED BY <1>1, <2>1 DEF BaseType, HeldInv, Pending
<1>3. CASE result # "scalar"
  <2>1. lost' = lost /\ answer' = [c \in Callbacks |-> IF c \in C THEN result ELSE answer[c]]
    BY <1>3 DEF Call
  <2>2. answer' \in [Callbacks -> {"none", "failed", "object"}] /\ result # "none"
    BY <1>3, <2>1 DEF BaseType
  <2>3. \A c \in Callbacks : answer'[c] = IF c \in C THEN result ELSE answer[c]
    BY <2>1
  <2>4. \A c \in lost : answer'[c] = "none" /\ c \in asked /\ c \in Callbacks
    BY <1>1, <2>3 DEF HeldInv, Pending, BaseType
  <2>5. QED BY <1>1, <2>1, <2>2, <2>3, <2>4 DEF BaseType, HeldInv, Pending
<1>4. QED BY <1>2, <1>3

LEMMA HeldLookup ==
  ASSUME BaseType, HeldInv, NEW c \in Callbacks, NEW k \in Keys, Lookup(c, k)
  PROVE  HeldInv' /\ jobs' \in Seq(Job)
<1> DEFINE e == [cb |-> c, key |-> k]
<1>1. e \in Job /\ e.cb = c /\ jobs' = Append(jobs, e) /\ jobs \in Seq(Job)
  BY DEF Job, Lookup, BaseType
<1> HIDE DEF e
<1>2. /\ c \notin asked /\ asked' = asked \cup {c}
      /\ UNCHANGED <<cache, lost, answer>>
  BY DEF Lookup
<1>3. c \notin Pending /\ c \notin CallbacksIn(jobs) /\ ~Holds(c) /\ answer[c] = "none"
  BY <1>2 DEF HeldInv, Pending
<1>4. /\ jobs' \in Seq(Job) /\ OneJobEach(jobs')
      /\ CallbacksIn(jobs') = CallbacksIn(jobs) \cup {c}
  BY <1>1, <1>3, JobAppended DEF HeldInv
<1>5. \A d : Holds(d)' <=> Holds(d)
  BY <1>2 DEF Holds, Waiters, IsPending
<1>6. \A d \in Callbacks : d \in (Pending \ lost)' <=> d \in (Pending \ lost) \/ d = c
  BY <1>2, <1>3 DEF Pending, HeldInv
<1>7. \A j \in Keys : Waiters(j)' = Waiters(j)
  BY <1>2 DEF Waiters, IsPending
<1>8. QED BY <1>2, <1>3, <1>4, <1>5, <1>6, <1>7 DEF HeldInv, Pending

LEMMA HeldHit ==
  ASSUME BaseType, HeldInv, NEW c, NEW k, Hit(c, k)
  PROVE  /\ HeldInv' /\ lost' \subseteq Callbacks /\ lost \subseteq lost'
         /\ answer' \in [Callbacks -> {"none", "failed", "object"}]
         /\ \A d \in Callbacks : answer'[d] # answer[d] => d \in Pending \ lost
<1>1. /\ c \in Callbacks /\ k \in Keys /\ c \in CallbacksIn(jobs)
      /\ OneJobEach(jobs') /\ CallbacksIn(jobs') = CallbacksIn(jobs) \ {c}
  BY DequeueJob DEF Hit, HeldInv
<1>2. c \in Pending \ lost /\ ~Holds(c)
  BY <1>1 DEF HeldInv
<1>3. cache[k].result \in {"failed", "object", "scalar"}
  BY <1>1, WaitersType, Items DEF Hit, Results
<1>4. Call({c}, cache[k].result) /\ UNCHANGED <<cache, asked>>
  BY DEF Hit
<1>5. /\ lost' \subseteq Callbacks /\ lost \subseteq lost' /\ lost' \subseteq Pending'
      /\ answer' \in [Callbacks -> {"none", "failed", "object"}]
      /\ \A d \in Callbacks : d \in (Pending \ lost)' <=> d \in (Pending \ lost) \ {c}
      /\ \A d \in Callbacks : answer'[d] # answer[d] => d = c
      /\ \A d \in Callbacks \ asked' : answer'[d] = "none"
  BY <1>1, <1>2, <1>3, <1>4, CallSettles
<1>6. /\ \A d : Holds(d)' <=> Holds(d)
      /\ \A j \in Keys : Waiters(j)' = Waiters(j)
  BY <1>4 DEF Holds, Waiters, IsPending
<1>7. HeldInv'
  BY <1>1, <1>2, <1>5, <1>6 DEF HeldInv
<1>8. QED BY <1>2, <1>5, <1>7

LEMMA HeldWait ==
  ASSUME BaseType, HeldInv, NEW c, NEW k, Wait(c, k)
  PROVE  HeldInv'
<1>1. /\ c \in Callbacks /\ k \in Keys /\ c \in CallbacksIn(jobs)
      /\ OneJobEach(jobs') /\ CallbacksIn(jobs') = CallbacksIn(jobs) \ {c}
  BY DequeueJob DEF Wait, HeldInv
<1>2. UNCHANGED <<lost, asked, answer>>
  BY DEF Wait
<1>3. \A j \in Keys : Waiters(j)' = IF j = k THEN Waiters(j) \cup {c} ELSE Waiters(j)
  BY WaitView
<1>4. \A d : Holds(d)' <=> Holds(d) \/ d = c
  BY <1>1, <1>3 DEF Holds
<1>5. ~Holds(c)
  BY <1>1 DEF HeldInv
<1>6. \A d \in Callbacks : \A i, j \in Keys : d \in Waiters(i)' /\ d \in Waiters(j)' => i = j
  BY <1>3, <1>5 DEF HeldInv, Holds
<1>7. QED BY <1>1, <1>2, <1>4, <1>6 DEF HeldInv, Pending

LEMMA HeldReply ==
  ASSUME BaseType, KeysInv, HeldInv, NEW p \in posts, LoopReply(p)
  PROVE  /\ HeldInv' /\ lost' \subseteq Callbacks /\ lost \subseteq lost'
         /\ answer' \in [Callbacks -> {"none", "failed", "object"}]
         /\ \A d \in Callbacks : answer'[d] # answer[d] => d \in Pending \ lost
<1>1. PICK k \in Keys : k = p.key
  BY ReplyFinds
<1>2. \A j \in Keys : Waiters(j)' = IF j = k THEN {} ELSE Waiters(j)
  BY <1>1, ReplyFinds, ReplyView
<1>3. UNCHANGED <<jobs, asked>>
  BY DEF LoopReply, ReplyFailure, ReplyResult
<1>4. PICK result \in {"failed", "object", "scalar"} : Call(Waiters(k), result)
  BY <1>1, ReplyFinds DEF LoopReply, ReplyFailure, ReplyResult, NoEntry, Results
<1>5. Waiters(k) \subseteq Callbacks /\ Waiters(k) \subseteq Pending \ lost
  BY WaitersType DEF HeldInv, Holds
<1>6. /\ lost' \subseteq Callbacks /\ lost \subseteq lost' /\ lost' \subseteq Pending'
      /\ answer' \in [Callbacks -> {"none", "failed", "object"}]
      /\ \A d \in Callbacks : d \in (Pending \ lost)' <=> d \in (Pending \ lost) \ Waiters(k)
      /\ \A d \in Callbacks : answer'[d] # answer[d] => d \in Waiters(k)
      /\ \A d \in Callbacks \ asked' : answer'[d] = "none"
  BY <1>3, <1>4, <1>5, CallSettles
<1>7. \A d \in Callbacks : Holds(d)' <=> Holds(d) /\ d \notin Waiters(k)
  BY <1>2 DEF Holds, HeldInv
<1>8. \A d \in CallbacksIn(jobs) : d \notin Waiters(k) /\ d \in Callbacks /\ ~Holds(d)'
  BY <1>7 DEF HeldInv, Holds
<1>9. \A d \in Callbacks : \A i, j \in Keys : d \in Waiters(i)' /\ d \in Waiters(j)' => i = j
  BY <1>2 DEF HeldInv
<1>10. HeldInv'
  BY <1>3, <1>6, <1>7, <1>8, <1>9 DEF HeldInv
<1>11. QED BY <1>5, <1>6, <1>10

\* The clean-up, time and stuttering leave the callbacks where they are.
LEMMA HeldSame ==
  ASSUME HeldInv, UNCHANGED <<jobs, lost, asked, answer>>,
         \A k \in Keys : Waiters(k)' = Waiters(k)
  PROVE  HeldInv'
<1>1. \A c : Holds(c)' <=> Holds(c)
  BY DEF Holds
<1>2. Pending' = Pending
  BY DEF Pending
<1>3. QED BY <1>1, <1>2 DEF HeldInv

-----------------------------------------------------------------------------
(* The steps keep the types and what is said of keys and callbacks. *)

SafeInv == BaseType /\ KeysInv /\ HeldInv

LEMMA SafeInit == Init => SafeInv
<1> SUFFICES ASSUME Init PROVE SafeInv
  OBVIOUS
<1>1. BaseType
  BY ReqCacheAssumption DEF Init, BaseType
<1>2. KeysInv
  BY DEF Init, KeysInv, OneRequestPerKey, IsPending
<1>3. HeldInv
  BY DEF Init, HeldInv, OneJobEach, CallbacksIn, Holds, Waiters, IsPending, Pending
<1>4. QED BY <1>1, <1>2, <1>3 DEF SafeInv

LEMMA SafeStep == SafeInv /\ [Next]_vars => SafeInv'
<1> SUFFICES ASSUME SafeInv, [Next]_vars PROVE SafeInv'
  OBVIOUS
<1> USE DEF SafeInv
<1>1. ASSUME NEW c \in Callbacks, NEW k \in Keys, Lookup(c, k)
      PROVE  SafeInv'
  <2>1. HeldInv' /\ jobs' \in Seq(Job)
    BY <1>1, HeldLookup
  <2>2. BaseType'
    BY <1>1, <2>1 DEF Lookup, BaseType
  <2>3. KeysInv'
    BY <1>1, KeysSame DEF Lookup, IsPending
  <2>4. QED BY <2>1, <2>2, <2>3
<1>2. ASSUME NEW c \in Callbacks, NEW k \in Keys, Hit(c, k)
      PROVE  SafeInv'
  <2>1. /\ HeldInv' /\ lost' \subseteq Callbacks
        /\ answer' \in [Callbacks -> {"none", "failed", "object"}]
        /\ jobs' \in Seq(Job)
    BY <1>2, HeldHit, DequeueJob DEF Hit
  <2>2. BaseType'
    BY <1>2, <2>1 DEF Hit, BaseType
  <2>3. KeysInv'
    BY <1>2, KeysSame DEF Hit, IsPending
  <2>4. QED BY <2>1, <2>2, <2>3
<1>3. ASSUME NEW c \in Callbacks, NEW k \in Keys, Wait(c, k)
      PROVE  SafeInv'
  <2>1. HeldInv' /\ KeysInv'
    BY <1>3, HeldWait, KeysWait
  <2>2. /\ jobs' \in Seq(Job)
        /\ cache' \in [Keys -> PendingItem \cup DoneItem \cup {NoItem}]
    BY <1>3, DequeueJob, WaitView DEF Wait
  <2>3. posts' \subseteq Post
    BY <1>3, ReqCacheAssumption DEF Wait, BaseType, Post
  <2>4. BaseType'
    BY <1>3, <2>2, <2>3 DEF Wait, BaseType
  <2>5. QED BY <2>1, <2>4
<1>4. ASSUME NEW p \in posts, LoopReply(p)
      PROVE  SafeInv'
  <2>1. /\ HeldInv' /\ KeysInv' /\ lost' \subseteq Callbacks
        /\ answer' \in [Callbacks -> {"none", "failed", "object"}]
    BY <1>4, HeldReply, KeysReply
  <2>2. cache' \in [Keys -> PendingItem \cup DoneItem \cup {NoItem}]
    BY <1>4, ReplyFinds, ReplyView
  <2>3. posts' \subseteq posts /\ UNCHANGED <<jobs, cleanIn, asked, waited>>
    BY <1>4 DEF LoopReply, ReplyFailure, ReplyResult
  <2>4. BaseType'
    BY <2>1, <2>2, <2>3 DEF BaseType
  <2>5. QED BY <2>1, <2>4
<1>5. CASE CleanCache
  <2>1. /\ cache' \in [Keys -> PendingItem \cup DoneItem \cup {NoItem}]
        /\ \A j \in Keys : /\ IsPending(j)' <=> IsPending(j)
                           /\ IsPending(j) => cache'[j] = cache[j]
                           /\ Waiters(j)' = Waiters(j)
    BY <1>5, CleanView
  <2>2. KeysInv' /\ HeldInv'
    BY <1>5, <2>1, KeysSame, HeldSame DEF CleanCache
  <2>3. BaseType'
    BY <1>5, <2>1, ReqCacheAssumption DEF CleanCache, BaseType
  <2>4. QED BY <2>2, <2>3
<1>6. CASE Tick
  <2>1. /\ cache' \in [Keys -> PendingItem \cup DoneItem \cup {NoItem}]
        /\ \A j \in Keys : Waiters(j)' = Waiters(j)
    BY <1>6, TickView
  <2>2. KeysInv' /\ HeldInv'
    BY <1>6, <2>1, KeysTick, HeldSame DEF Tick
  <2>3. posts' \subseteq Post
    <3>1. ASSUME NEW p \in Post PROVE [p EXCEPT !.left = @ - 1] \in Post
      BY DEF Post
    <3>2. QED BY <1>6, <3>1 DEF Tick, BaseType
  <2>4. BaseType'
    BY <1>6, <2>1, <2>3 DEF Tick, BaseType
  <2>5. QED BY <2>2, <2>4
<1>7. CASE Ended \/ UNCHANGED vars
  <2>1. KeysInv' /\ HeldInv'
    BY <1>7, KeysSame, HeldSame DEF Ended, vars, IsPending, Waiters
  <2>2. BaseType'
    BY <1>7 DEF Ended, vars, BaseType
  <2>3. QED BY <2>1, <2>2
<1>8. QED
  BY <1>1, <1>2, <1>3, <1>4, <1>5, <1>6, <1>7 DEF Next, LoopJob

LEMMA SafeAlways == Spec => []SafeInv
BY SafeInit, SafeStep, PTL DEF Spec

LEMMA DownAlways == Spec => [](down \in BOOLEAN)
<1>1. Init => down \in BOOLEAN
  BY DEF Init
<1>2. down \in BOOLEAN /\ [Next]_vars => (down \in BOOLEAN)'
  BY DEF Next, LoopJob, LoopReply, Lookup, Hit, Wait, ReplyFailure, ReplyResult,
         CleanCache, Tick, Ended, vars
<1>3. QED BY <1>1, <1>2, PTL DEF Spec

\* The variables have their types, and only callbacks that were handed to
\* lookup() are ever dropped, whatever upstream replies.
THEOREM ReqTypeCorrect == Spec => []TypeOK
<1>1. SafeInv /\ down \in BOOLEAN => TypeOK
  BY DEF SafeInv, BaseType, HeldInv, Pending, TypeOK
<1>2. QED BY <1>1, SafeAlways, DownAlways, PTL

\* Identical requests share one request upstream (reqcache.hpp:49), and its
\* response always finds the entry that waits for it.
THEOREM ReqOneRequest == Spec => []OneRequestPerKey
<1>1. SafeInv => OneRequestPerKey
  BY DEF SafeInv, KeysInv
<1>2. QED BY <1>1, SafeAlways, PTL

\* No callback is lost but by an exception, and none is kept once it was called.
THEOREM ReqHeldOnce == Spec => []HeldOnce
<1>1. SafeInv => HeldOnce
  <2> SUFFICES ASSUME SafeInv, NEW c \in Callbacks
               PROVE  Cardinality({i \in DOMAIN jobs : jobs[i].cb = c}
                                  \cup {k \in Keys : c \in Waiters(k)})
                        = IF c \in Pending \ lost THEN 1 ELSE 0
    BY DEF HeldOnce
  <2> DEFINE W == {k \in Keys : c \in Waiters(k)}
  <2>1. /\ jobs \in Seq(Job) /\ OneJobEach(jobs)
        /\ \A j, k \in W : j = k
        /\ c \in CallbacksIn(jobs) => W = {}
        /\ c \in Pending \ lost <=> c \in CallbacksIn(jobs) \/ W # {}
    BY DEF SafeInv, BaseType, HeldInv, Holds
  <2> HIDE DEF W
  <2>2. Cardinality({i \in DOMAIN jobs : jobs[i].cb = c} \cup W)
          = IF c \in CallbacksIn(jobs) \/ W # {} THEN 1 ELSE 0
    BY <2>1, HeldCount
  <2>3. QED BY <2>1, <2>2 DEF W
<1>2. QED BY <1>1, SafeAlways, PTL

-----------------------------------------------------------------------------
(* Staleness, as in CoalCache: the timer of the clean-up fires within an     *)
(* interval of the expiry of whatever is done.                               *)

CleanInv ==
  /\ -Slack <= cleanIn /\ cleanIn <= CleanInterval
  /\ \A k \in Keys : IsDone(k) => cleanIn <= cache[k].left + CleanInterval

LEMMA CleanInit == Init => CleanInv
BY ReqCacheAssumption DEF Init, CleanInv, IsDone

LEMMA CleanStep ==
  CacheExpiry >= 0 /\ SafeInv /\ CleanInv /\ [Next]_vars => CleanInv'
<1> SUFFICES ASSUME CacheExpiry >= 0, SafeInv, CleanInv, [Next]_vars PROVE CleanInv'
  OBVIOUS
<1> USE ReqCacheAssumption
<1>a. BaseType /\ \A k \in Keys : IsDone(k) => cache[k].left \in Int
  BY WaitersType, Items DEF SafeInv
<1>1. ASSUME NEW c, NEW k, Wait(c, k)
      PROVE  CleanInv'
  <2>1. /\ \A j \in Keys : IsDone(j)' <=> IsDone(j)
        /\ ~IsDone(k) /\ \A j \in Keys \ {k} : cache'[j] = cache[j]
    BY <1>1, <1>a, WaitView
  <2>2. cleanIn' = cleanIn
    BY <1>1 DEF Wait
  <2>3. QED BY <2>1, <2>2 DEF CleanInv
<1>2. ASSUME NEW p \in posts, LoopReply(p)
      PROVE  CleanInv'
  <2>1. /\ p.key \in Keys /\ \A j \in Keys \ {p.key} : cache'[j] = cache[j]
        /\ IsDone(p.key)' => cache'[p.key].left = CacheExpiry
    BY <1>2, <1>a, ReplyFinds, ReplyView DEF SafeInv
  <2>2. cleanIn' = cleanIn /\ cleanIn \in Int
    BY <1>2, <1>a DEF LoopReply, ReplyFailure, ReplyResult, BaseType
  <2>3. ASSUME NEW j \in Keys, IsDone(j)'
        PROVE  cleanIn' <= cache'[j].left + CleanInterval
    <3>1. CASE j = p.key
      BY <2>1, <2>2, <2>3, <3>1 DEF CleanInv
    <3>2. CASE j # p.key
      BY <2>1, <2>2, <2>3, <3>2 DEF CleanInv, IsDone
    <3>3. QED BY <3>1, <3>2
  <2>4. QED BY <2>2, <2>3 DEF CleanInv
<1>3. CASE CleanCache
  <2>1. \A j \in Keys : IsDone(j)' =>
          IsDone(j) /\ cache'[j] = cache[j] /\ ~(cache[j].left < 0)
    BY <1>3, <1>a, CleanView
  <2>2. cleanIn' = CleanInterval
    BY <1>3 DEF CleanCache
  <2>3. ASSUME NEW j \in Keys, IsDone(j)'
        PROVE  cleanIn' <= cache'[j].left + CleanInterval
    <3>1. cache'[j].left \in Int /\ cache'[j].left >= 0
      BY <1>a, <2>1, <2>3
    <3>2. QED BY <2>2, <3>1
  <2>4. QED BY <2>2, <2>3 DEF CleanInv
<1>4. CASE Tick
  <2>1. \A j \in Keys : IsDone(j)' => IsDone(j) /\ cache'[j].left = cache[j].left - 1
    BY <1>4, <1>a, TickView
  <2>2. cleanIn \in Int /\ cleanIn' = cleanIn - 1 /\ cleanIn > -Slack
    BY <1>4, <1>a DEF Tick, BaseType
  <2>3. ASSUME NEW j \in Keys, IsDone(j)'
        PROVE  cleanIn' <= cache'[j].left + CleanInterval
    <3>1. /\ cleanIn <= cache[j].left + CleanInterval /\ cache[j].left \in Int
          /\ cache'[j].left = cache[j].left - 1
      BY <1>a, <2>1, <2>3 DEF CleanInv
    <3>2. QED BY <2>2, <3>1
  <2>4. -Slack <= cleanIn' /\ cleanIn' <= CleanInterval
    BY <2>2 DEF CleanInv
  <2>5. QED BY <2>3, <2>4 DEF CleanInv
<1>5. ASSUME \/ \E c \in Callbacks, k \in Keys : Lookup(c, k) \/ Hit(c, k)
             \/ Ended \/ UNCHANGED vars
      PROVE  CleanInv'
  BY <1>5 DEF Lookup, Hit, Ended, vars, CleanInv, IsDone
<1>6. QED
  BY <1>1, <1>2, <1>3, <1>4, <1>5 DEF Next, LoopJob

\* Nothing is served more than a clean-up interval past its expiry, though
\* lookup() does not look at it.  (An entry that has expired by the time it is
\* made, with --cache-time negative, is not counted from its expiry.)
THEOREM ReqStalenessBounded == CacheExpiry >= 0 => (Spec => []StalenessBound)
<1> SUFFICES ASSUME CacheExpiry >= 0 PROVE Spec => []StalenessBound
  OBVIOUS
<1>1. SafeInv /\ CleanInv => StalenessBound
  <2> SUFFICES ASSUME SafeInv, CleanInv, NEW k \in Keys, IsDone(k)
               PROVE  cache[k].left + CleanInterval + Slack >= 0
    BY DEF StalenessBound
  <2>1. cache[k].left \in Int /\ cleanIn \in Int
    BY WaitersType, Items DEF SafeInv, BaseType
  <2>2. -Slack <= cleanIn /\ cleanIn <= cache[k].left + CleanInterval
    BY DEF CleanInv
  <2>3. QED BY <2>1, <2>2, ReqCacheAssumption
<1>2. SafeInv /\ CleanInv /\ [Next]_vars => CleanInv'
  BY CleanStep
<1>3. QED BY <1>1, <1>2, SafeInit, SafeStep, CleanInit, PTL DEF Spec

-----------------------------------------------------------------------------
(* Waiting times: a callback waits for its job to run and then for the       *)
(* request of its entry, and both are Slack late at most.                    *)

JobsInTime == \A c \in CallbacksIn(jobs) : waited[c] <= Slack

PostsInTime == \A p \in posts : p.left <= UpstreamTimeout

WaitersInTime ==
  \A p \in posts : \A c \in Waiters(p.key) : waited[c] + p.left <= Slack + UpstreamTimeout

DueInv ==
  /\ JobsInTime /\ PostsInTime /\ WaitersInTime
  /\ \A c \in Callbacks \ asked : waited[c] = 0

LEMMA DueInit == Init => DueInv
BY DEF Init, DueInv, JobsInTime, PostsInTime, WaitersInTime, CallbacksIn

LEMMA DueWait ==
  ASSUME SafeInv, DueInv, NEW c, NEW k, Wait(c, k)
  PROVE  DueInv'
<1>1. /\ c \in Callbacks /\ k \in Keys /\ c \in CallbacksIn(jobs)
      /\ CallbacksIn(jobs') \subseteq CallbacksIn(jobs)
  BY DequeueJob DEF Wait, SafeInv
<1>2. UNCHANGED <<asked, waited>> /\ waited[c] \in Nat /\ waited[c] <= Slack
  BY <1>1 DEF Wait, SafeInv, BaseType, DueInv, JobsInTime
<1>3. \A j \in Keys : Waiters(j)' = IF j = k THEN Waiters(j) \cup {c} ELSE Waiters(j)
  BY WaitView DEF SafeInv
<1> DEFINE n == [key |-> k, left |-> UpstreamTimeout]
<1>4. posts' \subseteq posts \cup {n} /\ (~IsPending(k) \/ n \notin posts' \/ n \in posts)
  <2>1. IsPending(k) => Sent(k)
    BY <1>1 DEF Sent, SafeInv, KeysInv
  <2>2. QED BY <2>1 DEF Wait
<1>5. n.key = k /\ n.left = UpstreamTimeout
  OBVIOUS
<1> HIDE DEF n
<1>6. PostsInTime'
  BY <1>4, <1>5, ReqCacheAssumption DEF DueInv, PostsInTime
<1>7. ASSUME NEW p \in posts', NEW d \in Waiters(p.key)'
      PROVE  waited[d] + p.left <= Slack + UpstreamTimeout
  <2>1. PICK j \in Keys : j = p.key
    <3>1. p.key \in Keys
      BY <1>1, <1>4, <1>5 DEF SafeInv, BaseType, Post
    <3>2. QED BY <3>1
  <2>2. d \in Waiters(j)'
    BY <1>7, <2>1 DEF Waiters, IsPending
  <2>3. p.left \in Int /\ p.left <= UpstreamTimeout
    BY <1>4, <1>5, <1>6, ReqCacheAssumption DEF SafeInv, BaseType, Post, DueInv, PostsInTime
  <2>4. CASE d = c
    BY <1>2, <2>3, <2>4, ReqCacheAssumption
  <2>5. CASE d # c
    <3>1. d \in Waiters(j)
      BY <1>3, <2>2, <2>5
    <3>2. CASE p \in posts
      BY <2>1, <3>1, <3>2 DEF DueInv, WaitersInTime
    <3>3. CASE p \notin posts
      <4>1. p = n /\ j = k /\ ~IsPending(k)
        BY <1>4, <1>5, <2>1, <3>3
      <4>2. QED BY <3>1, <4>1 DEF Waiters
    <3>4. QED BY <3>2, <3>3
  <2>6. QED BY <2>4, <2>5
<1>8. WaitersInTime'
  BY <1>2, <1>7 DEF WaitersInTime
<1>9. QED BY <1>1, <1>2, <1>6, <1>8 DEF DueInv, JobsInTime

LEMMA DueReply ==
  ASSUME SafeInv, DueInv, NEW p \in posts, LoopReply(p)
  PROVE  DueInv'
<1>1. posts' = posts \ {p} /\ UNCHANGED <<jobs, asked, waited>>
  BY DEF LoopReply, ReplyFailure, ReplyResult
<1>2. \A j \in Keys : Waiters(j)' \subseteq Waiters(j)
  BY ReplyFinds, ReplyView DEF SafeInv
<1>3. ASSUME NEW q \in posts', NEW d \in Waiters(q.key)'
      PROVE  waited[d] + q.left <= Slack + UpstreamTimeout
  <2>1. PICK j \in Keys : j = q.key
    BY <1>1 DEF SafeInv, BaseType, Post
  <2>2. d \in Waiters(j)'
    BY <1>3, <2>1 DEF Waiters, IsPending
  <2>3. d \in Waiters(q.key)
    BY <1>2, <2>1, <2>2
  <2>4. QED BY <1>1, <2>3 DEF DueInv, WaitersInTime
<1>4. WaitersInTime'
  BY <1>1, <1>3 DEF WaitersInTime
<1>5. QED BY <1>1, <1>4 DEF DueInv, JobsInTime, PostsInTime

LEMMA DueTick ==
  ASSUME SafeInv, DueInv, Tick
  PROVE  DueInv'
<1> DEFINE later(p) == [p EXCEPT !.left = @ - 1]
<1>1. posts' = {later(p) : p \in posts} /\ UNCHANGED <<jobs, asked>>
  BY DEF Tick
<1>2. \A p \in posts : /\ p.left \in Int /\ p.key \in Keys
                       /\ later(p).key = p.key /\ later(p).left = p.left - 1
  BY DEF SafeInv, BaseType, Post
<1> HIDE DEF later
<1>3. \A c \in Callbacks : /\ waited[c] \in Nat /\ waited'[c] \in Nat
                           /\ waited'[c] <= waited[c] + 1
                           /\ c \notin asked => waited'[c] = waited[c]
  BY DEF Tick, SafeInv, BaseType, Pending
<1>4. \A j \in Keys : Waiters(j)' = Waiters(j) /\ Waiters(j) \subseteq Callbacks
  BY TickView, WaitersType DEF SafeInv
<1>5. JobsInTime'
  <2>1. \A c \in CallbacksIn(jobs) : c \in Callbacks /\ waited[c] < Slack
    BY DEF Tick, JobCallbacks, CallbacksIn, SafeInv, HeldInv
  <2>2. QED BY <1>1, <1>3, <2>1, ReqCacheAssumption DEF JobsInTime
<1>6. PostsInTime'
  BY <1>1, <1>2, ReqCacheAssumption DEF DueInv, PostsInTime
<1>7. ASSUME NEW p \in posts', NEW d \in Waiters(p.key)'
      PROVE  waited'[d] + p.left <= Slack + UpstreamTimeout
  <2>1. PICK q \in posts : p = later(q)
    BY <1>1
  <2>2. PICK j \in Keys : j = q.key
    BY <1>2
  <2>3. d \in Waiters(j)'
    BY <1>2, <1>7, <2>1, <2>2 DEF Waiters, IsPending
  <2>4. d \in Waiters(q.key) /\ d \in Callbacks
    BY <1>4, <2>2, <2>3
  <2>5. waited[d] + q.left <= Slack + UpstreamTimeout
    BY <2>4 DEF DueInv, WaitersInTime
  <2>6. QED BY <1>2, <1>3, <2>1, <2>4, <2>5, ReqCacheAssumption
<1>8. WaitersInTime'
  BY <1>7 DEF WaitersInTime
<1>9. QED BY <1>1, <1>3, <1>5, <1>6, <1>8 DEF DueInv

LEMMA DueStep == SafeInv /\ DueInv /\ [Next]_vars => DueInv'
<1> SUFFICES ASSUME SafeInv, DueInv, [Next]_vars PROVE DueInv'
  OBVIOUS
\* what leaves the entries and the requests alone, and queues at most those
\* who have not waited
<1>1. ASSUME UNCHANGED <<waited, posts>>, asked \subseteq asked',
             \A j \in Keys : Waiters(j)' = Waiters(j),
             \A c \in CallbacksIn(jobs') : c \in CallbacksIn(jobs) \/ waited[c] = 0
      PROVE  DueInv'
  <2>1. JobsInTime'
    BY <1>1, ReqCacheAssumption DEF DueInv, JobsInTime
  <2>2. WaitersInTime'
    <3>1. ASSUME NEW p \in posts, NEW d \in Waiters(p.key)'
          PROVE  waited[d] + p.left <= Slack + UpstreamTimeout
      <4>1. PICK j \in Keys : j = p.key
        BY DEF SafeInv, BaseType, Post
      <4>2. d \in Waiters(j)'
        BY <1>1, <3>1, <4>1 DEF Waiters, IsPending
      <4>3. d \in Waiters(p.key)
        BY <1>1, <4>1, <4>2
      <4>4. QED BY <4>3 DEF DueInv, WaitersInTime
    <3>2. QED BY <1>1, <3>1 DEF WaitersInTime
  <2>3. QED BY <1>1, <2>1, <2>2 DEF DueInv, PostsInTime
<1>2. ASSUME NEW c \in Callbacks, NEW k \in Keys, Lookup(c, k)
      PROVE  DueInv'
  <2> DEFINE e == [cb |-> c, key |-> k]
  <2>1. e \in Job /\ e.cb = c /\ jobs' = Append(jobs, e) /\ jobs \in Seq(Job)
    BY <1>2 DEF Job, Lookup, SafeInv, BaseType
  <2> HIDE DEF e
  <2>2. CallbacksIn(jobs') = CallbacksIn(jobs) \cup {c}
    BY <2>1, JobAppended
  <2>3. waited[c] = 0 /\ UNCHANGED <<cache, posts, waited>> /\ asked \subseteq asked'
    BY <1>2 DEF Lookup, DueInv
  <2>4. QED BY <1>1, <2>2, <2>3 DEF Waiters, IsPending
<1>3. ASSUME NEW c, NEW k, Hit(c, k)
      PROVE  DueInv'
  <2>1. CallbacksIn(jobs') \subseteq CallbacksIn(jobs)
    BY <1>3, DequeueJob DEF Hit, SafeInv
  <2>2. QED BY <1>1, <1>3, <2>1 DEF Hit, Waiters, IsPending
<1>4. ASSUME NEW c, NEW k, Wait(c, k) PROVE DueInv'
  BY <1>4, DueWait
<1>5. ASSUME NEW p \in posts, LoopReply(p) PROVE DueInv'
  BY <1>5, DueReply
<1>6. CASE CleanCache
  BY <1>1, <1>6, CleanView DEF CleanCache, SafeInv
<1>7. CASE Tick
  BY <1>7, DueTick
<1>8. CASE Ended \/ UNCHANGED vars
  BY <1>1, <1>8 DEF Ended, vars, Waiters, IsPending
<1>9. QED
  BY <1>2, <1>3, <1>4, <1>5, <1>6, <1>7, <1>8 DEF Next, LoopJob

-----------------------------------------------------------------------------
(* The service.  Every step of ReqCache is a step of LookupService. *)

LEMMA ServiceInit == Init => Service!Init
BY DEF Init, Service!Init

\* Whoever is called or dropped was waiting.
LEMMA ServiceCall ==
  ASSUME BaseType, UNCHANGED <<asked, waited>>, lost \subseteq lost', lost' \subseteq Pending',
         answer' \in [Callbacks -> {"none", "failed", "object"}],
         \A c \in Callbacks : answer'[c] # answer[c] => c \in Pending \ lost,
         UNCHANGED answer \/ UNCHANGED lost
  PROVE  Service!Answer \/ Service!Forsake
<1>1. Service!Waiting = Pending
  BY DEF Service!Waiting, Pending
<1>2. CASE UNCHANGED lost
  BY <1>1, <1>2 DEF Service!Answer
<1>3. CASE UNCHANGED answer
  <2>1. Pending' = Pending
    BY <1>3 DEF Pending
  <2>2. QED BY <1>1, <1>3, <2>1 DEF Service!Forsake
<1>4. QED BY <1>2, <1>3

\* Time stops for nobody who is due.
LEMMA ServiceTick ==
  ASSUME SafeInv, DueInv, Tick
  PROVE  Service!Tick
<1>1. Service!Waiting = Pending
  BY DEF Service!Waiting, Pending
<1>2. ASSUME NEW c \in Pending \ lost
      PROVE  waited[c] < Deadline
  <2>1. c \in Callbacks /\ waited[c] \in Nat /\ Deadline = UpstreamTimeout + 2 * Slack
    BY DEF SafeInv, BaseType, Pending, Deadline
  <2>2. CASE c \in CallbacksIn(jobs)
    <3>1. waited[c] < Slack
      BY <2>2 DEF Tick, JobCallbacks, CallbacksIn
    <3>2. QED BY <2>1, <3>1, ReqCacheAssumption
  <2>3. ASSUME NEW k \in Keys, c \in Waiters(k)
        PROVE  waited[c] < Deadline
    <3>1. IsPending(k)
      BY <2>3 DEF Waiters
    <3>2. PICK p \in posts : p.key = k
      BY <3>1 DEF SafeInv, KeysInv, OneRequestPerKey
    <3>3. p.left \in Int /\ p.left > -Slack
      BY DEF Tick, SafeInv, BaseType, Post
    <3>4. waited[c] + p.left <= Slack + UpstreamTimeout
      BY <2>3, <3>2 DEF DueInv, WaitersInTime
    <3>5. QED BY <2>1, <3>3, <3>4, ReqCacheAssumption
  <2>4. QED BY <2>1, <2>2, <2>3 DEF SafeInv, HeldInv, Holds
<1>3. QED BY <1>1, <1>2 DEF Tick, Service!Tick

LEMMA ServiceStep ==
  ASSUME SafeInv, DueInv, [Next]_vars
  PROVE  [Service!Next]_Service!vars
<1> USE DEF SafeInv
<1>1. ASSUME NEW c \in Callbacks, NEW k \in Keys, Lookup(c, k)
      PROVE  Service!Ask(c)
  <2>1. answer' = [answer EXCEPT ![c] = "none"]
    BY <1>1 DEF Lookup, HeldInv, BaseType
  <2>2. QED BY <1>1, <2>1 DEF Lookup, Service!Ask
<1>2. ASSUME NEW c, NEW k, Hit(c, k)
      PROVE  Service!Answer \/ Service!Forsake
  <2>1. /\ lost \subseteq lost' /\ lost' \subseteq Pending'
        /\ answer' \in [Callbacks -> {"none", "failed", "object"}]
        /\ \A d \in Callbacks : answer'[d] # answer[d] => d \in Pending \ lost
    BY <1>2, HeldHit DEF HeldInv
  <2>2. UNCHANGED <<asked, waited>> /\ (UNCHANGED answer \/ UNCHANGED lost)
    BY <1>2 DEF Hit, Call
  <2>3. QED BY <2>1, <2>2, ServiceCall
<1>3. ASSUME NEW p \in posts, LoopReply(p)
      PROVE  Service!Answer \/ Service!Forsake
  <2>1. /\ lost \subseteq lost' /\ lost' \subseteq Pending'
        /\ answer' \in [Callbacks -> {"none", "failed", "object"}]
        /\ \A d \in Callbacks : answer'[d] # answer[d] => d \in Pending \ lost
    BY <1>3, HeldReply DEF HeldInv
  <2>2. UNCHANGED <<asked, waited>> /\ (UNCHANGED answer \/ UNCHANGED lost)
    BY <1>3 DEF LoopReply, ReplyFailure, ReplyResult, Call
  <2>3. QED BY <2>1, <2>2, ServiceCall
<1>4. Tick => Service!Tick
  BY ServiceTick
<1>5. ASSUME \/ \E c \in Callbacks, k \in Keys : Wait(c, k)
             \/ CleanCache \/ Ended \/ UNCHANGED vars
      PROVE  UNCHANGED Service!vars
  BY <1>5 DEF Wait, CleanCache, Ended, vars, Service!vars
<1>6. QED
  BY <1>1, <1>2, <1>3, <1>4, <1>5 DEF Next, LoopJob, Service!Next

\* ReqCache implements LookupService, for any clean-up interval, expiry, timeout
\* and lateness of the loop, whatever upstream replies: each lookup sees one
\* answer, within Deadline, unless an exception drops it.
THEOREM ReqImplementsService == Spec => ServicePromise
<1>1. SafeInv /\ DueInv /\ [Next]_vars => [Service!Next]_Service!vars
  BY ServiceStep
<1>2. QED
  BY <1>1, SafeInit, SafeStep, DueInit, DueStep, ServiceInit, PTL
  DEF Spec, ServicePromise, Service!Spec
=============================================================================
