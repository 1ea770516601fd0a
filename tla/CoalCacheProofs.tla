--------------------------- MODULE CoalCacheProofs ---------------------------
(***************************************************************************)
(* Theorems about CoalCache, for every value of its constants.             *)
(***************************************************************************)
EXTENDS CoalCache, FiniteSetTheorems, SequenceTheorems, TLAPS

-----------------------------------------------------------------------------
(* Type correctness. *)

\* The batches are sets of queued keys, and no key is in two of them.
LEMMA BatchingsAreQueued ==
  ASSUME NEW q, NEW P \in Batchings(q)
  PROVE  /\ P \subseteq SUBSET QueuedIn(q)
         /\ UNION P \subseteq QueuedIn(q)
         /\ QueuedIn(q) \subseteq Keys
         /\ \A K, L \in P : K # L => K \cap L = {}
<1>1. CASE MaxCoalesce = 0 /\ QueuedIn(q) # {}
  BY <1>1 DEF Batchings, QueuedIn
<1>2. CASE ~(MaxCoalesce = 0 /\ QueuedIn(q) # {})
  <2>1. /\ P \in SUBSET SUBSET QueuedIn(q)
        /\ UNION P = QueuedIn(q)
        /\ \A K, L \in P : K # L => K \cap L = {}
    BY <1>2 DEF Batchings
  <2> QED
    BY <2>1 DEF QueuedIn
<1> QED
  BY <1>1, <1>2

\* send_coalesced() keeps the types of what it touches.
LEMMA SendCoalescedType ==
  ASSUME TypeOK,
         NEW q \in [Keys -> SUBSET Callbacks],
         SendCoalesced(q)
  PROVE  /\ q_coalescing' \in [Keys -> SUBSET Callbacks]
         /\ q_sent' \in [Keys -> SUBSET Callbacks]
         /\ posts' \subseteq Post
         /\ sends' \in Nat
         /\ draining' \in BOOLEAN
<1>1. PICK P \in Batchings(q) :
        /\ q_coalescing' = EraseKeys(q, UNION P)
        /\ q_sent' = [k \in Keys |-> IF k \in UNION P THEN q_sent[k] \cup q[k]
                                                      ELSE q_sent[k]]
        /\ posts' = posts \cup {[keys |-> K, left |-> UpstreamTimeout] : K \in P}
        /\ sends' = IF UNION P = {} THEN sends ELSE sends + 1
        /\ draining' = (UNION P # QueuedIn(q))
  BY DEF SendCoalesced
<1>2. P \subseteq SUBSET Keys
  BY BatchingsAreQueued
<1>3. \A K \in P : [keys |-> K, left |-> UpstreamTimeout] \in Post
  BY <1>2, CoalCacheAssumption DEF Post
<1>4. posts' \subseteq Post
  BY <1>1, <1>3 DEF TypeOK
<1> DEFINE U == UNION P
<1>5. /\ q_coalescing' = EraseKeys(q, U)
      /\ q_sent' = [k \in Keys |-> IF k \in U THEN q_sent[k] \cup q[k]
                                              ELSE q_sent[k]]
      /\ sends' = IF U = {} THEN sends ELSE sends + 1
      /\ draining' = (U # QueuedIn(q))
  BY <1>1
<1> HIDE DEF U
<1> QED
  BY <1>4, <1>5 DEF EraseKeys, TypeOK

\* The callbacks of an answered batch get answers, and q_sent stays a map.
LEMMA DeliverType ==
  ASSUME TypeOK,
         NEW K \in SUBSET Keys,
         NEW v \in [K -> Answers],
         Deliver(K, v)
  PROVE  /\ answer' \in [Callbacks -> Answers]
         /\ q_sent' \in [Keys -> SUBSET Callbacks]
<1>1. ASSUME NEW c \in Callbacks, \E k \in K : c \in q_sent[k]
      PROVE  v[CHOOSE k \in K : c \in q_sent[k]] \in Answers
  BY <1>1
<1> QED
  BY <1>1 DEF Deliver, EraseKeys, TypeOK

\* The jobs that are left after one was taken.
LEMMA DequeueType ==
  ASSUME TypeOK, NEW job, Dequeue(job)
  PROVE  /\ jobs' \in Seq(LookupJob \cup {SendJob})
         /\ job \in LookupJob \cup {SendJob}
  BY DEF Dequeue, TypeOK

LEMMA TypeInit == Init => TypeOK
<1> SUFFICES ASSUME Init PROVE TypeOK
  OBVIOUS
<1>1. answer \in [Callbacks -> Answers]
  BY DEF Init, Answers
<1>2. jobs \in Seq(LookupJob \cup {SendJob})
  BY DEF Init
<1>3. timers \subseteq Timer /\ posts \subseteq Post
  BY DEF Init
<1>4. cache \in [Keys -> Item \cup {NoItem}]
  BY DEF Init
<1>5. cleanIn \in Int
  BY CoalCacheAssumption DEF Init
<1>6. draining \in BOOLEAN
  BY DEF Init
<1>7. q_coalescing \in [Keys -> SUBSET Callbacks] /\ q_sent \in [Keys -> SUBSET Callbacks]
  BY DEF Init
<1>8. waited \in [Callbacks -> Nat]
  BY DEF Init
<1>9. q_num \in Int /\ sends \in Nat
  BY DEF Init
<1>10. wedged \subseteq Keys /\ asked \subseteq Callbacks
  BY DEF Init
<1> QED
  BY <1>1, <1>2, <1>3, <1>4, <1>5, <1>6, <1>7, <1>8, <1>9, <1>10 DEF TypeOK

LEMMA TypeStep == TypeOK /\ [Next]_vars => TypeOK'
<1> SUFFICES ASSUME TypeOK, [Next]_vars PROVE TypeOK'
  OBVIOUS
<1> USE CoalCacheAssumption
<1>1. ASSUME NEW c \in Callbacks, NEW k \in Keys, LookupHit(c, k)
      PROVE  TypeOK'
  <2>1. cache[k].conf_status \in Answers
    BY <1>1 DEF LookupHit, TypeOK, Item, Answers
  <2> QED
    BY <1>1, <2>1 DEF LookupHit, TypeOK, queues
<1>2. ASSUME NEW c \in Callbacks, NEW k \in Keys, LookupMiss(c, k)
      PROVE  TypeOK'
  <2>1. [op |-> "lookup", cb |-> c, key |-> k] \in LookupJob
    BY DEF LookupJob
  <2> QED
    BY <1>2, <2>1 DEF LookupMiss, TypeOK, queues
<1>3. ASSUME CallSendCoalesced
      PROVE  TypeOK'
  BY <1>3 DEF CallSendCoalesced, TypeOK, queues, history
<1>4. ASSUME NEW c \in Callbacks, NEW k \in Keys, JoinSent(c, k)
      PROVE  TypeOK'
  BY <1>4, DequeueType DEF JoinSent, TypeOK, history
<1>5. ASSUME NEW c \in Callbacks, NEW k \in Keys, Enqueue(c, k)
      PROVE  TypeOK'
  <2> DEFINE q == [q_coalescing EXCEPT ![k] = @ \cup {c}]
  <2>1. q \in [Keys -> SUBSET Callbacks]
    BY DEF TypeOK
  <2>2. NewTimer \in Timer
    BY DEF NewTimer, Timer, TypeOK
  <2>3. timers' \subseteq Timer
    BY <1>5, <2>2 DEF Enqueue, TypeOK
  <2>4. jobs' \in Seq(LookupJob \cup {SendJob})
    BY <1>5, DequeueType DEF Enqueue
  <2>5. /\ q_coalescing' \in [Keys -> SUBSET Callbacks]
        /\ q_sent' \in [Keys -> SUBSET Callbacks]
        /\ posts' \subseteq Post
        /\ sends' \in Nat
        /\ draining' \in BOOLEAN
    <3>1. CASE BatchFull(q)
      <4>1. SendCoalesced(q)
        BY <1>5, <3>1 DEF Enqueue
      <4> HIDE DEF q
      <4> QED
        BY <4>1, <2>1, SendCoalescedType
    <3>2. CASE ~BatchFull(q)
      BY <1>5, <2>1, <3>2 DEF Enqueue, TypeOK
    <3> QED
      BY <3>1, <3>2
  <2> QED
    BY <1>5, <2>3, <2>4, <2>5 DEF Enqueue, TypeOK, history
<1>6. ASSUME RunSendJob
      PROVE  TypeOK'
  <2>1. q_coalescing \in [Keys -> SUBSET Callbacks]
    BY DEF TypeOK
  <2> QED
    BY <1>6, <2>1, DequeueType, SendCoalescedType
    DEF RunSendJob, TypeOK, history
<1>7. ASSUME NEW t \in timers, FireTimer(t)
      PROVE  TypeOK'
  <2>1. q_coalescing \in [Keys -> SUBSET Callbacks]
    BY DEF TypeOK
  <2>2. /\ q_coalescing' \in [Keys -> SUBSET Callbacks]
        /\ q_sent' \in [Keys -> SUBSET Callbacks]
        /\ posts' \subseteq Post
        /\ sends' \in Nat
        /\ draining' \in BOOLEAN
    BY <1>7, <2>1, SendCoalescedType DEF FireTimer, TypeOK
  <2> QED
    BY <1>7, <2>2 DEF FireTimer, TypeOK, history
<1>8. ASSUME CleanCache
      PROVE  TypeOK'
  BY <1>8 DEF CleanCache, TypeOK, queues, history
<1>9. ASSUME NEW p \in posts, NEW v \in [p.keys -> Values], ReplyValues(p, v)
       PROVE  TypeOK'
  <2>1. p.keys \in SUBSET Keys
    BY DEF TypeOK, Post
  <2> DEFINE w == [k \in p.keys |-> Loaded(v[k])]
  <2>2. w \in [p.keys -> Answers]
    BY DEF Loaded, Values, Statuses, Answers
  <2>3. Deliver(p.keys, w)
    BY <1>9 DEF ReplyValues
  <2>4. /\ answer' \in [Callbacks -> Answers]
        /\ q_sent' \in [Keys -> SUBSET Callbacks]
    <3> HIDE DEF w
    <3> QED
      BY <2>1, <2>2, <2>3, DeliverType
  <2>5. cache' \in [Keys -> Item \cup {NoItem}]
    <3>1. ASSUME NEW k \in p.keys, v[k] # "malformed"
          PROVE  [conf_status |-> v[k], left |-> CacheTime(v[k])] \in Item
      BY <3>1 DEF Values, Item, CacheTime
    <3> QED
      BY <1>9, <3>1 DEF ReplyValues, TypeOK
  <2> QED
    BY <1>9, <2>4, <2>5 DEF ReplyValues, TypeOK
<1>10. ASSUME NEW p \in posts, ReplyFailure(p)
       PROVE  TypeOK'
  <2>1. p.keys \in SUBSET Keys
    BY DEF TypeOK, Post
  <2>2. [k \in p.keys |-> "failed"] \in [p.keys -> Answers]
    BY DEF Answers
  <2>3. /\ answer' \in [Callbacks -> Answers]
        /\ q_sent' \in [Keys -> SUBSET Callbacks]
    BY <1>10, <2>1, <2>2, DeliverType DEF ReplyFailure
  <2> QED
    BY <1>10, <2>3 DEF ReplyFailure, TypeOK
<1>11. ASSUME NEW p \in posts, ReplyThrows(p)
       PROVE  TypeOK'
  BY <1>11 DEF ReplyThrows, TypeOK, Post
<1>12. ASSUME Tick
       PROVE  TypeOK'
  <2>1. timers' \subseteq Timer
    <3>1. ASSUME NEW t \in Timer
          PROVE  [t EXCEPT !.left = @ - 1] \in Timer
      BY DEF Timer
    <3> QED
      BY <1>12, <3>1 DEF Tick, TypeOK
  <2>2. posts' \subseteq Post
    <3>1. ASSUME NEW p \in Post
          PROVE  [p EXCEPT !.left = @ - 1] \in Post
      BY DEF Post
    <3> QED
      BY <1>12, <3>1 DEF Tick, TypeOK
  <2>3. cache' \in [Keys -> Item \cup {NoItem}]
    <3>1. ASSUME NEW i \in Item
          PROVE  [i EXCEPT !.left = @ - 1] \in Item
      BY DEF Item
    <3> QED
      BY <1>12, <3>1 DEF Tick, TypeOK
  <2> QED
    BY <1>12, <2>1, <2>2, <2>3 DEF Tick, TypeOK
<1>13. CASE UNCHANGED vars
  BY <1>13 DEF vars, queues, history, TypeOK
<1> QED
  BY <1>1, <1>2, <1>3, <1>4, <1>5, <1>6, <1>7, <1>8, <1>9, <1>10,
     <1>11, <1>12, <1>13
  DEF Next, LoopJob, LoopTimer, LoopReply

\* Every variable has its type, whatever the loop, its callers and the
\* upstream do.
THEOREM TypeCorrect == Spec => []TypeOK
  BY TypeInit, TypeStep, PTL DEF Spec

-----------------------------------------------------------------------------
(* Staleness.  A cached item never gets further past its expiry than the     *)
(* clean-up timer, because at the moment an item is stored or kept the timer *)
(* has at most a clean interval to go, and from then on both count down.     *)

\* The clean-up is due before an item is an interval past its expiry.
CleanInv ==
  /\ -Slack <= cleanIn /\ cleanIn <= CleanInterval
  /\ \A k \in Keys : cache[k] # NoItem => cleanIn < cache[k].left + CleanInterval

LEMMA CleanInit == Init => CleanInv
  BY CoalCacheAssumption DEF Init, CleanInv

\* Only a reply, the clean-up and time touch the cache and its timer.
LEMMA CleanFrame ==
  ASSUME CleanInv, UNCHANGED <<cache, cleanIn>>
  PROVE  CleanInv'
  BY DEF CleanInv

LEMMA CleanStep == TypeOK /\ CleanInv /\ [Next]_vars => CleanInv'
<1> SUFFICES ASSUME TypeOK, CleanInv, [Next]_vars PROVE CleanInv'
  OBVIOUS
<1> USE CoalCacheAssumption
<1>1. ASSUME CleanCache
      PROVE  CleanInv'
  BY <1>1 DEF CleanCache, CleanInv, Expired, TypeOK, Item
<1>2. ASSUME NEW p \in posts, NEW v \in [p.keys -> Values], ReplyValues(p, v)
      PROVE  CleanInv'
  <2>1. ASSUME NEW k \in Keys, cache'[k] # NoItem
        PROVE  cleanIn < cache'[k].left + CleanInterval
    <3>1. CASE cache'[k] = cache[k]
      BY <2>1, <3>1 DEF CleanInv
    <3>2. CASE /\ k \in p.keys
               /\ CacheTime(v[k]) > 0
               /\ cache'[k] = [conf_status |-> v[k], left |-> CacheTime(v[k])]
      BY <3>2 DEF CleanInv, TypeOK, CacheTime
    <3> QED
      BY <1>2, <3>1, <3>2 DEF ReplyValues
  <2> QED
    BY <1>2, <2>1 DEF ReplyValues, CleanInv
<1>3. ASSUME Tick
      PROVE  CleanInv'
  <2>1. ASSUME NEW k \in Keys, cache'[k] # NoItem
        PROVE  cleanIn - 1 < cache'[k].left + CleanInterval
    <3>1. cache[k] # NoItem /\ cache'[k] = [cache[k] EXCEPT !.left = @ - 1]
      BY <1>3, <2>1 DEF Tick
    <3>2. cache[k] \in Item
      BY <3>1 DEF TypeOK
    <3>3. cache'[k].left = cache[k].left - 1 /\ cache[k].left \in Int
      BY <3>1, <3>2 DEF Item
    <3> QED
      BY <3>1, <3>3 DEF CleanInv, TypeOK
  <2> QED
    BY <1>3, <2>1 DEF Tick, CleanInv, TypeOK
<1>4. ASSUME \/ \E c \in Callbacks, k \in Keys : LookupHit(c, k) \/ LookupMiss(c, k)
             \/ CallSendCoalesced
             \/ LoopJob
             \/ \E t \in timers : FireTimer(t)
             \/ \E p \in posts : ReplyFailure(p) \/ ReplyThrows(p)
             \/ UNCHANGED vars
      PROVE  CleanInv'
  <2>1. UNCHANGED <<cache, cleanIn>>
    BY <1>4 DEF LookupHit, LookupMiss, CallSendCoalesced, LoopJob, JoinSent,
       Enqueue, RunSendJob, FireTimer, ReplyFailure, ReplyThrows, vars
  <2> QED
    BY <2>1, CleanFrame
<1> QED
  BY <1>1, <1>2, <1>3, <1>4 DEF Next, LoopTimer, LoopReply

\* StalenessBound (an item is never served a clean interval past its expiry)
\* holds for all cache times and however long upstream takes.
THEOREM StalenessBounded == Spec => []StalenessBound
<1>1. TypeOK /\ CleanInv => StalenessBound
  <2> SUFFICES ASSUME TypeOK, CleanInv, NEW k \in Keys, cache[k] # NoItem
               PROVE  cache[k].left + CleanInterval + Slack > 0
    BY DEF StalenessBound
  <2>1. cache[k].left \in Int
    BY DEF TypeOK, Item
  <2> QED
    BY <2>1, CoalCacheAssumption DEF CleanInv, TypeOK
<1> QED
  BY <1>1, TypeInit, TypeStep, CleanInit, CleanStep, PTL DEF Spec

-----------------------------------------------------------------------------
(* Coalescing.                                                               *)

\* What a send does to the two queues and the requests in flight.
LEMMA SendCoalescedKeys ==
  ASSUME TypeOK, OneRequestPerKey, UNCHANGED wedged,
         NEW q \in [Keys -> SUBSET Callbacks],
         QueuedIn(q) \cap QueuedIn(q_sent) = {},
         SendCoalesced(q)
  PROVE  OneRequestPerKey'
<1> DEFINE request(K) == [keys |-> K, left |-> UpstreamTimeout]
<1>1. PICK P \in Batchings(q) :
        /\ q_coalescing' = EraseKeys(q, UNION P)
        /\ q_sent' = [k \in Keys |-> IF k \in UNION P THEN q_sent[k] \cup q[k]
                                                      ELSE q_sent[k]]
        /\ posts' = posts \cup {request(K) : K \in P}
  BY DEF SendCoalesced
<1> DEFINE U == UNION P
<1>2. /\ U \subseteq QueuedIn(q) /\ U \subseteq Keys
      /\ \A K \in P : K \subseteq U
      /\ \A K, L \in P : K # L => K \cap L = {}
  BY BatchingsAreQueued
<1>3. \A K : request(K).keys = K
  OBVIOUS
<1>4. InFlight' = InFlight \cup U
  <2> HIDE DEF request
  <2> QED
    BY <1>1, <1>3 DEF InFlight
<1>5. /\ q_coalescing' = EraseKeys(q, U)
      /\ q_sent' = [k \in Keys |-> IF k \in U THEN q_sent[k] \cup q[k]
                                              ELSE q_sent[k]]
  BY <1>1
<1> HIDE DEF U
<1>6. QueuedIn(q_coalescing') = QueuedIn(q) \ U
  BY <1>2, <1>5 DEF EraseKeys, QueuedIn
<1>7. QueuedIn(q_sent') = QueuedIn(q_sent) \cup U
  BY <1>2, <1>5 DEF QueuedIn
<1>8. U \cap (InFlight \cup wedged) = {}
  BY <1>2 DEF OneRequestPerKey
<1>9. \A p \in posts : p.keys \cap U = {}
  BY <1>8 DEF InFlight
<1>10. ASSUME NEW p1 \in posts', NEW p2 \in posts', p1 # p2
       PROVE  p1.keys \cap p2.keys = {}
  <2> HIDE DEF request
  <2>1. \A p \in posts' \ posts : \E K \in P : p = request(K)
    BY <1>1
  <2>2. CASE p1 \in posts /\ p2 \in posts
    BY <1>10, <2>2 DEF OneRequestPerKey
  <2>3. CASE p1 \in posts /\ p2 \notin posts
    BY <1>2, <1>3, <1>9, <2>1, <2>3
  <2>4. CASE p1 \notin posts /\ p2 \in posts
    BY <1>2, <1>3, <1>9, <2>1, <2>4
  <2>5. CASE p1 \notin posts /\ p2 \notin posts
    <3>1. PICK K \in P : p1 = request(K)
      BY <2>1, <2>5
    <3>2. PICK L \in P : p2 = request(L)
      BY <2>1, <2>5
    <3> QED
      BY <1>2, <1>3, <1>10, <3>1, <3>2
  <2> QED
    BY <2>2, <2>3, <2>4, <2>5
<1>11. QueuedIn(q_coalescing)' = QueuedIn(q) \ U
       /\ QueuedIn(q_sent)' = QueuedIn(q_sent) \cup U
  BY <1>6, <1>7 DEF QueuedIn
<1>12. /\ QueuedIn(q_coalescing)' \cap QueuedIn(q_sent)' = {}
       /\ InFlight' \cap wedged' = {}
       /\ QueuedIn(q_sent)' = InFlight' \cup wedged'
  BY <1>2, <1>4, <1>8, <1>11 DEF OneRequestPerKey
<1> QED
  BY <1>10, <1>12 DEF OneRequestPerKey

\* What an answered request leaves behind.
LEMMA DeliverKeys ==
  ASSUME TypeOK, OneRequestPerKey, UNCHANGED <<q_coalescing, wedged>>,
         NEW p \in posts, NEW v, Deliver(p.keys, v), posts' = posts \ {p}
  PROVE  OneRequestPerKey'
<1>1. p.keys \subseteq Keys
  BY DEF TypeOK, Post
<1>2. QueuedIn(q_sent') = QueuedIn(q_sent) \ p.keys
  BY DEF Deliver, EraseKeys, QueuedIn
<1>3. InFlight' = InFlight \ p.keys
  BY DEF OneRequestPerKey, InFlight
<1>4. p.keys \cap wedged = {}
  BY DEF OneRequestPerKey, InFlight
<1> QED
  BY <1>2, <1>3, <1>4 DEF OneRequestPerKey, QueuedIn

LEMMA KeysInit == Init => OneRequestPerKey
  BY DEF Init, OneRequestPerKey, QueuedIn, InFlight

LEMMA KeysFrame ==
  ASSUME OneRequestPerKey, UNCHANGED <<q_coalescing, q_sent, posts, wedged>>
  PROVE  OneRequestPerKey'
  BY DEF OneRequestPerKey, InFlight, QueuedIn

LEMMA KeysStep == TypeOK /\ OneRequestPerKey /\ [Next]_vars => OneRequestPerKey'
<1> SUFFICES ASSUME TypeOK, OneRequestPerKey, [Next]_vars PROVE OneRequestPerKey'
  OBVIOUS
<1>q. q_coalescing \in [Keys -> SUBSET Callbacks]
      /\ QueuedIn(q_coalescing) \cap QueuedIn(q_sent) = {}
  BY DEF TypeOK, OneRequestPerKey
<1>1. ASSUME NEW c \in Callbacks, NEW k \in Keys, JoinSent(c, k)
      PROVE  OneRequestPerKey'
  <2>1. QueuedIn(q_sent') = QueuedIn(q_sent)
    BY <1>1 DEF JoinSent, QueuedIn, HasRequest, TypeOK
  <2> QED
    BY <1>1, <2>1 DEF JoinSent, OneRequestPerKey, InFlight, QueuedIn, history
<1>2. ASSUME NEW c \in Callbacks, NEW k \in Keys, Enqueue(c, k)
      PROVE  OneRequestPerKey'
  <2> DEFINE q == [q_coalescing EXCEPT ![k] = @ \cup {c}]
  <2>1. q \in [Keys -> SUBSET Callbacks]
    BY DEF TypeOK
  <2>2. QueuedIn(q) \cap QueuedIn(q_sent) = {}
    BY <1>2 DEF Enqueue, HasRequest, OneRequestPerKey, QueuedIn, TypeOK
  <2>3. UNCHANGED wedged
    BY <1>2 DEF Enqueue, history
  <2>4. CASE BatchFull(q)
    <3>1. SendCoalesced(q)
      BY <1>2, <2>4 DEF Enqueue
    <3> HIDE DEF q
    <3> QED
      BY <2>1, <2>2, <2>3, <3>1, SendCoalescedKeys
  <2>5. CASE ~BatchFull(q)
    <3>1. q_coalescing' = q /\ UNCHANGED <<q_sent, posts>>
      BY <1>2, <2>5 DEF Enqueue
    <3> QED
      BY <2>2, <2>3, <3>1 DEF OneRequestPerKey, InFlight, QueuedIn
  <2> QED
    BY <2>4, <2>5
<1>3. ASSUME RunSendJob
      PROVE  OneRequestPerKey'
  BY <1>3, <1>q, SendCoalescedKeys DEF RunSendJob, history
<1>4. ASSUME NEW t \in timers, FireTimer(t)
      PROVE  OneRequestPerKey'
  BY <1>4, <1>q, SendCoalescedKeys, KeysFrame DEF FireTimer, history
<1>5. ASSUME NEW p \in posts, NEW v \in [p.keys -> Values], ReplyValues(p, v)
      PROVE  OneRequestPerKey'
  BY <1>5, DeliverKeys DEF ReplyValues
<1>6. ASSUME NEW p \in posts, ReplyFailure(p)
      PROVE  OneRequestPerKey'
  BY <1>6, DeliverKeys DEF ReplyFailure
<1>7. ASSUME NEW p \in posts, ReplyThrows(p)
      PROVE  OneRequestPerKey'
  <2>1. InFlight' = InFlight \ p.keys
    BY <1>7 DEF ReplyThrows, OneRequestPerKey, InFlight
  <2>2. p.keys \subseteq InFlight
    BY DEF InFlight
  <2> QED
    BY <1>7, <2>1, <2>2 DEF ReplyThrows, OneRequestPerKey, QueuedIn
<1>8. ASSUME Tick
      PROVE  OneRequestPerKey'
  <2> DEFINE later(p) == [p EXCEPT !.left = @ - 1]
  <2>1. posts' = {later(p) : p \in posts}
    BY <1>8 DEF Tick
  <2>2. \A p \in posts : later(p).keys = p.keys
    BY DEF TypeOK, Post
  <2> HIDE DEF later
  <2>3. InFlight' = InFlight
    BY <2>1, <2>2 DEF InFlight
  <2>4. \A p1, p2 \in posts' : p1 # p2 => p1.keys \cap p2.keys = {}
    BY <2>1, <2>2 DEF OneRequestPerKey
  <2> QED
    BY <1>8, <2>3, <2>4 DEF Tick, OneRequestPerKey, QueuedIn
<1>9. ASSUME \/ \E c \in Callbacks, k \in Keys : LookupHit(c, k) \/ LookupMiss(c, k)
             \/ CallSendCoalesced
             \/ CleanCache
             \/ UNCHANGED vars
      PROVE  OneRequestPerKey'
  <2>1. UNCHANGED <<q_coalescing, q_sent, posts, wedged>>
    BY <1>9 DEF LookupHit, LookupMiss, CallSendCoalesced, CleanCache, vars,
       queues, history
  <2> QED
    BY <2>1, KeysFrame
<1>10. ASSUME NEW p \in posts, LoopReply(p)
       PROVE  OneRequestPerKey'
  BY <1>5, <1>6, <1>7, <1>10 DEF LoopReply
<1> QED
  BY <1>1, <1>2, <1>3, <1>4, <1>8, <1>9, <1>10 DEF Next, LoopJob, LoopTimer

\* OneRequestPerKey (no signature is asked for twice at a time) holds for every
\* max_coalesce, 0 included, and for replies of every kind.
THEOREM Coalesces == Spec => []OneRequestPerKey
  BY TypeInit, TypeStep, KeysInit, KeysStep, PTL DEF Spec

-----------------------------------------------------------------------------
(* The limit.  A lookup adds at most one key, and the batch is sent as soon   *)
(* as it is full, so with a positive limit a send always takes all there is.  *)

LEMMA QueuedFinite ==
  ASSUME NEW q
  PROVE  IsFiniteSet(QueuedIn(q)) /\ Cardinality(QueuedIn(q)) \in Nat
<1>1. QueuedIn(q) \in SUBSET Keys
  BY DEF QueuedIn
<1> QED
  BY <1>1, FS_Subset, FS_CardinalityType, CoalCacheAssumption

\* A queue within the limit leaves in one batch.
LEMMA OneBatch ==
  ASSUME NEW q, Cardinality(QueuedIn(q)) <= MaxCoalesce, QueuedIn(q) # {},
         NEW P \in Batchings(q)
  PROVE  P = {QueuedIn(q)}
<1>1. Cardinality(QueuedIn(q)) \in Nat \ {0}
  BY QueuedFinite, FS_EmptySet
<1>2. MaxCoalesce # 0
  BY <1>1, CoalCacheAssumption
<1>3. /\ P \in SUBSET SUBSET QueuedIn(q)
      /\ UNION P = QueuedIn(q)
      /\ \A K \in P : Cardinality(K) \in 1..MaxCoalesce
      /\ \A K, L \in P : K # L =>
           K \cap L = {} /\ MaxCoalesce \in {Cardinality(K), Cardinality(L)}
  BY <1>2 DEF Batchings
<1>4. \A K \in P : K # {}
  BY <1>3, FS_EmptySet
<1>5. ASSUME NEW K \in P, Cardinality(K) = MaxCoalesce
      PROVE  K = QueuedIn(q)
  <2>1. Cardinality(K) <= Cardinality(QueuedIn(q))
    BY <1>3, QueuedFinite, FS_Subset
  <2>2. Cardinality(K) = Cardinality(QueuedIn(q))
    BY <1>1, <1>5, <2>1, CoalCacheAssumption
  <2> QED
    BY <1>3, <2>2, QueuedFinite, FS_Subset
<1>6. \A K, L \in P : K = L
  BY <1>3, <1>4, <1>5
<1>7. PICK K : K \in P
  BY <1>3
<1>8. P = {K}
  BY <1>6, <1>7
<1> QED
  BY <1>3, <1>8

LEMMA SendAll ==
  ASSUME TypeOK,
         NEW q \in [Keys -> SUBSET Callbacks],
         Cardinality(QueuedIn(q)) <= MaxCoalesce,
         SendCoalesced(q)
  PROVE  /\ q_coalescing' = [k \in Keys |-> {}]
         /\ draining' = FALSE
         /\ q_sent' = [k \in Keys |-> q_sent[k] \cup q[k]]
         /\ posts' = IF QueuedIn(q) = {} THEN posts
                     ELSE posts \cup {[keys |-> QueuedIn(q), left |-> UpstreamTimeout]}
<1>1. PICK P \in Batchings(q) :
        /\ q_coalescing' = EraseKeys(q, UNION P)
        /\ q_sent' = [k \in Keys |-> IF k \in UNION P THEN q_sent[k] \cup q[k]
                                                      ELSE q_sent[k]]
        /\ posts' = posts \cup {[keys |-> K, left |-> UpstreamTimeout] : K \in P}
        /\ draining' = (UNION P # QueuedIn(q))
  BY DEF SendCoalesced
<1>2. CASE QueuedIn(q) = {}
  <2>1. /\ P \subseteq SUBSET {} /\ UNION P = {}
        /\ \A K \in P : Cardinality(K) \in 1..MaxCoalesce
    BY <1>2 DEF Batchings
  <2>2. P = {}
    BY <2>1, FS_EmptySet
  <2>3. posts' = posts
    BY <1>1, <2>2
  <2>4. q_coalescing' = EraseKeys(q, {}) /\ draining' = FALSE
        /\ q_sent' = [k \in Keys |-> q_sent[k]]
    BY <1>1, <1>2, <2>1
  <2>5. \A k \in Keys : q[k] = {}
    BY <1>2 DEF QueuedIn
  <2>6. q_coalescing' = [k \in Keys |-> {}]
    BY <2>4, <2>5 DEF EraseKeys
  <2>7. q_sent' = [k \in Keys |-> q_sent[k] \cup q[k]]
    BY <2>4, <2>5 DEF TypeOK
  <2> QED
    BY <1>2, <2>3, <2>4, <2>6, <2>7
<1>3. CASE QueuedIn(q) # {}
  <2>1. P = {QueuedIn(q)} /\ UNION P = QueuedIn(q)
    BY <1>3, OneBatch
  <2>2. \A k \in Keys : k \notin QueuedIn(q) => q[k] = {}
    BY DEF QueuedIn
  <2>3. /\ q_coalescing' = EraseKeys(q, QueuedIn(q))
        /\ q_sent' = [k \in Keys |-> IF k \in QueuedIn(q) THEN q_sent[k] \cup q[k]
                                                          ELSE q_sent[k]]
        /\ draining' = FALSE
    BY <1>1, <2>1
  <2>4. q_coalescing' = [k \in Keys |-> {}]
    BY <2>2, <2>3 DEF EraseKeys
  <2>5. q_sent' = [k \in Keys |-> q_sent[k] \cup q[k]]
    BY <2>2, <2>3
  <2>6. posts' = posts \cup {[keys |-> QueuedIn(q), left |-> UpstreamTimeout]}
    BY <1>1, <2>1
  <2> QED
    BY <1>3, <2>3, <2>4, <2>5, <2>6
<1> QED
  BY <1>2, <1>3

\* A lookup adds at most one key to the queue.
LEMMA OneMoreKey ==
  ASSUME TypeOK, NEW c \in Callbacks, NEW k \in Keys
  PROVE  LET q == [q_coalescing EXCEPT ![k] = @ \cup {c}]
         IN  /\ q \in [Keys -> SUBSET Callbacks]
             /\ QueuedIn(q) = QueuedIn(q_coalescing) \cup {k}
             /\ Cardinality(QueuedIn(q)) <= Cardinality(QueuedIn(q_coalescing)) + 1
<1> DEFINE q == [q_coalescing EXCEPT ![k] = @ \cup {c}]
<1>1. q \in [Keys -> SUBSET Callbacks]
  BY DEF TypeOK
<1>2. QueuedIn(q) = QueuedIn(q_coalescing) \cup {k}
  BY DEF QueuedIn, TypeOK
<1>3. Cardinality(QueuedIn(q_coalescing) \cup {k})
        <= Cardinality(QueuedIn(q_coalescing)) + 1
  BY QueuedFinite, FS_AddElement
<1> QED
  BY <1>1, <1>2, <1>3

\* An empty queue, and one request made of all of q.
LEMMA BatchSent ==
  ASSUME TypeOK, BatchLimit, MaxCoalesce > 0,
         NEW q \in [Keys -> SUBSET Callbacks],
         Cardinality(QueuedIn(q)) <= MaxCoalesce,
         SendCoalesced(q)
  PROVE  BatchLimit'
<1>1. /\ q_coalescing' = [k \in Keys |-> {}]
      /\ draining' = FALSE
      /\ posts' = IF QueuedIn(q) = {} THEN posts
                  ELSE posts \cup {[keys |-> QueuedIn(q), left |-> UpstreamTimeout]}
  BY SendAll
<1>2. QueuedIn(q_coalescing)' = {}
  BY <1>1 DEF QueuedIn
<1>3. Cardinality(QueuedIn(q_coalescing)') < MaxCoalesce
  BY <1>2, FS_EmptySet
<1>4. QueuedIn(q) # {} => Cardinality(QueuedIn(q)) \in 1..MaxCoalesce
  BY QueuedFinite, FS_EmptySet, CoalCacheAssumption
<1>5. ASSUME NEW p \in posts'
      PROVE  Cardinality(p.keys) \in 1..MaxCoalesce
  <2>1. CASE p \in posts
    BY <2>1 DEF BatchLimit
  <2>2. CASE QueuedIn(q) # {} /\ p = [keys |-> QueuedIn(q), left |-> UpstreamTimeout]
    BY <1>4, <2>2
  <2> QED
    BY <1>1, <2>1, <2>2
<1> QED
  BY <1>1, <1>3, <1>5 DEF BatchLimit

LEMMA LimitInit == MaxCoalesce > 0 /\ Init => BatchLimit
<1> SUFFICES ASSUME MaxCoalesce > 0, Init PROVE BatchLimit
  OBVIOUS
<1>1. QueuedIn(q_coalescing) = {}
  BY DEF Init, QueuedIn
<1> QED
  BY <1>1, FS_EmptySet DEF Init, BatchLimit

LEMMA LimitFrame ==
  ASSUME BatchLimit, UNCHANGED <<q_coalescing, draining>>, posts' \subseteq posts
  PROVE  BatchLimit'
  BY DEF BatchLimit, QueuedIn

LEMMA LimitStep ==
  MaxCoalesce > 0 /\ TypeOK /\ BatchLimit /\ [Next]_vars => BatchLimit'
<1> SUFFICES ASSUME MaxCoalesce > 0, TypeOK, BatchLimit, [Next]_vars
             PROVE  BatchLimit'
  OBVIOUS
<1>q. /\ q_coalescing \in [Keys -> SUBSET Callbacks]
      /\ Cardinality(QueuedIn(q_coalescing)) <= MaxCoalesce
  BY QueuedFinite, CoalCacheAssumption DEF TypeOK, BatchLimit
<1>1. ASSUME NEW c \in Callbacks, NEW k \in Keys, Enqueue(c, k)
      PROVE  BatchLimit'
  <2> DEFINE q == [q_coalescing EXCEPT ![k] = @ \cup {c}]
  <2>1. /\ q \in [Keys -> SUBSET Callbacks]
        /\ Cardinality(QueuedIn(q)) <= MaxCoalesce
    BY OneMoreKey, QueuedFinite, CoalCacheAssumption DEF BatchLimit
  <2>2. CASE BatchFull(q)
    <3>1. SendCoalesced(q)
      BY <1>1, <2>2 DEF Enqueue
    <3> HIDE DEF q
    <3> QED
      BY <2>1, <3>1, BatchSent
  <2>3. CASE ~BatchFull(q)
    <3>1. q_coalescing' = q /\ UNCHANGED <<draining, posts>>
      BY <1>1, <2>3 DEF Enqueue
    <3>2. Cardinality(QueuedIn(q)) < MaxCoalesce
      BY <2>3, QueuedFinite, CoalCacheAssumption DEF BatchFull
    <3> HIDE DEF q
    <3> QED
      BY <3>1, <3>2 DEF BatchLimit, QueuedIn
  <2> QED
    BY <2>2, <2>3
<1>2. ASSUME RunSendJob
      PROVE  BatchLimit'
  BY <1>2, <1>q, BatchSent DEF RunSendJob
<1>3. ASSUME NEW t \in timers, FireTimer(t)
      PROVE  BatchLimit'
  BY <1>3, <1>q, BatchSent, LimitFrame DEF FireTimer
<1>4. ASSUME Tick
      PROVE  BatchLimit'
  <2> DEFINE later(p) == [p EXCEPT !.left = @ - 1]
  <2>1. posts' = {later(p) : p \in posts} /\ UNCHANGED <<q_coalescing, draining>>
    BY <1>4 DEF Tick
  <2>2. \A p \in posts : later(p).keys = p.keys
    BY DEF TypeOK, Post
  <2> HIDE DEF later
  <2> QED
    BY <2>1, <2>2 DEF BatchLimit, QueuedIn
<1>5. ASSUME \/ \E c \in Callbacks, k \in Keys :
                  LookupHit(c, k) \/ LookupMiss(c, k) \/ JoinSent(c, k)
             \/ CallSendCoalesced
             \/ CleanCache
             \/ \E p \in posts : LoopReply(p)
             \/ UNCHANGED vars
      PROVE  BatchLimit'
  <2>1. UNCHANGED <<q_coalescing, draining>> /\ posts' \subseteq posts
    BY <1>5 DEF LookupHit, LookupMiss, CallSendCoalesced, JoinSent, CleanCache,
       LoopReply, ReplyValues, ReplyFailure, ReplyThrows, vars, queues
  <2> QED
    BY <2>1, LimitFrame
<1> QED
  BY <1>1, <1>2, <1>3, <1>4, <1>5 DEF Next, LoopJob, LoopTimer

\* BatchLimit: no request asks for more than max_coalesce signatures, and
\* send_coalesced() never calls itself, whatever positive limit is set.
THEOREM LimitKept == MaxCoalesce > 0 => (Spec => []BatchLimit)
<1> SUFFICES ASSUME MaxCoalesce > 0 PROVE Spec => []BatchLimit
  OBVIOUS
<1>1. Init => BatchLimit
  BY LimitInit
<1>2. TypeOK /\ BatchLimit /\ [Next]_vars => BatchLimit'
  BY LimitStep
<1> QED
  BY <1>1, <1>2, TypeInit, TypeStep, PTL DEF Spec

-----------------------------------------------------------------------------
(* Callbacks are neither lost nor called twice.                              *)

\* c is registered for some key in the queues q and s.
Holds(q, s, c) == \E k \in Keys : c \in q[k] \cup s[k]

\* No callback is registered twice in q and s.
Exclusive(q, s) ==
  \A c \in Callbacks : \A j, k \in Keys :
    /\ c \in q[k] => c \notin s[j]
    /\ c \in q[j] /\ c \in q[k] => j = k
    /\ c \in s[j] /\ c \in s[k] => j = k

JobsDistinct ==
  \A i, j \in DOMAIN jobs :
    jobs[i].op = "lookup" /\ jobs[j].op = "lookup" /\ jobs[i].cb = jobs[j].cb
      => i = j

\* A callback waits in one place: a job or a queue.
HeldInv ==
  /\ JobsDistinct
  /\ Exclusive(q_coalescing, q_sent)
  /\ \A c \in JobCallbacks : ~Holds(q_coalescing, q_sent, c)
  /\ \A c \in Callbacks : c \in Pending
                            <=> c \in JobCallbacks \/ Holds(q_coalescing, q_sent, c)
  /\ \A c \in Callbacks \ asked : answer[c] = "none"

\* The job queue by the callbacks in it.
LEMMA AppendLookup ==
  ASSUME TypeOK, JobsDistinct, NEW c \in Callbacks, NEW k \in Keys,
         c \notin JobCallbacks,
         jobs' = Append(jobs, [op |-> "lookup", cb |-> c, key |-> k])
  PROVE  JobsDistinct' /\ JobCallbacks' = JobCallbacks \cup {c}
<1> DEFINE job == [op |-> "lookup", cb |-> c, key |-> k]
<1>1. job \in LookupJob \cup {SendJob} /\ job.op = "lookup" /\ job.cb = c
  BY DEF LookupJob
<1>2. jobs \in Seq(LookupJob \cup {SendJob})
  BY DEF TypeOK
<1> HIDE DEF job
<1>3. /\ DOMAIN jobs = 1..Len(jobs) /\ Len(jobs) \in Nat
      /\ DOMAIN jobs' = 1..(Len(jobs) + 1)
      /\ \A i \in 1..Len(jobs) : jobs'[i] = jobs[i]
      /\ jobs'[Len(jobs) + 1] = job
  BY <1>1, <1>2, AppendProperties, LenProperties DEF job
<1>4. JobCallbacks' = JobCallbacks \cup {c}
  BY <1>1, <1>3 DEF JobCallbacks
<1>5. JobsDistinct'
  BY <1>1, <1>3 DEF JobsDistinct, JobCallbacks
<1> QED
  BY <1>4, <1>5

LEMMA AppendSend ==
  ASSUME TypeOK, JobsDistinct, jobs' = Append(jobs, SendJob)
  PROVE  JobsDistinct' /\ JobCallbacks' = JobCallbacks
<1>1. SendJob \in LookupJob \cup {SendJob} /\ SendJob.op # "lookup"
  BY DEF SendJob
<1>2. jobs \in Seq(LookupJob \cup {SendJob})
  BY DEF TypeOK
<1>3. /\ DOMAIN jobs = 1..Len(jobs) /\ Len(jobs) \in Nat
      /\ DOMAIN jobs' = 1..(Len(jobs) + 1)
      /\ \A i \in 1..Len(jobs) : jobs'[i] = jobs[i]
      /\ jobs'[Len(jobs) + 1] = SendJob
  BY <1>1, <1>2, AppendProperties, LenProperties
<1>4. JobCallbacks' = JobCallbacks
  BY <1>1, <1>3 DEF JobCallbacks
<1>5. JobsDistinct'
  BY <1>1, <1>3 DEF JobsDistinct
<1> QED
  BY <1>4, <1>5

LEMMA TakeJob ==
  ASSUME TypeOK, JobsDistinct, NEW job, Dequeue(job)
  PROVE  /\ JobsDistinct'
         /\ job.op = "lookup" => /\ job.cb \in Callbacks => job.cb \in JobCallbacks
                                 /\ JobCallbacks' = JobCallbacks \ {job.cb}
         /\ job.op # "lookup" => JobCallbacks' = JobCallbacks
<1>1. jobs \in Seq(LookupJob \cup {SendJob}) /\ jobs # <<>>
  BY DEF TypeOK, Dequeue
<1>2. /\ DOMAIN jobs = 1..Len(jobs) /\ Len(jobs) \in Nat \ {0}
      /\ DOMAIN jobs' = 1..(Len(jobs) - 1)
      /\ \A i \in 1..(Len(jobs) - 1) : jobs'[i] = jobs[i + 1]
      /\ jobs[1] = job
  BY <1>1, HeadTailProperties, LenProperties, EmptySeq DEF Dequeue
<1>3. \A i \in 1..Len(jobs) :
        i = 1 \/ (i - 1 \in 1..(Len(jobs) - 1) /\ jobs'[i - 1] = jobs[i])
  BY <1>2
<1>4. ASSUME NEW i \in DOMAIN jobs', NEW j \in DOMAIN jobs',
             jobs'[i].op = "lookup", jobs'[j].op = "lookup",
             jobs'[i].cb = jobs'[j].cb
      PROVE  i = j
  <2>1. /\ i \in Int /\ j \in Int
        /\ i + 1 \in DOMAIN jobs /\ j + 1 \in DOMAIN jobs
        /\ jobs'[i] = jobs[i + 1] /\ jobs'[j] = jobs[j + 1]
    BY <1>2
  <2>2. i + 1 = j + 1
    BY <1>4, <2>1 DEF JobsDistinct
  <2> QED
    BY <2>1, <2>2
<1>5. \A c \in JobCallbacks' :
        c \in JobCallbacks /\ (job.op = "lookup" => c # job.cb)
  BY <1>2 DEF JobCallbacks, JobsDistinct
<1>6. \A c \in JobCallbacks :
        c \in JobCallbacks' \/ (job.op = "lookup" /\ c = job.cb)
  BY <1>2, <1>3 DEF JobCallbacks
<1>7. job.op = "lookup" => (job.cb \in Callbacks => job.cb \in JobCallbacks)
  BY <1>2 DEF JobCallbacks
<1> QED
  BY <1>4, <1>5, <1>6, <1>7 DEF JobsDistinct

\* A send moves callbacks from one queue to the other, key by key.
LEMMA SendKeepsHeld ==
  ASSUME TypeOK, NEW q \in [Keys -> SUBSET Callbacks],
         Exclusive(q, q_sent), SendCoalesced(q)
  PROVE  /\ Exclusive(q_coalescing', q_sent')
         /\ \A c \in Callbacks :
              Holds(q_coalescing', q_sent', c) <=> Holds(q, q_sent, c)
<1>1. PICK P \in Batchings(q) :
        /\ q_coalescing' = EraseKeys(q, UNION P)
        /\ q_sent' = [k \in Keys |-> IF k \in UNION P THEN q_sent[k] \cup q[k]
                                                      ELSE q_sent[k]]
  BY DEF SendCoalesced
<1> DEFINE U == UNION P
<1>2. \A k \in Keys : /\ q_coalescing'[k] = IF k \in U THEN {} ELSE q[k]
                      /\ q_sent'[k] = IF k \in U THEN q_sent[k] \cup q[k]
                                                 ELSE q_sent[k]
  BY <1>1 DEF EraseKeys
<1> HIDE DEF U
<1>3. Exclusive(q_coalescing', q_sent')
  BY <1>2 DEF Exclusive
<1>4. \A c \in Callbacks :
        Holds(q_coalescing', q_sent', c) <=> Holds(q, q_sent, c)
  BY <1>2 DEF Holds
<1> QED
  BY <1>3, <1>4

\* An answer takes a callback out of q_sent and out of Pending together.
LEMMA DeliverKeepsHeld ==
  ASSUME TypeOK, HeldInv, NEW K \in SUBSET Keys,
         NEW v \in [K -> Answers \ {"none"}], Deliver(K, v),
         UNCHANGED <<jobs, q_coalescing, asked>>
  PROVE  HeldInv'
<1> DEFINE Called(c) == \E k \in K : c \in q_sent[k]
<1>1. ASSUME NEW c \in Callbacks
      PROVE  /\ Called(c) => answer'[c] # "none"
             /\ ~Called(c) => answer'[c] = answer[c]
  <2>1. Called(c) => v[CHOOSE k \in K : c \in q_sent[k]] \in Answers \ {"none"}
    OBVIOUS
  <2> QED
    BY <2>1 DEF Deliver
<1>2. \A k \in Keys : q_sent'[k] = IF k \in K THEN {} ELSE q_sent[k]
  BY DEF Deliver, EraseKeys
<1>3. Exclusive(q_coalescing, q_sent)'
  BY <1>2 DEF HeldInv, Exclusive
<1>4. ASSUME NEW c \in Callbacks
      PROVE  Holds(q_coalescing, q_sent, c)'
               <=> Holds(q_coalescing, q_sent, c) /\ ~Called(c)
  BY <1>2 DEF Holds, HeldInv, Exclusive
<1>5. ASSUME NEW c \in Callbacks
      PROVE  Called(c) => Holds(q_coalescing, q_sent, c) /\ c \in asked
  BY DEF Holds, HeldInv, Pending
<1>6. JobsDistinct' /\ JobCallbacks' = JobCallbacks
  BY DEF HeldInv, JobsDistinct, JobCallbacks
<1>7. ASSUME NEW c \in Callbacks
      PROVE  c \in Pending' <=> c \in Pending /\ ~Called(c)
  BY <1>1, <1>5 DEF Pending
<1>8. \A c \in JobCallbacks : c \in Callbacks
  BY DEF JobCallbacks
<1> HIDE DEF Called
<1>9. \A c \in Callbacks : c \in Pending'
          <=> c \in JobCallbacks' \/ Holds(q_coalescing, q_sent, c)'
  BY <1>4, <1>5, <1>6, <1>7 DEF HeldInv
<1>10. \A c \in JobCallbacks' : ~Holds(q_coalescing, q_sent, c)'
  BY <1>4, <1>6, <1>8 DEF HeldInv
<1>11. \A c \in Callbacks \ asked' : answer'[c] = "none"
  BY <1>1, <1>5 DEF HeldInv
<1> QED
  BY <1>3, <1>6, <1>9, <1>10, <1>11 DEF HeldInv

LEMMA HeldInit == Init => HeldInv
  BY DEF Init, HeldInv, JobsDistinct, JobCallbacks, Exclusive, Holds, Pending

LEMMA HeldFrame ==
  ASSUME HeldInv, UNCHANGED <<jobs, q_coalescing, q_sent, asked, answer>>
  PROVE  HeldInv'
  BY DEF HeldInv, JobsDistinct, JobCallbacks, Exclusive, Holds, Pending

\* A send that changes no more than the queues.
LEMMA HeldSend ==
  ASSUME TypeOK, HeldInv, SendCoalesced(q_coalescing),
         JobsDistinct', JobCallbacks' = JobCallbacks, UNCHANGED <<asked, answer>>
  PROVE  HeldInv'
<1>1. q_coalescing \in [Keys -> SUBSET Callbacks] /\ Exclusive(q_coalescing, q_sent)
  BY DEF TypeOK, HeldInv
<1>2. /\ Exclusive(q_coalescing', q_sent')
      /\ \A c \in Callbacks :
           Holds(q_coalescing', q_sent', c) <=> Holds(q_coalescing, q_sent, c)
  BY <1>1, SendKeepsHeld
<1>3. \A c \in JobCallbacks : c \in Callbacks
  BY DEF JobCallbacks
<1>4. Pending' = Pending
  BY DEF Pending
<1> QED
  BY <1>2, <1>3, <1>4 DEF HeldInv

LEMMA HeldStep == TypeOK /\ HeldInv /\ [Next]_vars => HeldInv'
<1> SUFFICES ASSUME TypeOK, HeldInv, [Next]_vars PROVE HeldInv'
  OBVIOUS
<1>a. \A c \in Callbacks \ asked :
        c \notin Pending /\ c \notin JobCallbacks /\ ~Holds(q_coalescing, q_sent, c)
  BY DEF HeldInv, Pending
<1>b. \A c \in JobCallbacks : c \in Callbacks
  BY DEF JobCallbacks
<1>c. JobsDistinct
  BY DEF HeldInv
<1>1. ASSUME NEW c \in Callbacks, NEW k \in Keys, LookupHit(c, k)
      PROVE  HeldInv'
  <2>1. answer' = [answer EXCEPT ![c] = cache[k].conf_status]
        /\ cache[k].conf_status # "none" /\ c \notin asked
    BY <1>1 DEF LookupHit, TypeOK, Item, Statuses
  <2>2. /\ UNCHANGED <<jobs, q_coalescing, q_sent>>
        /\ asked' = asked \cup {c}
    BY <1>1 DEF LookupHit, queues
  <2>3. Pending' = Pending
    BY <2>1, <2>2 DEF Pending, TypeOK
  <2>4. /\ JobsDistinct' /\ JobCallbacks' = JobCallbacks
        /\ Exclusive(q_coalescing, q_sent)'
        /\ \A d \in Callbacks : Holds(q_coalescing, q_sent, d)'
                                  <=> Holds(q_coalescing, q_sent, d)
    BY <2>2 DEF HeldInv, JobsDistinct, JobCallbacks, Exclusive, Holds
  <2>5. \A d \in Callbacks \ asked' : answer'[d] = "none"
    BY <2>1, <2>2 DEF HeldInv, TypeOK
  <2> QED
    BY <1>b, <2>3, <2>4, <2>5 DEF HeldInv
<1>2. ASSUME NEW c \in Callbacks, NEW k \in Keys, LookupMiss(c, k)
      PROVE  HeldInv'
  <2>1. c \notin asked /\ asked' = asked \cup {c}
        /\ UNCHANGED <<q_coalescing, q_sent, answer>>
    BY <1>2 DEF LookupMiss, queues
  <2>2. JobsDistinct' /\ JobCallbacks' = JobCallbacks \cup {c}
    BY <1>2, <1>a, <1>c, <2>1, AppendLookup DEF LookupMiss
  <2>3. Pending' = Pending \cup {c}
    BY <2>1 DEF Pending, HeldInv
  <2>4. /\ Exclusive(q_coalescing, q_sent)'
        /\ \A d \in Callbacks : Holds(q_coalescing, q_sent, d)'
                                  <=> Holds(q_coalescing, q_sent, d)
    BY <2>1 DEF HeldInv, Exclusive, Holds
  <2> QED
    BY <1>a, <1>b, <2>1, <2>2, <2>3, <2>4 DEF HeldInv
<1>3. ASSUME CallSendCoalesced
      PROVE  HeldInv'
  <2>1. JobsDistinct' /\ JobCallbacks' = JobCallbacks
    BY <1>3, <1>c, AppendSend DEF CallSendCoalesced
  <2>2. UNCHANGED <<q_coalescing, q_sent, asked, answer>>
    BY <1>3 DEF CallSendCoalesced, queues, history
  <2> QED
    BY <2>1, <2>2 DEF HeldInv, Exclusive, Holds, Pending
<1>4. ASSUME NEW c \in Callbacks, NEW k \in Keys, JoinSent(c, k)
      PROVE  HeldInv'
  <2>1. c \in JobCallbacks /\ JobsDistinct' /\ JobCallbacks' = JobCallbacks \ {c}
    BY <1>4, <1>c, TakeJob DEF JoinSent
  <2>2. UNCHANGED <<q_coalescing, asked, answer>> /\ q_sent' = [q_sent EXCEPT ![k] = @ \cup {c}]
    BY <1>4 DEF JoinSent, history
  <2>3. Exclusive(q_coalescing, q_sent)'
    BY <2>1, <2>2 DEF HeldInv, Exclusive, Holds, TypeOK
  <2>4. \A d \in Callbacks : Holds(q_coalescing, q_sent, d)'
                               <=> Holds(q_coalescing, q_sent, d) \/ d = c
    BY <2>2 DEF Holds, TypeOK
  <2>5. Pending' = Pending
    BY <2>2 DEF Pending
  <2>6. \A d \in Callbacks \ asked' : answer'[d] = "none"
    BY <2>2 DEF HeldInv
  <2> QED
    BY <1>b, <2>1, <2>3, <2>4, <2>5, <2>6 DEF HeldInv
<1>5. ASSUME NEW c \in Callbacks, NEW k \in Keys, Enqueue(c, k)
      PROVE  HeldInv'
  <2> DEFINE q == [q_coalescing EXCEPT ![k] = @ \cup {c}]
  <2>1. c \in JobCallbacks /\ JobsDistinct' /\ JobCallbacks' = JobCallbacks \ {c}
    BY <1>5, <1>c, TakeJob DEF Enqueue
  <2>2. q \in [Keys -> SUBSET Callbacks] /\ UNCHANGED <<asked, answer>>
    BY <1>5 DEF Enqueue, TypeOK, history
  <2>3. Exclusive(q, q_sent)
    BY <2>1 DEF HeldInv, Exclusive, Holds, TypeOK
  <2>4. \A d \in Callbacks : Holds(q, q_sent, d)
                               <=> Holds(q_coalescing, q_sent, d) \/ d = c
    BY DEF Holds, TypeOK
  <2>5. Pending' = Pending /\ \A d \in Callbacks \ asked' : answer'[d] = "none"
    BY <2>2 DEF Pending, HeldInv
  <2>6. SendCoalesced(q) \/ (q_coalescing' = q /\ q_sent' = q_sent)
    BY <1>5 DEF Enqueue
  <2> HIDE DEF q
  <2>7. /\ Exclusive(q_coalescing', q_sent')
        /\ \A d \in Callbacks :
             Holds(q_coalescing', q_sent', d) <=> Holds(q, q_sent, d)
    BY <2>2, <2>3, <2>6, SendKeepsHeld
  <2> QED
    BY <1>b, <2>1, <2>4, <2>5, <2>7 DEF HeldInv
<1>6. ASSUME RunSendJob
      PROVE  HeldInv'
  <2>1. JobsDistinct' /\ JobCallbacks' = JobCallbacks
    BY <1>6, <1>c, TakeJob DEF RunSendJob, SendJob
  <2> QED
    BY <1>6, <2>1, HeldSend DEF RunSendJob, history
<1>7. ASSUME NEW t \in timers, FireTimer(t)
      PROVE  HeldInv'
  <2>1. JobsDistinct' /\ JobCallbacks' = JobCallbacks
    BY <1>7, <1>c DEF FireTimer, JobsDistinct, JobCallbacks
  <2> QED
    BY <1>7, <2>1, HeldSend, HeldFrame DEF FireTimer, history
<1>8. ASSUME NEW p \in posts, NEW v \in [p.keys -> Values], ReplyValues(p, v)
      PROVE  HeldInv'
  <2> DEFINE w == [k \in p.keys |-> Loaded(v[k])]
  <2>1. p.keys \in SUBSET Keys /\ w \in [p.keys -> Answers \ {"none"}]
    BY DEF TypeOK, Post, Loaded, Values, Statuses, Answers
  <2>2. Deliver(p.keys, w) /\ UNCHANGED <<jobs, q_coalescing, asked>>
    BY <1>8 DEF ReplyValues
  <2> HIDE DEF w
  <2> QED
    BY <2>1, <2>2, DeliverKeepsHeld
<1>9. ASSUME NEW p \in posts, ReplyFailure(p)
      PROVE  HeldInv'
  <2>1. /\ p.keys \in SUBSET Keys
        /\ [k \in p.keys |-> "failed"] \in [p.keys -> Answers \ {"none"}]
    BY DEF TypeOK, Post, Answers
  <2> QED
    BY <1>9, <2>1, DeliverKeepsHeld DEF ReplyFailure
<1>10. ASSUME \/ CleanCache \/ Tick \/ UNCHANGED vars
              \/ \E p \in posts : ReplyThrows(p)
      PROVE  HeldInv'
  <2>1. UNCHANGED <<jobs, q_coalescing, q_sent, asked, answer>>
    BY <1>10 DEF CleanCache, Tick, ReplyThrows, vars, queues, history
  <2> QED
    BY <2>1, HeldFrame
<1> QED
  BY <1>1, <1>2, <1>3, <1>4, <1>5, <1>6, <1>7, <1>8, <1>9, <1>10
  DEF Next, LoopJob, LoopTimer, LoopReply

\* CalledOnce (no callback is called again) needs no assumption on the limit or
\* on the replies: a callback leaves the only place that holds it when called.
THEOREM NeverCalledTwice == Spec => CalledOnce
<1>1. TypeOK /\ HeldInv /\ [Next]_vars
        => \A c \in Callbacks : answer[c] # "none" => answer'[c] = answer[c]
  <2> SUFFICES ASSUME TypeOK, HeldInv, [Next]_vars,
                      NEW c \in Callbacks, answer[c] # "none"
               PROVE  answer'[c] = answer[c]
    OBVIOUS
  <2>1. c \in asked /\ \A k \in Keys : c \notin q_sent[k]
    BY DEF HeldInv, Pending, Holds
  <2>2. ASSUME NEW d \in Callbacks, NEW k \in Keys, LookupHit(d, k)
        PROVE  answer'[c] = answer[c]
    BY <2>1, <2>2 DEF LookupHit, TypeOK
  <2>3. ASSUME NEW p \in posts, NEW v, Deliver(p.keys, v)
        PROVE  answer'[c] = answer[c]
    BY <2>1, <2>3 DEF Deliver, TypeOK, Post
  <2>4. ASSUME NEW p \in posts, LoopReply(p)
        PROVE  answer'[c] = answer[c]
    BY <2>3, <2>4 DEF LoopReply, ReplyValues, ReplyFailure, ReplyThrows
  <2>5. ASSUME \/ \E d \in Callbacks, k \in Keys : LookupMiss(d, k)
               \/ CallSendCoalesced \/ LoopJob \/ LoopTimer \/ Tick
               \/ UNCHANGED vars
        PROVE  answer'[c] = answer[c]
    BY <2>5 DEF LookupMiss, CallSendCoalesced, LoopJob, JoinSent, Enqueue,
       RunSendJob, LoopTimer, CleanCache, FireTimer, Tick, vars, history
  <2> QED
    BY <2>2, <2>4, <2>5 DEF Next
<1> QED
  BY <1>1, TypeInit, TypeStep, HeldInit, HeldStep, PTL DEF Spec, CalledOnce

\* HeldOnce (a callback waits in exactly one place until it is called, and then
\* in none) holds for every limit and every reply.
THEOREM CallbacksHeldOnce == Spec => []HeldOnce
<1>1. TypeOK /\ HeldInv => HeldOnce
  <2> SUFFICES ASSUME TypeOK, HeldInv, NEW c \in Callbacks
               PROVE  Cardinality(Places(c)) = IF c \in Pending THEN 1 ELSE 0
    BY DEF HeldOnce
  <2>1. CASE c \notin Pending
    <3>1. c \notin JobCallbacks /\ ~Holds(q_coalescing, q_sent, c)
      BY <2>1 DEF HeldInv
    <3>2. Places(c) = {}
      BY <3>1 DEF Places, JobCallbacks, Holds
    <3> QED
      BY <2>1, <3>2, FS_EmptySet
  <2>2. CASE c \in JobCallbacks
    <3>1. PICK i \in DOMAIN jobs : jobs[i].op = "lookup" /\ jobs[i].cb = c
      BY <2>2 DEF JobCallbacks
    <3>2. c \in Pending /\ ~Holds(q_coalescing, q_sent, c)
      BY <2>2 DEF HeldInv
    <3>3. {j \in DOMAIN jobs : jobs[j].op = "lookup" /\ jobs[j].cb = c} = {i}
      BY <3>1 DEF HeldInv, JobsDistinct
    <3>4. Places(c) = {<<"job", i>>}
      BY <3>2, <3>3 DEF Places, Holds
    <3> QED
      BY <3>2, <3>4, FS_Singleton
  <2>3. ASSUME NEW k \in Keys, c \in q_coalescing[k]
        PROVE  Cardinality(Places(c)) = IF c \in Pending THEN 1 ELSE 0
    <3>1. c \in Pending /\ c \notin JobCallbacks
      BY <2>3 DEF HeldInv, Holds
    <3>2. /\ {x \in Keys : c \in q_coalescing[x]} = {k}
          /\ {x \in Keys : c \in q_sent[x]} = {}
      BY <2>3 DEF HeldInv, Exclusive
    <3>3. {j \in DOMAIN jobs : jobs[j].op = "lookup" /\ jobs[j].cb = c} = {}
      BY <3>1 DEF JobCallbacks
    <3>4. Places(c) = {<<"coalescing", k>>}
      BY <3>2, <3>3 DEF Places
    <3> QED
      BY <3>1, <3>4, FS_Singleton
  <2>4. ASSUME NEW k \in Keys, c \in q_sent[k]
        PROVE  Cardinality(Places(c)) = IF c \in Pending THEN 1 ELSE 0
    <3>1. c \in Pending /\ c \notin JobCallbacks
      BY <2>4 DEF HeldInv, Holds
    <3>2. /\ {x \in Keys : c \in q_sent[x]} = {k}
          /\ {x \in Keys : c \in q_coalescing[x]} = {}
      BY <2>4 DEF HeldInv, Exclusive
    <3>3. {j \in DOMAIN jobs : jobs[j].op = "lookup" /\ jobs[j].cb = c} = {}
      BY <3>1 DEF JobCallbacks
    <3>4. Places(c) = {<<"sent", k>>}
      BY <3>2, <3>3 DEF Places
    <3> QED
      BY <3>1, <3>4, FS_Singleton
  <2> QED
    BY <2>1, <2>2, <2>3, <2>4 DEF HeldInv, Holds
<1> QED
  BY <1>1, TypeInit, TypeStep, HeldInit, HeldStep, PTL DEF Spec

-----------------------------------------------------------------------------
(* Timeliness.  Where a callback waits there is something due soon enough    *)
(* for it: its job, a timer that will send its batch, or its request.        *)

TimerDue(c) ==
  \E t \in timers : /\ t.q_num = q_num
                    /\ waited[c] + t.left <= Slack + CoalesceTime

PostDue(c, k) ==
  \E p \in posts : /\ k \in p.keys
                   /\ waited[c] + p.left <= 2 * Slack + CoalesceTime + UpstreamTimeout

TimersInTime == \A t \in timers : -Slack <= t.left /\ t.left <= CoalesceTime
PostsInTime == \A p \in posts : -Slack <= p.left /\ p.left <= UpstreamTimeout
QueueDue == \A k \in Keys : \A c \in q_coalescing[k] : TimerDue(c)
SentDue == \A k \in Keys \ wedged : \A c \in q_sent[k] : PostDue(c, k)

DueInv ==
  /\ \A c \in JobCallbacks : waited[c] <= Slack
  /\ \A c \in Callbacks \ asked : waited[c] = 0
  /\ TimersInTime
  /\ PostsInTime
  /\ QueueDue
  /\ SentDue

\* All that the steps below rest on.
SafeInv == TypeOK /\ OneRequestPerKey /\ BatchLimit /\ HeldInv

LEMMA DueInit == Init => DueInv
  BY CoalCacheAssumption
  DEF Init, DueInv, JobCallbacks, TimersInTime, PostsInTime, QueueDue, SentDue

\* The queued callbacks have not waited longer than a timer allows.
LEMMA QueueWaited ==
  ASSUME TypeOK, DueInv, NEW k \in Keys, NEW c \in q_coalescing[k]
  PROVE  waited[c] \in Nat /\ waited[c] <= 2 * Slack + CoalesceTime
<1>1. c \in Callbacks /\ waited[c] \in Nat
  BY DEF TypeOK
<1>2. PICK t \in timers : waited[c] + t.left <= Slack + CoalesceTime
  BY DEF DueInv, QueueDue, TimerDue
<1>3. t.left \in Int /\ -Slack <= t.left
  BY DEF TypeOK, Timer, DueInv, TimersInTime
<1> QED
  BY <1>1, <1>2, <1>3, CoalCacheAssumption

\* A send starts a request for callbacks that have waited no longer than that.
LEMMA DueSend ==
  ASSUME SafeInv, DueInv, UNCHANGED <<waited, wedged>>,
         NEW q \in [Keys -> SUBSET Callbacks],
         Cardinality(QueuedIn(q)) <= MaxCoalesce,
         \A k \in Keys : \A c \in q[k] : waited[c] <= 2 * Slack + CoalesceTime,
         SendCoalesced(q)
  PROVE  PostsInTime' /\ QueueDue' /\ SentDue'
<1> USE CoalCacheAssumption
<1>1. /\ q_coalescing' = [k \in Keys |-> {}]
      /\ q_sent' = [k \in Keys |-> q_sent[k] \cup q[k]]
      /\ posts' = IF QueuedIn(q) = {} THEN posts
                  ELSE posts \cup {[keys |-> QueuedIn(q), left |-> UpstreamTimeout]}
  BY SendAll DEF SafeInv
<1>2. posts \subseteq posts'
  BY <1>1
<1>3. PostsInTime'
  BY <1>1 DEF DueInv, PostsInTime
<1>4. QueueDue'
  BY <1>1 DEF QueueDue
<1>5. ASSUME NEW k \in Keys \ wedged, NEW c \in q_sent[k]
      PROVE  PostDue(c, k)'
  BY <1>2, <1>5 DEF DueInv, SentDue, PostDue
<1>6. ASSUME NEW k \in Keys \ wedged, NEW c \in q[k]
      PROVE  PostDue(c, k)'
  <2> DEFINE new == [keys |-> QueuedIn(q), left |-> UpstreamTimeout]
  <2>1. k \in QueuedIn(q)
    BY <1>6 DEF QueuedIn
  <2>2. new \in posts' /\ new.keys = QueuedIn(q) /\ new.left = UpstreamTimeout
    BY <1>1, <2>1
  <2>3. waited[c] \in Nat /\ waited[c] <= 2 * Slack + CoalesceTime
    BY <1>6 DEF SafeInv, TypeOK
  <2> HIDE DEF new
  <2> QED
    BY <2>1, <2>2, <2>3 DEF PostDue
<1> QED
  BY <1>1, <1>3, <1>4, <1>5, <1>6 DEF SentDue

\* An answered or dropped request is not the one another key waits for.
LEMMA DueReply ==
  ASSUME SafeInv, DueInv, NEW p \in posts, posts' = posts \ {p},
         UNCHANGED <<jobs, q_coalescing, q_num, timers, asked, waited>>,
         wedged \subseteq wedged',
         \A k \in Keys \ wedged' : q_sent'[k] \subseteq q_sent[k],
         \A k \in p.keys \ wedged' : q_sent'[k] = {}
  PROVE  DueInv'
<1>1. ASSUME NEW k \in Keys \ wedged', NEW c \in q_sent'[k]
      PROVE  PostDue(c, k)'
  <2>1. PostDue(c, k) /\ k \notin p.keys
    BY <1>1 DEF DueInv, SentDue
  <2> QED
    BY <2>1 DEF PostDue
<1>2. SentDue'
  BY <1>1 DEF SentDue
<1>3. PostsInTime'
  BY DEF DueInv, PostsInTime
<1>4. QueueDue' /\ TimersInTime'
  BY DEF DueInv, QueueDue, TimersInTime, TimerDue
<1> QED
  BY <1>2, <1>3, <1>4 DEF DueInv, JobCallbacks

LEMMA DueFrame ==
  ASSUME DueInv, UNCHANGED <<q_coalescing, q_sent, q_num, timers, posts, wedged,
                             waited>>,
         asked \subseteq asked',
         \A c \in JobCallbacks' : c \in JobCallbacks \/ waited[c] <= Slack
  PROVE  DueInv'
  BY DEF DueInv, TimersInTime, PostsInTime, QueueDue, SentDue, TimerDue, PostDue

\* A job moves to a queue: it has waited at most Slack, and what it joins (a
\* request, a batch with its timer, or a batch it opens) is due in time.
LEMMA DueJob ==
  ASSUME SafeInv, DueInv, NEW c \in Callbacks, NEW k \in Keys,
         JoinSent(c, k) \/ Enqueue(c, k)
  PROVE  /\ waited[c] \in Nat /\ waited[c] <= Slack
         /\ JobCallbacks' \subseteq JobCallbacks
<1>1. JobsDistinct /\ TypeOK
  BY DEF SafeInv, HeldInv
<1>2. Dequeue([op |-> "lookup", cb |-> c, key |-> k])
  BY DEF JoinSent, Enqueue
<1>3. c \in JobCallbacks /\ JobCallbacks' = JobCallbacks \ {c}
  BY <1>1, <1>2, TakeJob
<1> QED
  BY <1>1, <1>3 DEF DueInv, TypeOK

LEMMA DueJoin ==
  ASSUME SafeInv, DueInv, NEW c \in Callbacks, NEW k \in Keys, JoinSent(c, k)
  PROVE  DueInv'
<1> USE CoalCacheAssumption
<1>1. waited[c] \in Nat /\ waited[c] <= Slack /\ JobCallbacks' \subseteq JobCallbacks
  BY DueJob
<1>2. /\ q_sent' = [q_sent EXCEPT ![k] = @ \cup {c}]
      /\ UNCHANGED <<q_coalescing, q_num, timers, posts, wedged, asked, waited>>
  BY DEF JoinSent, history
<1>3. ASSUME NEW j \in Keys \ wedged, NEW d \in q_sent'[j]
      PROVE  PostDue(d, j)'
  <2>1. CASE d \in q_sent[j]
    BY <1>2, <1>3, <2>1 DEF DueInv, SentDue, PostDue
  <2>2. CASE d \notin q_sent[j]
    <3>1. d = c /\ j = k
      BY <1>2, <1>3, <2>2 DEF SafeInv, TypeOK
    <3>2. PICK p \in posts : k \in p.keys
      BY <1>3, <3>1 DEF JoinSent, HasRequest, SafeInv, OneRequestPerKey,
         QueuedIn, InFlight
    <3>3. p.left \in Int /\ p.left <= UpstreamTimeout
      BY DEF SafeInv, TypeOK, Post, DueInv, PostsInTime
    <3> QED
      BY <1>1, <1>2, <3>1, <3>2, <3>3 DEF PostDue
  <2> QED
    BY <2>1, <2>2
<1>4. SentDue'
  BY <1>2, <1>3 DEF SentDue
<1> QED
  BY <1>1, <1>2, <1>4 DEF DueInv, TimersInTime, PostsInTime, QueueDue, TimerDue

LEMMA DueEnqueue ==
  ASSUME MaxCoalesce > 0, SafeInv, DueInv,
         NEW c \in Callbacks, NEW k \in Keys, Enqueue(c, k)
  PROVE  DueInv'
<1> USE CoalCacheAssumption
<1> DEFINE q == [q_coalescing EXCEPT ![k] = @ \cup {c}]
<1>1. waited[c] \in Nat /\ waited[c] <= Slack /\ JobCallbacks' \subseteq JobCallbacks
  BY DueJob
<1>2. UNCHANGED <<q_num, wedged, asked, waited>> /\ timers \subseteq timers'
  BY DEF Enqueue, history
<1>3. \E t \in timers' : t.q_num = q_num /\ t.left \in Int /\ t.left <= CoalesceTime
  <2>1. CASE OpensBatch
    <3>1. NewTimer \in timers'
      BY <2>1 DEF Enqueue
    <3> QED
      BY <3>1 DEF NewTimer
  <2>2. CASE ~OpensBatch
    <3>1. PICK j \in Keys : \E d \in q_coalescing[j] : TimerDue(d)
      BY <2>2 DEF OpensBatch, QueuedIn, DueInv, QueueDue
    <3> QED
      BY <1>2, <3>1 DEF TimerDue, DueInv, TimersInTime, SafeInv, TypeOK, Timer
  <2> QED
    BY <2>1, <2>2
<1>4. TimerDue(c)'
  BY <1>1, <1>2, <1>3 DEF TimerDue
<1>5. TimersInTime'
  BY DEF Enqueue, NewTimer, DueInv, TimersInTime
<1>6. /\ q \in [Keys -> SUBSET Callbacks]
      /\ Cardinality(QueuedIn(q)) <= MaxCoalesce
  <2>1. TypeOK /\ Cardinality(QueuedIn(q_coalescing)) < MaxCoalesce
    BY DEF SafeInv, BatchLimit
  <2>2. /\ q \in [Keys -> SUBSET Callbacks]
        /\ Cardinality(QueuedIn(q)) <= Cardinality(QueuedIn(q_coalescing)) + 1
    BY <2>1, OneMoreKey
  <2>3. q_coalescing \in [Keys -> SUBSET Callbacks]
    BY <2>1 DEF TypeOK
  <2> HIDE DEF q
  <2>4. Cardinality(QueuedIn(q)) \in Nat /\ Cardinality(QueuedIn(q_coalescing)) \in Nat
    BY <2>2, <2>3, QueuedFinite
  <2> QED
    BY <2>1, <2>2, <2>4
<1>7. \A j \in Keys : \A d \in q[j] : d = c \/ d \in q_coalescing[j]
  BY DEF SafeInv, TypeOK
<1>8. \A j \in Keys : \A d \in q[j] : waited[d] <= 2 * Slack + CoalesceTime
  BY <1>1, <1>7, QueueWaited DEF SafeInv
<1>9. PostsInTime' /\ QueueDue' /\ SentDue'
  <2>1. CASE BatchFull(q)
    <3>1. SendCoalesced(q)
      BY <2>1 DEF Enqueue
    <3> HIDE DEF q
    <3> QED
      BY <1>2, <1>6, <1>8, <3>1, DueSend
  <2>2. CASE ~BatchFull(q)
    <3>1. q_coalescing' = q /\ UNCHANGED <<q_sent, posts>>
      BY <2>2 DEF Enqueue
    <3>2. \A j \in Keys : \A d \in q_coalescing'[j] : TimerDue(d)'
      <4>1. \A j \in Keys : \A d \in q_coalescing[j] : TimerDue(d)'
        BY <1>2 DEF DueInv, QueueDue, TimerDue
      <4> QED
        BY <1>4, <1>7, <3>1, <4>1
    <3> QED
      BY <1>2, <3>1, <3>2 DEF QueueDue, DueInv, PostsInTime, SentDue, PostDue
  <2> QED
    BY <2>1, <2>2
<1> QED
  BY <1>1, <1>2, <1>5, <1>9 DEF DueInv

\* A send that leaves the timers alone or takes away one that is due.
LEMMA DueSendQueue ==
  ASSUME SafeInv, DueInv, SendCoalesced(q_coalescing),
         UNCHANGED <<wedged, asked, waited>>, timers' \subseteq timers,
         JobCallbacks' \subseteq JobCallbacks
  PROVE  DueInv'
<1>1. q_coalescing \in [Keys -> SUBSET Callbacks]
  BY DEF SafeInv, TypeOK
<1>2. Cardinality(QueuedIn(q_coalescing)) <= MaxCoalesce
  BY <1>1, QueuedFinite, CoalCacheAssumption DEF SafeInv, BatchLimit
<1>3. \A k \in Keys : \A c \in q_coalescing[k] :
        waited[c] <= 2 * Slack + CoalesceTime
  BY QueueWaited DEF SafeInv
<1>4. PostsInTime' /\ QueueDue' /\ SentDue'
  BY <1>1, <1>2, <1>3, DueSend
<1> QED
  BY <1>4 DEF DueInv, TimersInTime

LEMMA DueTick ==
  ASSUME SafeInv, DueInv, Tick
  PROVE  DueInv'
<1> USE CoalCacheAssumption
<1> DEFINE later(x) == [x EXCEPT !.left = @ - 1]
<1>1. /\ timers' = {later(t) : t \in timers} /\ posts' = {later(p) : p \in posts}
      /\ UNCHANGED <<jobs, q_coalescing, q_sent, q_num, wedged, asked>>
  BY DEF Tick
<1>2. \A t \in timers : /\ t.left \in Int /\ later(t).left = t.left - 1
                        /\ later(t).q_num = t.q_num /\ t.left > -Slack
  BY DEF Tick, SafeInv, TypeOK, Timer
<1>3. \A p \in posts : /\ p.left \in Int /\ later(p).left = p.left - 1
                       /\ later(p).keys = p.keys /\ p.left > -Slack
  BY DEF Tick, SafeInv, TypeOK, Post
<1>4. \A c \in Callbacks : /\ waited[c] \in Nat /\ waited'[c] \in Nat
                           /\ waited'[c] <= waited[c] + 1
                           /\ c \notin asked => waited'[c] = waited[c]
  BY DEF Tick, SafeInv, TypeOK, Pending
<1> HIDE DEF later
<1>5. TimersInTime' /\ PostsInTime'
  <2>1. \A t \in timers : -Slack <= later(t).left /\ later(t).left <= CoalesceTime
    BY <1>2 DEF DueInv, TimersInTime
  <2>2. \A p \in posts : -Slack <= later(p).left /\ later(p).left <= UpstreamTimeout
    BY <1>3 DEF DueInv, PostsInTime
  <2> QED
    BY <1>1, <2>1, <2>2 DEF TimersInTime, PostsInTime
<1>6. ASSUME NEW k \in Keys, NEW c \in q_coalescing[k]
      PROVE  TimerDue(c)'
  <2>1. PICK t \in timers : t.q_num = q_num
                            /\ waited[c] + t.left <= Slack + CoalesceTime
    BY <1>6 DEF DueInv, QueueDue, TimerDue
  <2>2. c \in Callbacks
    BY <1>6 DEF SafeInv, TypeOK
  <2>3. waited'[c] + later(t).left <= Slack + CoalesceTime
    BY <1>2, <1>4, <2>1, <2>2
  <2> QED
    BY <1>1, <1>2, <2>1, <2>3 DEF TimerDue
<1>7. ASSUME NEW k \in Keys \ wedged, NEW c \in q_sent[k]
      PROVE  PostDue(c, k)'
  <2>1. PICK p \in posts :
          /\ k \in p.keys
          /\ waited[c] + p.left <= 2 * Slack + CoalesceTime + UpstreamTimeout
    BY <1>7 DEF DueInv, SentDue, PostDue
  <2>2. c \in Callbacks
    BY <1>7 DEF SafeInv, TypeOK
  <2>3. waited'[c] + later(p).left <= 2 * Slack + CoalesceTime + UpstreamTimeout
    BY <1>3, <1>4, <2>1, <2>2
  <2> QED
    BY <1>1, <1>3, <2>1, <2>3 DEF PostDue
<1>8. QueueDue' /\ SentDue'
  BY <1>1, <1>6, <1>7 DEF QueueDue, SentDue
<1>9. JobCallbacks' = JobCallbacks /\ \A c \in JobCallbacks : waited'[c] <= Slack
  <2>1. \A c \in JobCallbacks : c \in Callbacks /\ waited[c] < Slack
    BY DEF Tick, JobCallbacks
  <2> QED
    BY <1>1, <1>4, <2>1 DEF JobCallbacks
<1> QED
  BY <1>1, <1>4, <1>5, <1>8, <1>9 DEF DueInv

LEMMA DueStep ==
  MaxCoalesce > 0 /\ SafeInv /\ DueInv /\ [Next]_vars => DueInv'
<1> SUFFICES ASSUME MaxCoalesce > 0, SafeInv, DueInv, [Next]_vars PROVE DueInv'
  OBVIOUS
<1>a. TypeOK /\ JobsDistinct /\ ~draining
  BY DEF SafeInv, HeldInv, BatchLimit
<1>b. \A c \in Callbacks \ asked : waited[c] = 0 /\ c \notin JobCallbacks
  BY DEF DueInv, SafeInv, HeldInv, Pending
<1>1. ASSUME NEW c \in Callbacks, NEW k \in Keys, LookupHit(c, k)
      PROVE  DueInv'
  BY <1>1, DueFrame DEF LookupHit, queues, JobCallbacks
<1>2. ASSUME NEW c \in Callbacks, NEW k \in Keys, LookupMiss(c, k)
      PROVE  DueInv'
  <2>1. c \notin JobCallbacks /\ waited[c] <= Slack
    BY <1>2, <1>b, CoalCacheAssumption DEF LookupMiss
  <2>2. JobCallbacks' = JobCallbacks \cup {c}
    BY <1>2, <1>a, <2>1, AppendLookup DEF LookupMiss
  <2> QED
    BY <1>2, <2>1, <2>2, DueFrame DEF LookupMiss, queues
<1>3. ASSUME CallSendCoalesced
      PROVE  DueInv'
  <2>1. JobCallbacks' = JobCallbacks
    BY <1>3, <1>a, AppendSend DEF CallSendCoalesced
  <2> QED
    BY <1>3, <2>1, DueFrame DEF CallSendCoalesced, queues, history
<1>4. ASSUME NEW c \in Callbacks, NEW k \in Keys, JoinSent(c, k) \/ Enqueue(c, k)
      PROVE  DueInv'
  BY <1>4, DueJoin, DueEnqueue
<1>5. ASSUME RunSendJob
      PROVE  DueInv'
  <2>1. JobCallbacks' = JobCallbacks
    BY <1>5, <1>a, TakeJob DEF RunSendJob, SendJob
  <2>2. SendCoalesced(q_coalescing) /\ UNCHANGED <<q_num, timers, wedged, asked, waited>>
    BY <1>5 DEF RunSendJob, history
  <2> QED
    BY <2>1, <2>2, DueSendQueue
<1>6. ASSUME NEW t \in timers, FireTimer(t)
      PROVE  DueInv'
  <2>1. /\ JobCallbacks' = JobCallbacks /\ timers' = timers \ {t}
        /\ UNCHANGED <<q_num, wedged, asked, waited>>
    BY <1>6 DEF FireTimer, JobCallbacks, history
  <2>2. CASE t.q_num = q_num
    BY <1>6, <2>1, <2>2, DueSendQueue DEF FireTimer
  <2>3. CASE t.q_num # q_num
    <3>1. UNCHANGED <<q_coalescing, q_sent, posts>>
      BY <1>6, <2>3 DEF FireTimer
    <3>2. QueueDue'
      BY <2>1, <2>3, <3>1 DEF DueInv, QueueDue, TimerDue
    <3> QED
      BY <2>1, <3>1, <3>2
      DEF DueInv, TimersInTime, PostsInTime, SentDue, PostDue
  <2> QED
    BY <2>2, <2>3
<1>7. ASSUME CleanCache \/ UNCHANGED vars
      PROVE  DueInv'
  <2>1. UNCHANGED <<jobs, queues, asked, waited, wedged>>
    BY <1>7 DEF CleanCache, vars, history
  <2> QED
    BY <2>1, DueFrame DEF queues, JobCallbacks
<1>8. ASSUME NEW p \in posts, LoopReply(p)
      PROVE  DueInv'
  <2>1. /\ posts' = posts \ {p} /\ wedged \subseteq wedged'
        /\ UNCHANGED <<jobs, q_coalescing, q_num, timers, asked, waited>>
    BY <1>8 DEF LoopReply, ReplyValues, ReplyFailure, ReplyThrows
  <2>2. CASE ReplyThrows(p)
    <3>1. q_sent' = q_sent /\ wedged' = wedged \cup p.keys
      BY <2>2 DEF ReplyThrows
    <3> QED
      BY <2>1, <3>1, DueReply
  <2>3. CASE q_sent' = EraseKeys(q_sent, p.keys)
    <3>1. /\ \A k \in Keys : q_sent'[k] \subseteq q_sent[k]
          /\ \A k \in p.keys : q_sent'[k] = {}
      BY <1>a, <2>3 DEF EraseKeys, TypeOK, Post
    <3> QED
      BY <2>1, <3>1, DueReply
  <2> QED
    BY <1>8, <2>2, <2>3 DEF LoopReply, ReplyValues, ReplyFailure, Deliver
<1>9. ASSUME Tick
      PROVE  DueInv'
  BY <1>9, DueTick
<1> QED
  BY <1>1, <1>2, <1>3, <1>4, <1>5, <1>6, <1>7, <1>8, <1>9
  DEF Next, LoopJob, LoopTimer

LEMMA DueInTime == SafeInv /\ DueInv => AnsweredInTime
<1> SUFFICES ASSUME SafeInv, DueInv, NEW c \in Pending
             PROVE  waited[c] <= Deadline \/ \E k \in wedged : c \in q_sent[k]
  BY DEF AnsweredInTime
<1> USE CoalCacheAssumption
<1>1. c \in Callbacks /\ waited[c] \in Nat
  BY DEF SafeInv, TypeOK, Pending
<1>2. CASE c \in JobCallbacks
  BY <1>1, <1>2 DEF DueInv, Deadline
<1>3. ASSUME NEW k \in Keys, c \in q_coalescing[k]
      PROVE  waited[c] <= Deadline
  <2>1. waited[c] <= 2 * Slack + CoalesceTime
    BY <1>3, QueueWaited DEF SafeInv
  <2> QED
    BY <1>1, <2>1 DEF Deadline
<1>4. ASSUME NEW k \in Keys \ wedged, c \in q_sent[k]
      PROVE  waited[c] <= Deadline
  <2>1. PICK p \in posts :
          waited[c] + p.left <= 2 * Slack + CoalesceTime + UpstreamTimeout
    BY <1>4 DEF DueInv, SentDue, PostDue
  <2>2. p.left \in Int /\ -Slack <= p.left
    BY DEF SafeInv, TypeOK, Post, DueInv, PostsInTime
  <2> QED
    BY <1>1, <2>1, <2>2 DEF Deadline
<1> QED
  BY <1>1, <1>2, <1>3, <1>4 DEF SafeInv, HeldInv, Holds

LEMMA SafeInit == MaxCoalesce > 0 /\ Init => SafeInv
  BY TypeInit, KeysInit, LimitInit, HeldInit DEF SafeInv

LEMMA SafeStep == MaxCoalesce > 0 /\ SafeInv /\ [Next]_vars => SafeInv'
  BY TypeStep, KeysStep, LimitStep, HeldStep DEF SafeInv

\* AnsweredInTime (nobody waits longer than the coalescing time, the upstream
\* timeout and the lateness of the loop thread) for every positive limit, every
\* mix of replies and with calls of send_coalesced() by hand.
THEOREM AnsweredWithinDeadline == MaxCoalesce > 0 => (Spec => []AnsweredInTime)
<1> SUFFICES ASSUME MaxCoalesce > 0 PROVE Spec => []AnsweredInTime
  OBVIOUS
<1>1. Init => SafeInv /\ DueInv
  BY SafeInit, DueInit
<1>2. SafeInv /\ DueInv /\ [Next]_vars => SafeInv' /\ DueInv'
  BY SafeStep, DueStep
<1> QED
  BY <1>1, <1>2, DueInTime, PTL DEF Spec

-----------------------------------------------------------------------------
(* The service.  Every step of CoalCache is a step of LookupService.         *)

\* Steps that ask nothing, answer nothing and take no time may only forsake.
LEMMA ServiceForsake ==
  ASSUME TypeOK, UNCHANGED <<asked, answer, waited>>, wedged \subseteq wedged',
         \A k \in wedged : q_sent[k] \subseteq q_sent'[k]
  PROVE  Service!Forsake
<1>1. Pending' = Pending /\ Service!Waiting = Pending
  BY DEF Pending, Service!Waiting
<1> QED
  BY <1>1 DEF Service!Forsake, Forsaken

\* send_coalesced() takes no callback away from q_sent.
LEMMA ServiceSend ==
  ASSUME SafeInv, NEW q \in [Keys -> SUBSET Callbacks], SendCoalesced(q),
         UNCHANGED history
  PROVE  Service!Forsake
<1>1. \A k \in Keys : q_sent[k] \subseteq q_sent'[k]
  BY DEF SendCoalesced, SafeInv, TypeOK
<1> QED
  BY <1>1, ServiceForsake DEF SafeInv, TypeOK, history

\* A response that is delivered answers only those who wait for its keys, and
\* they are not forsaken.
LEMMA ServiceAnswer ==
  ASSUME SafeInv, NEW p \in posts, NEW w \in [p.keys -> Answers \ {"none"}],
         Deliver(p.keys, w), UNCHANGED <<asked, waited, wedged>>
  PROVE  Service!Answer
<1>1. /\ TypeOK /\ HeldInv /\ p.keys \subseteq Keys
      /\ p.keys \cap wedged = {} /\ wedged \subseteq Keys
  BY DEF SafeInv, TypeOK, Post, OneRequestPerKey, InFlight
<1>2. \A c \in Callbacks :
        answer'[c] = IF \E k \in p.keys : c \in q_sent[k]
                     THEN w[CHOOSE k \in p.keys : c \in q_sent[k]] ELSE answer[c]
  BY DEF Deliver
<1>3. ASSUME NEW c \in Callbacks, \E k \in p.keys : c \in q_sent[k]
      PROVE  c \in Pending \ Forsaken /\ answer'[c] \in Answers \ {"none"}
  <2>1. PICK k \in p.keys : c \in q_sent[k]
    BY <1>3
  <2>2. c \in Pending
    BY <1>1, <2>1 DEF HeldInv, Holds
  <2>3. \A j \in Keys : c \in q_sent[j] => j = k
    BY <1>1, <2>1 DEF HeldInv, Exclusive
  <2>4. answer'[c] = w[k]
    BY <1>1, <1>2, <2>1, <2>3
  <2> QED
    BY <1>1, <2>1, <2>2, <2>3, <2>4 DEF Forsaken
<1>4. answer' \in [Callbacks -> (Answers \ {"none"}) \cup {"none"}]
  <2>1. \A c \in Callbacks : answer'[c] \in Answers
    BY <1>1, <1>2, <1>3 DEF TypeOK
  <2>2. answer' = [c \in Callbacks |-> answer'[c]]
    BY DEF Deliver
  <2> QED
    BY <2>1, <2>2
<1>5. \A c \in Callbacks : answer'[c] # answer[c] => c \in Pending \ Forsaken
  BY <1>2, <1>3
<1>6. Forsaken' = Forsaken
  <2>1. \A k \in wedged : q_sent'[k] = q_sent[k]
    BY <1>1 DEF Deliver, EraseKeys
  <2>2. \A c \in Forsaken : answer'[c] = answer[c]
    BY <1>2, <1>3, <1>1 DEF Forsaken, Pending, TypeOK
  <2>3. \A c \in Callbacks : answer'[c] = "none" => answer[c] = "none"
    BY <1>2, <1>3
  <2> QED
    BY <1>1, <2>1, <2>2, <2>3 DEF Forsaken, Pending, TypeOK
<1> QED
  BY <1>4, <1>5, <1>6 DEF Service!Answer, Service!Waiting, Pending

LEMMA ServiceTick ==
  ASSUME WaitCap > Deadline, SafeInv, AnsweredInTime', Tick
  PROVE  Service!Tick
<1> USE CoalCacheAssumption
<1>1. UNCHANGED <<asked, answer, q_sent, wedged>>
  BY DEF Tick
<1>2. Pending' = Pending /\ Forsaken' = Forsaken /\ Service!Waiting = Pending
  BY <1>1 DEF Pending, Forsaken, Service!Waiting
<1>3. waited' = [c \in Callbacks |-> IF c \in Pending /\ waited[c] < WaitCap
                                     THEN waited[c] + 1 ELSE waited[c]]
  BY DEF Tick
<1>4. ASSUME NEW c \in Pending \ Forsaken
      PROVE  waited[c] < Deadline
  <2>1. c \in Callbacks /\ waited[c] \in Nat /\ Deadline \in Nat
    BY DEF SafeInv, TypeOK, Pending, Deadline
  <2>2. waited'[c] <= Deadline
    BY <1>1, <1>2 DEF AnsweredInTime, Forsaken
  <2>3. waited'[c] = IF waited[c] < WaitCap THEN waited[c] + 1 ELSE waited[c]
    BY <1>3, <2>1
  <2> QED
    BY <2>1, <2>2, <2>3
<1> QED
  BY <1>1, <1>2, <1>3, <1>4 DEF Service!Tick

LEMMA ServiceInit == Init => Service!Init
  BY DEF Init, Service!Init, Forsaken, Pending

LEMMA ServiceStep ==
  ASSUME WaitCap > Deadline, SafeInv, AnsweredInTime', [Next]_vars
  PROVE  [Service!Next]_Service!vars
<1>1. ASSUME NEW c \in Callbacks, NEW k \in Keys, LookupHit(c, k)
      PROVE  Service!Ask(c)
  <2>1. /\ cache[k].conf_status \in Answers \ {"none"}
        /\ answer' = [answer EXCEPT ![c] = cache[k].conf_status]
        /\ c \notin asked /\ asked' = asked \cup {c}
        /\ UNCHANGED <<waited, wedged, q_sent>>
    BY <1>1 DEF LookupHit, SafeInv, TypeOK, Item, Statuses, Answers, queues
  <2>2. Pending' = Pending
    BY <2>1 DEF Pending, SafeInv, TypeOK
  <2> QED
    BY <2>1, <2>2 DEF Service!Ask, Forsaken
<1>2. ASSUME NEW c \in Callbacks, NEW k \in Keys, LookupMiss(c, k)
      PROVE  Service!Ask(c)
  <2>1. /\ c \notin asked /\ asked' = asked \cup {c}
        /\ UNCHANGED <<answer, waited, wedged, q_sent>>
    BY <1>2 DEF LookupMiss, queues
  <2>2. answer' = [answer EXCEPT ![c] = "none"]
    BY <2>1 DEF SafeInv, HeldInv, TypeOK
  <2>3. Pending' = Pending \cup {c} /\ \A j \in Keys : c \notin q_sent[j]
    BY <2>1 DEF Pending, SafeInv, HeldInv, Holds
  <2>4. Forsaken' = Forsaken
    BY <2>1, <2>3 DEF Forsaken, SafeInv, TypeOK
  <2> QED
    BY <2>1, <2>2, <2>4 DEF Service!Ask
<1>3. ASSUME NEW c \in Callbacks, NEW k \in Keys, JoinSent(c, k)
      PROVE  Service!Forsake
  <2>1. \A j \in wedged : q_sent[j] \subseteq q_sent'[j]
    BY <1>3 DEF JoinSent, SafeInv, TypeOK
  <2> QED
    BY <1>3, <2>1, ServiceForsake DEF JoinSent, history, SafeInv
<1>4. ASSUME NEW c \in Callbacks, NEW k \in Keys, Enqueue(c, k)
      PROVE  Service!Forsake
  <2> DEFINE q == [q_coalescing EXCEPT ![k] = @ \cup {c}]
  <2>1. q \in [Keys -> SUBSET Callbacks] /\ UNCHANGED history
    BY <1>4 DEF SafeInv, TypeOK, Enqueue
  <2>2. SendCoalesced(q) \/ UNCHANGED q_sent
    BY <1>4 DEF Enqueue
  <2> HIDE DEF q
  <2> QED
    BY <2>1, <2>2, ServiceSend, ServiceForsake DEF SafeInv, history
<1>5. ASSUME RunSendJob \/ \E t \in timers : FireTimer(t)
      PROVE  Service!Forsake
  <2>1. q_coalescing \in [Keys -> SUBSET Callbacks] /\ UNCHANGED history
    BY <1>5 DEF SafeInv, TypeOK, RunSendJob, FireTimer
  <2>2. SendCoalesced(q_coalescing) \/ UNCHANGED q_sent
    BY <1>5 DEF RunSendJob, FireTimer
  <2> QED
    BY <2>1, <2>2, ServiceSend, ServiceForsake DEF SafeInv, history
<1>6. ASSUME \/ CallSendCoalesced \/ CleanCache \/ UNCHANGED vars
             \/ \E p \in posts : ReplyThrows(p)
      PROVE  Service!Forsake
  <2>1. /\ UNCHANGED <<asked, answer, waited, q_sent>>
        /\ wedged \subseteq wedged'
    BY <1>6 DEF CallSendCoalesced, CleanCache, vars, ReplyThrows, queues, history
  <2> QED
    BY <2>1, ServiceForsake DEF SafeInv
<1>7. ASSUME NEW p \in posts, NEW v \in [p.keys -> Values], ReplyValues(p, v)
      PROVE  Service!Answer
  <2> DEFINE w == [k \in p.keys |-> Loaded(v[k])]
  <2>1. w \in [p.keys -> Answers \ {"none"}]
    BY DEF Loaded, Values, Statuses, Answers
  <2>2. Deliver(p.keys, w) /\ UNCHANGED <<asked, waited, wedged>>
    BY <1>7 DEF ReplyValues
  <2> HIDE DEF w
  <2> QED
    BY <2>1, <2>2, ServiceAnswer
<1>8. ASSUME NEW p \in posts, ReplyFailure(p)
      PROVE  Service!Answer
  <2>1. [k \in p.keys |-> "failed"] \in [p.keys -> Answers \ {"none"}]
    BY DEF Answers
  <2> QED
    BY <1>8, <2>1, ServiceAnswer DEF ReplyFailure
<1>9. Tick => Service!Tick
  BY ServiceTick
<1> QED
  BY <1>1, <1>2, <1>3, <1>4, <1>5, <1>6, <1>7, <1>8, <1>9
  DEF Next, LoopJob, LoopTimer, LoopReply, Service!Next

\* CoalCache implements LookupService: whatever the interleaving of lookups,
\* batches, timers and responses, each lookup sees one answer, in time.
THEOREM ImplementsService ==
  MaxCoalesce > 0 /\ WaitCap > Deadline => (Spec => ServicePromise)
<1> SUFFICES ASSUME MaxCoalesce > 0, WaitCap > Deadline
             PROVE  Spec => ServicePromise
  OBVIOUS
<1>1. Init => SafeInv /\ DueInv /\ Service!Init
  BY SafeInit, DueInit, ServiceInit
<1>2. SafeInv /\ DueInv /\ [Next]_vars => SafeInv' /\ DueInv'
  BY SafeStep, DueStep
<1>3. SafeInv /\ DueInv /\ SafeInv' /\ DueInv' /\ [Next]_vars
        => [Service!Next]_Service!vars
  <2>1. SafeInv' /\ DueInv' => AnsweredInTime'
    BY DueInTime, PTL
  <2> QED
    BY <2>1, ServiceStep
<1> QED
  BY <1>1, <1>2, <1>3, PTL DEF Spec, ServicePromise, Service!Spec
=============================================================================
