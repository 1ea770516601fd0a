---------------------------- MODULE ServerProofs ----------------------------
(***************************************************************************)
(* The server uses no response object that is not live, whatever the       *)
(* handler, for any requests, messages and chunks.  SigStatusesProofs and  *)
(* DispatchProofs prove that the handlers are such, and draw on it.        *)
(***************************************************************************)
EXTENDS Server, SequenceTheorems, TLAPS

-----------------------------------------------------------------------------
(* Type correctness *)

\* A body that has not ended has room for its last chunk.
RoomForLast == \A r \in Requests : r \notin handled => body[r] < MaxChunks

TypeInv == ServerTypeOK /\ RoomForLast

LEMMA TypeInitially == ServerInit => TypeInv
BY ServerAssumption DEF ServerInit, TypeInv, ServerTypeOK, RoomForLast

LEMMA TypeKept == TypeInv /\ [ServerNext]_server_vars => TypeInv'
<1> SUFFICES ASSUME TypeInv, [ServerNext]_server_vars PROVE TypeInv'
  OBVIOUS
<1> USE ServerAssumption DEF TypeInv, ServerTypeOK, RoomForLast
<1>1. ASSUME NEW r \in Requests, Accept(r) PROVE TypeInv'
  BY <1>1 DEF Accept
<1>2. ASSUME NEW r \in Requests, Chunk(r) PROVE TypeInv'
  BY <1>2 DEF Chunk, OnData
<1>3. ASSUME NEW r \in Requests, LastChunk(r) PROVE TypeInv'
  BY <1>3 DEF LastChunk, OnData
<1>4. ASSUME NEW r \in Requests, Abort(r) PROVE TypeInv'
  BY <1>4 DEF Abort
<1>5. ASSUME NEW r \in Requests, Respond(r) PROVE TypeInv'
  <2>1. PICK t \in Threads, m \in Messages : SendResponse(t, r, m)
    BY <1>5 DEF Respond
  <2>2. sent' \in [Requests -> Seq(Messages)]
    BY <2>1 DEF SendResponse
  <2>3. CASE t = "uws"
    BY <2>1, <2>2, <2>3 DEF SendResponse, Write
  <2>4. CASE t # "uws"
    <3>1. deferred' = Append(deferred, r)
      BY <2>1, <2>4 DEF SendResponse
    <3>2. deferred' \in Seq(Requests)
      BY <3>1, AppendProperties
    <3>3. UNCHANGED <<res, aborted, body, handled, misused>>
      BY <2>1, <2>4 DEF SendResponse
    <3>4. QED BY <2>2, <3>2, <3>3
  <2>5. QED BY <2>3, <2>4
<1>6. CASE RunDeferred
  <2>1. Head(deferred) \in Requests /\ Tail(deferred) \in Seq(Requests)
    BY <1>6 DEF RunDeferred
  <2>2. QED BY <1>6, <2>1 DEF RunDeferred, Write
<1>7. CASE UNCHANGED server_vars
  BY <1>7 DEF server_vars
<1>8. QED BY <1>1, <1>2, <1>3, <1>4, <1>5, <1>6, <1>7 DEF ServerNext

\* The server's variables have their types in every reachable state: no body has
\* more chunks than MaxChunks, and only requests are deferred.
THEOREM ServerTypeCorrect == ServerSpec => []ServerTypeOK
<1>1. TypeInv => ServerTypeOK
  BY DEF TypeInv
<1>2. QED BY <1>1, TypeInitially, TypeKept, PTL DEF ServerSpec

-----------------------------------------------------------------------------
(* The response object *)

\* _aborted is set for the objects that uWS has freed, and for no other.
AbortsKnown == \A r \in Requests : aborted[r] <=> res[r] = "freed"

\* A request that waits for its response has an object that has not ended.
WaitingNotEnded ==
  \A r \in handled : sent[r] = <<>> => res[r] \in {"live", "freed"}

\* So has one whose response is deferred.
DeferredNotEnded ==
  \A i \in 1..Len(deferred) : /\ sent[deferred[i]] # <<>>
                              /\ res[deferred[i]] \in {"live", "freed"}

\* No request has two deferred responses, of which one would be late.
DeferredOnce ==
  \A i, j \in 1..Len(deferred) : deferred[i] = deferred[j] => i = j

ResInv == /\ AbortsKnown /\ WaitingNotEnded /\ DeferredNotEnded /\ DeferredOnce
          /\ ResUsedWhileLive

LEMMA ResInitially == ServerInit => ResInv
BY DEF ServerInit, ResInv, AbortsKnown, WaitingNotEnded, DeferredNotEnded,
       DeferredOnce, ResUsedWhileLive

\* Writing to an object that has not ended uses it only if it is live, and ends
\* it then.
LEMMA WriteIsSafe ==
  ASSUME TypeInv, ResInv, NEW r \in Requests, res[r] \in {"live", "freed"}, Write(r)
  PROVE  /\ misused' = misused
         /\ res' = [res EXCEPT ![r] = IF @ = "live" THEN "ended" ELSE @]
<1>1. CASE Dropped(r)
  <2>1. res[r] = "freed" /\ UNCHANGED <<res, misused>>
    BY <1>1 DEF Write, Dropped, ResInv, AbortsKnown
  <2>2. QED BY <2>1 DEF TypeInv, ServerTypeOK
<1>2. CASE ~Dropped(r)
  <2>1. res[r] = "live"
    BY <1>2 DEF Dropped, ResInv, AbortsKnown
  <2>2. QED BY <1>2, <2>1 DEF Write
<1>3. QED BY <1>1, <1>2

LEMMA ResKept == TypeInv /\ ResInv /\ [ServerNext]_server_vars => ResInv'
<1> SUFFICES ASSUME TypeInv, ResInv, [ServerNext]_server_vars PROVE ResInv'
  OBVIOUS
<1> USE DEF TypeInv, ServerTypeOK
<1>1. ASSUME NEW r \in Requests, Accept(r) PROVE ResInv'
  BY <1>1 DEF Accept, ResInv, AbortsKnown, WaitingNotEnded, DeferredNotEnded,
              DeferredOnce, ResUsedWhileLive
<1>2. ASSUME NEW r \in Requests, OnData(r), handled' \subseteq handled \cup {r}
      PROVE ResInv'
  BY <1>2 DEF OnData, ResInv, AbortsKnown, WaitingNotEnded, DeferredNotEnded,
              DeferredOnce, ResUsedWhileLive
<1>3. ASSUME NEW r \in Requests, Abort(r) PROVE ResInv'
  BY <1>3 DEF Abort, ResInv, AbortsKnown, WaitingNotEnded, DeferredNotEnded,
              DeferredOnce, ResUsedWhileLive
<1>4. ASSUME NEW r \in Requests, Respond(r) PROVE ResInv'
  <2>1. PICK t \in Threads, m \in Messages : SendResponse(t, r, m)
    BY <1>4 DEF Respond
  <2>2. /\ r \in handled /\ sent[r] = <<>> /\ res[r] \in {"live", "freed"}
        /\ sent' = [sent EXCEPT ![r] = Append(@, m)]
        /\ UNCHANGED <<aborted, handled>>
    BY <1>4, <2>1 DEF Respond, SendResponse, ResInv, WaitingNotEnded
  <2>3. sent'[r] # <<>> /\ \A q \in Requests \ {r} : sent'[q] = sent[q]
    BY <2>2
  \* what was sent before is not r's
  <2>4. \A i \in 1..Len(deferred) : deferred[i] # r
    BY <2>2 DEF ResInv, DeferredNotEnded
  <2>5. CASE t = "uws"
    <3>1. Write(r) /\ UNCHANGED deferred
      BY <2>1, <2>5 DEF SendResponse
    <3>2. /\ misused' = misused
          /\ res' = [res EXCEPT ![r] = IF @ = "live" THEN "ended" ELSE @]
      BY <2>2, <3>1, WriteIsSafe
    <3>3. AbortsKnown' /\ WaitingNotEnded'
      BY <2>2, <2>3, <3>2 DEF ResInv, AbortsKnown, WaitingNotEnded
    <3>4. DeferredNotEnded' /\ DeferredOnce'
      BY <2>3, <2>4, <3>1, <3>2 DEF ResInv, DeferredNotEnded, DeferredOnce
    <3>5. QED BY <3>2, <3>3, <3>4 DEF ResInv, ResUsedWhileLive
  <2>6. CASE t # "uws"
    <3>1. deferred' = Append(deferred, r) /\ UNCHANGED <<res, misused>>
      BY <2>1, <2>6 DEF SendResponse
    <3>2. AbortsKnown' /\ WaitingNotEnded'
      BY <2>2, <2>3, <3>1 DEF ResInv, AbortsKnown, WaitingNotEnded
    <3> DEFINE n == Len(deferred)
    <3>3. /\ n \in Nat /\ Len(deferred') = n + 1 /\ deferred'[n + 1] = r
          /\ \A i \in 1..n : deferred'[i] = deferred[i] /\ deferred[i] \in Requests
      BY <3>1, AppendProperties, LenProperties
    <3>4. ASSUME NEW i \in 1..Len(deferred')
          PROVE  sent'[deferred'[i]] # <<>> /\ res'[deferred'[i]] \in {"live", "freed"}
      <4>1. CASE i = n + 1
        BY <2>2, <2>3, <3>1, <3>3, <4>1
      <4>2. CASE i # n + 1
        <5>1. i \in 1..n
          BY <3>3, <4>2
        <5>2. sent[deferred[i]] # <<>> /\ res[deferred[i]] \in {"live", "freed"}
          BY <5>1 DEF ResInv, DeferredNotEnded
        <5>3. deferred'[i] = deferred[i] /\ deferred[i] \in Requests \ {r}
          BY <2>4, <3>3, <5>1
        <5>4. QED BY <2>3, <3>1, <5>2, <5>3
      <4>3. QED BY <4>1, <4>2
    <3>5. DeferredNotEnded'
      BY <3>4 DEF DeferredNotEnded
    <3>6. DeferredOnce'
      <4>1. ASSUME NEW i \in 1..Len(deferred'), NEW j \in 1..Len(deferred'),
                   deferred'[i] = deferred'[j], i # n + 1
            PROVE  i = j
        <5>1. i \in 1..n /\ (j \in 1..n \/ j = n + 1)
          BY <3>3, <4>1
        <5>2. deferred[i] # r /\ deferred'[i] = deferred[i]
          BY <2>4, <3>3, <5>1
        <5>3. j \in 1..n /\ deferred'[j] = deferred[j]
          BY <3>3, <4>1, <5>1, <5>2
        <5>4. QED BY <4>1, <5>1, <5>2, <5>3 DEF ResInv, DeferredOnce
      <4>2. ASSUME NEW i \in 1..Len(deferred'), NEW j \in 1..Len(deferred'),
                   deferred'[i] = deferred'[j]
            PROVE  i = j
        BY <4>1, <4>2
      <4>3. QED BY <4>2 DEF DeferredOnce
    <3>7. QED BY <3>1, <3>2, <3>5, <3>6 DEF ResInv, ResUsedWhileLive
  <2>7. QED BY <2>5, <2>6
<1>5. CASE RunDeferred
  <2> DEFINE r == Head(deferred)
  <2>1. /\ r \in Requests /\ r = deferred[1] /\ Len(deferred) >= 1
        /\ Len(deferred') = Len(deferred) - 1
        /\ \A i \in 1..Len(deferred') : deferred'[i] = deferred[i + 1]
    BY <1>5, HeadTailProperties, LenProperties, EmptySeq DEF RunDeferred
  <2>2. res[r] \in {"live", "freed"}
    BY <2>1 DEF ResInv, DeferredNotEnded
  <2>3. Write(r) /\ UNCHANGED <<aborted, handled, sent>>
    BY <1>5 DEF RunDeferred
  <2>4. sent[r] # <<>>
    BY <2>1 DEF ResInv, DeferredNotEnded
  <2>5. /\ misused' = misused
        /\ res' = [res EXCEPT ![r] = IF @ = "live" THEN "ended" ELSE @]
    BY <2>1, <2>2, <2>3, WriteIsSafe
  <2>6. AbortsKnown' /\ WaitingNotEnded'
    BY <2>1, <2>3, <2>4, <2>5 DEF ResInv, AbortsKnown, WaitingNotEnded
  <2>7. \A i \in 1..Len(deferred') : /\ i + 1 \in 1..Len(deferred) /\ i + 1 # 1
                                     /\ 1 \in 1..Len(deferred)
                                     /\ deferred'[i] = deferred[i + 1]
                                     /\ deferred[i + 1] \in Requests
    <3> SUFFICES ASSUME NEW i \in 1..Len(deferred')
                 PROVE  /\ i + 1 \in 1..Len(deferred) /\ i + 1 # 1
                        /\ 1 \in 1..Len(deferred)
                        /\ deferred'[i] = deferred[i + 1]
                        /\ deferred[i + 1] \in Requests
      OBVIOUS
    <3>1. Len(deferred) \in Nat
      BY LenProperties
    <3>2. i + 1 \in 1..Len(deferred) /\ i + 1 # 1 /\ 1 \in 1..Len(deferred)
      BY <2>1, <3>1
    <3>3. deferred[i + 1] \in Requests
      BY <3>2, ElementOfSeq
    <3>4. QED BY <2>1, <3>2, <3>3
  \* the responses that stay are other requests'
  <2>8. ASSUME NEW i \in 1..Len(deferred')
        PROVE  sent'[deferred'[i]] # <<>> /\ res'[deferred'[i]] \in {"live", "freed"}
    <3>1. deferred[i + 1] # r
      BY <2>1, <2>7 DEF ResInv, DeferredOnce
    <3>2. sent[deferred[i + 1]] # <<>> /\ res[deferred[i + 1]] \in {"live", "freed"}
      BY <2>7 DEF ResInv, DeferredNotEnded
    <3>3. QED BY <2>3, <2>5, <2>7, <3>1, <3>2
  <2>9. DeferredOnce'
    <3> SUFFICES ASSUME NEW i \in 1..Len(deferred'), NEW j \in 1..Len(deferred'),
                        deferred'[i] = deferred'[j]
                 PROVE  i = j
      BY DEF DeferredOnce
    <3>1. i + 1 = j + 1
      BY <2>7 DEF ResInv, DeferredOnce
    <3>2. i \in Int /\ j \in Int
      OBVIOUS
    <3>3. QED BY <3>1, <3>2
  <2>10. DeferredNotEnded'
    BY <2>8 DEF DeferredNotEnded
  <2>11. QED BY <2>5, <2>6, <2>9, <2>10 DEF ResInv, ResUsedWhileLive
<1>6. CASE UNCHANGED server_vars
  BY <1>6 DEF server_vars, ResInv, AbortsKnown, WaitingNotEnded, DeferredNotEnded,
              DeferredOnce, ResUsedWhileLive
<1>7. QED
  BY <1>1, <1>2, <1>3, <1>4, <1>5, <1>6 DEF ServerNext, Chunk, LastChunk

\* However aborts, direct and deferred responses interleave, uWS's response
\* object is never used after it was freed or has ended.
THEOREM NeverUsedAfterFree == ServerSpec => []ResUsedWhileLive
<1>1. ResInv => ResUsedWhileLive
  BY DEF ResInv
<1>2. QED
  BY <1>1, TypeInitially, TypeKept, ResInitially, ResKept, PTL DEF ServerSpec
=============================================================================
