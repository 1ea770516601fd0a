-------------------------- MODULE SigStatusesProofs --------------------------
(***************************************************************************)
(* Theorems about SigStatuses, for any number of requests and signatures:  *)
(* one whole response each, no race on the values, and the rules of the    *)
(* server kept.                                                            *)
(***************************************************************************)
EXTENDS SigStatuses, ServerProofs, FiniteSetTheorems

USE DEF Threads

-----------------------------------------------------------------------------
(* The inductive invariant *)

\* The types; how low `remaining` gets is for CountInv to say.
BaseType ==
  /\ TypeInv
  /\ pc \in [Threads -> {"idle", "lookup", "check", "fail", "store", "count",
                         "claim", "build"}]
  /\ frame \in [Threads -> Frame]
  /\ \A t \in Threads : frame[t].i \in 0..NumKeys[frame[t].req]
  /\ queued \subseteq Callback
  /\ claimed \in [Requests -> BOOLEAN]
  /\ remaining \in [Requests -> Int]
  /\ values \in [Requests -> SUBSET Nat]
  /\ \A r \in Requests : values[r] \subseteq Index(r)
  /\ seen \in [Requests -> SUBSET Threads]

InCallback(t) == pc[t] \in {"check", "fail", "store", "count", "claim", "build"}

\* The lookup of signature i of r is still to come.
NotBegun(r, i) ==
  \/ r \notin handled
  \/ pc["uws"] # "idle" /\ frame["uws"].req = r /\ frame["uws"].i < i

\* What is queued or has a value has begun, and is one or the other.
QueuedApart ==
  \A r \in Requests : \A i \in Index(r) :
    /\ <<r, i>> \in queued \/ i \in values[r] => ~NotBegun(r, i)
    /\ <<r, i>> \in queued => i \notin values[r]

\* So has a callback that a thread runs, which is neither queued nor run twice.
RunApart ==
  \A t \in Threads : InCallback(t) =>
    /\ frame[t].i \in Index(frame[t].req)
    /\ ~NotBegun(frame[t].req, frame[t].i)
    /\ <<frame[t].req, frame[t].i>> \notin queued
    /\ \A u \in Threads \ {t} :
         InCallback(u) => frame[u].req # frame[t].req \/ frame[u].i # frame[t].i

Apart ==
  /\ pc["uws"] # "idle" => frame["uws"].req \in handled
  /\ QueuedApart /\ RunApart

\* The values that are stored are those of the callbacks past their store.
Stored ==
  \A t \in Threads :
    /\ pc[t] \in {"check", "fail", "store"} => frame[t].i \notin values[frame[t].req]
    /\ pc[t] = "count" => frame[t].i \in values[frame[t].req]

\* The values that have been stored and counted.
Uncounted(r) ==
  {i \in Index(r) : \E t \in Threads : pc[t] = "count" /\ frame[t].req = r /\ frame[t].i = i}
Counted(r) == values[r] \ Uncounted(r)

CountInv == \A r \in Requests : remaining[r] = NumKeys[r] - Cardinality(Counted(r))

\* One thread at most gets past the count of a request, and all values are there.
LastInv ==
  \A t \in Threads : pc[t] \in {"claim", "build"} =>
    /\ Counted(frame[t].req) = Index(frame[t].req)
    /\ \A u \in Threads \ {t} :
         pc[u] \in {"claim", "build"} => frame[u].req # frame[t].req

\* A response is sent by whoever claimed the request.
ClaimInv ==
  /\ \A r \in Requests : ~claimed[r] => sent[r] = <<>>
  /\ \A t \in Threads : pc[t] = "build" => claimed[frame[t].req] /\ sent[frame[t].req] = <<>>

SigInv == /\ BaseType /\ Apart /\ Stored /\ CountInv /\ LastInv /\ ClaimInv
          /\ OneWholeResponse

-----------------------------------------------------------------------------
(* Lemmas *)

\* A set of indices has no more of them than there are signatures, and is the
\* set of all if it has as many.
LEMMA IndexSubset ==
  ASSUME NEW r \in Requests, NEW C \in SUBSET Index(r)
  PROVE  /\ IsFiniteSet(C)
         /\ Cardinality(C) \in 0..NumKeys[r]
         /\ Cardinality(C) = NumKeys[r] => C = Index(r)
<1>1. NumKeys[r] \in Nat
  BY SigStatusesAssumption
<1>2. IsFiniteSet(Index(r)) /\ Cardinality(Index(r)) = NumKeys[r]
  BY <1>1, FS_Interval DEF Index
<1>3. /\ IsFiniteSet(C) /\ Cardinality(C) <= NumKeys[r]
      /\ Cardinality(C) = NumKeys[r] => C = Index(r)
  BY <1>2, FS_Subset
<1>4. QED
  BY <1>1, <1>3, FS_CardinalityType

LEMMA SigTypeInit == Init => BaseType
<1> SUFFICES ASSUME Init PROVE BaseType
  OBVIOUS
<1>1. /\ TypeInv
      /\ NumKeys \in [Requests -> Nat]
  BY TypeInitially, SigStatusesAssumption DEF Init
<1>2. /\ frame \in [Threads -> Frame]
      /\ \A t \in Threads : frame[t].i = 0 /\ NumKeys[frame[t].req] \in Nat
  <2>1. frame \in [Threads -> {[req |-> r, i |-> 0, null |-> FALSE] : r \in Requests}]
    BY DEF Init
  <2>2. ASSUME NEW t \in Threads
        PROVE  frame[t] \in Frame /\ frame[t].i = 0 /\ frame[t].req \in Requests
    <3>1. PICK r \in Requests : frame[t] = [req |-> r, i |-> 0, null |-> FALSE]
      BY <2>1
    <3>2. QED BY <3>1 DEF Frame
  <2>3. QED BY <1>1, <2>1, <2>2
<1>3. QED
  BY <1>1, <1>2 DEF Init, BaseType

LEMMA SigInit == Init => SigInv
<1> SUFFICES ASSUME Init PROVE SigInv
  OBVIOUS
<1>1. BaseType
  BY SigTypeInit
<1>2. \A r \in Requests : Counted(r) = {}
  BY DEF Init, Counted
<1>3. CountInv
  <2>1. Cardinality({}) = 0
    BY FS_EmptySet
  <2>2. \A r \in Requests : NumKeys[r] \in Nat /\ remaining[r] = NumKeys[r]
    BY SigStatusesAssumption DEF Init
  <2>3. ASSUME NEW r \in Requests
        PROVE  remaining[r] = NumKeys[r] - Cardinality(Counted(r))
    <3>1. Cardinality(Counted(r)) = 0
      BY <1>2, <2>1
    <3>2. QED BY <2>2, <3>1
  <2>4. QED BY <2>3 DEF CountInv
<1>4. Apart
  BY DEF Init, ServerInit, Apart, QueuedApart, RunApart, InCallback
<1>5. Stored /\ LastInv
  BY DEF Init, Stored, LastInv
<1>6. ClaimInv /\ OneWholeResponse
  BY DEF Init, ServerInit, ClaimInv, OneWholeResponse
<1>7. QED
  BY <1>1, <1>3, <1>4, <1>5, <1>6 DEF SigInv

-----------------------------------------------------------------------------
(* The steps of a callback.  `pc` and the shared object change, no more.  *)

\* t goes on in a callback, or is at its end.
Proceeds(t, label) ==
  /\ InCallback(t)
  /\ Goto(t, label)
  /\ label \in {"fail", "store", "count", "claim", "build"} \/ Return(t)
  /\ UNCHANGED <<frame, queued, handled>>

\* A callback that goes on, or is over, stays apart from the others.
LEMMA ApartCallback ==
  ASSUME BaseType, Apart, NEW t \in Threads, NEW label, Proceeds(t, label),
         values' = values \/ values' = [values EXCEPT ![frame[t].req] = @ \cup {frame[t].i}]
  PROVE  Apart'
<1>1. /\ \A u \in Threads : pc'[u] = IF u = t THEN label ELSE pc[u]
      /\ UNCHANGED <<frame, queued, handled>>
  BY DEF Proceeds, Goto, BaseType
<1>2. pc'["uws"] # "idle" <=> pc["uws"] # "idle"
  BY <1>1 DEF Proceeds, InCallback, Return, Goto, BaseType
<1>3. \A u \in Threads : InCallback(u)' => InCallback(u)
  BY <1>1 DEF Proceeds, InCallback
<1>4. \A r, i : NotBegun(r, i)' <=> NotBegun(r, i)
  BY <1>1, <1>2 DEF NotBegun
<1>5. ASSUME NEW r \in Requests, NEW i \in Index(r), i \in values'[r]
      PROVE  i \in values[r] \/ (r = frame[t].req /\ i = frame[t].i)
  BY <1>5 DEF BaseType
<1>6. QueuedApart'
  <2> SUFFICES ASSUME NEW r \in Requests, NEW i \in Index(r)
               PROVE  /\ <<r, i>> \in queued' \/ i \in values'[r] => ~NotBegun(r, i)'
                      /\ <<r, i>> \in queued' => i \notin values'[r]
    BY DEF QueuedApart
  <2>1. /\ <<r, i>> \in queued \/ i \in values[r] => ~NotBegun(r, i)
        /\ <<r, i>> \in queued => i \notin values[r]
    BY DEF Apart, QueuedApart
  <2>2. r = frame[t].req /\ i = frame[t].i => ~NotBegun(r, i) /\ <<r, i>> \notin queued
    BY DEF Apart, RunApart, Proceeds
  <2>3. QED BY <1>1, <1>4, <1>5, <2>1, <2>2
<1>7. RunApart'
  <2>1. \A u \in Threads : ~NotBegun(frame[u].req, frame[u].i)
                              => ~NotBegun(frame[u].req, frame[u].i)'
    BY <1>1, <1>2 DEF NotBegun
  <2>2. QED BY <1>1, <1>3, <2>1 DEF Apart, RunApart
<1>8. QED
  BY <1>1, <1>2, <1>6, <1>7 DEF Apart

\* A step to or from anywhere but "count" counts nothing.
LEMMA CountedUnchanged ==
  ASSUME BaseType, NEW t \in Threads, NEW label, Proceeds(t, label),
         pc[t] # "count", label # "count", UNCHANGED values
  PROVE  \A r : Counted(r)' = Counted(r)
<1>1. /\ \A u \in Threads : pc'[u] = IF u = t THEN label ELSE pc[u]
      /\ UNCHANGED <<frame, values>>
  BY DEF Proceeds, Goto, BaseType
<1>2. QED
  BY <1>1 DEF Counted, Uncounted

\* The types after a step in a callback.
LEMMA CallbackTypes ==
  ASSUME SigInv, NEW t \in Threads, NEW label, Proceeds(t, label),
         [ServerNext]_server_vars,
         claimed' \in [Requests -> BOOLEAN],
         remaining' \in [Requests -> Int],
         values' \in [Requests -> SUBSET Nat],
         \A r \in Requests : values'[r] \subseteq Index(r),
         seen' \in [Requests -> SUBSET Threads]
  PROVE  BaseType'
<1>1. TypeInv'
  BY TypeKept DEF SigInv, BaseType
<1>2. pc' \in [Threads -> {"idle", "lookup", "check", "fail", "store", "count",
                          "claim", "build"}]
  BY DEF SigInv, BaseType, Proceeds, Goto, Return
<1>3. QED
  BY <1>1, <1>2 DEF SigInv, BaseType, Proceeds

\* Two steps that change no value and count nothing, and that send nothing.
LEMMA QuietStep ==
  ASSUME SigInv, NEW t \in Threads, NEW label, Proceeds(t, label),
         pc[t] # "count", label \notin {"count", "claim", "build"},
         label \in {"fail", "store"} => pc[t] = "check",
         UNCHANGED <<server_vars, claimed, remaining, values>>,
         seen' \in [Requests -> SUBSET Threads]
  PROVE  SigInv'
<1>1. BaseType'
  BY CallbackTypes DEF SigInv, BaseType
<1>2. Apart'
  BY ApartCallback DEF SigInv
<1>3. /\ \A u \in Threads : frame'[u] = frame[u] /\ pc'[u] = IF u = t THEN label ELSE pc[u]
      /\ label \in {"fail", "store", "lookup", "idle"}
  BY DEF Proceeds, Goto, Return, SigInv, BaseType
<1>4. Stored'
  BY <1>3 DEF SigInv, Stored
<1>5. \A r : Counted(r)' = Counted(r)
  BY CountedUnchanged DEF SigInv
<1>6. CountInv'
  BY <1>5 DEF SigInv, CountInv
<1>7. LastInv'
  BY <1>3, <1>5 DEF SigInv, LastInv
<1>8. ClaimInv' /\ OneWholeResponse'
  BY <1>3 DEF SigInv, ClaimInv, OneWholeResponse, server_vars
<1>9. QED
  BY <1>1, <1>2, <1>4, <1>6, <1>7, <1>8 DEF SigInv

LEMMA CheckStep ==
  ASSUME SigInv, NEW t \in Threads, CheckSent(t)
  PROVE  SigInv'
<1>1. /\ pc[t] = "check" /\ InCallback(t)
      /\ UNCHANGED <<server_vars, frame, queued, handled, claimed, remaining, values>>
  BY DEF CheckSent, At, InCallback, server_vars
<1>2. PICK label \in {"fail", "store", "lookup", "idle"} :
        Goto(t, label) /\ (label \in {"fail", "store"} \/ Return(t))
  BY DEF CheckSent, Return
<1>3. seen' \in [Requests -> SUBSET Threads]
  BY DEF CheckSent, SigInv, BaseType
<1>4. Proceeds(t, label)
  BY <1>1, <1>2 DEF Proceeds
<1>5. QED
  BY <1>1, <1>2, <1>3, <1>4, QuietStep

\* The first response to a request that was handled is a step of the server.
LEMMA FirstResponse ==
  ASSUME BaseType, NEW r \in handled, sent[r] = <<>>,
         NEW t \in Threads, NEW m \in Messages, SendResponse(t, r, m)
  PROVE  /\ r \in Requests
         /\ Respond(r)
         /\ sent' = [sent EXCEPT ![r] = <<m>>]
         /\ UNCHANGED handled
<1>1. r \in Requests
  BY DEF BaseType, TypeInv, ServerTypeOK
<1>2. Respond(r)
  BY DEF Respond
<1>3. Append(<<>>, m) = <<m>>
  OBVIOUS
<1>4. QED
  BY <1>1, <1>2, <1>3 DEF SendResponse

\* A thread that is in a callback has a handled request.
LEMMA CallbackHandled ==
  ASSUME BaseType, Apart, NEW t \in Threads, InCallback(t)
  PROVE  /\ frame[t].req \in handled /\ frame[t].req \in Requests
         /\ frame[t].i \in Index(frame[t].req)
BY DEF BaseType, Frame, Apart, RunApart, NotBegun

LEMMA FailStep ==
  ASSUME SigInv, NEW t \in Threads, Fail(t)
  PROVE  SigInv' /\ [ServerNext]_server_vars
<1> DEFINE r == frame[t].req
           label == IF t = "uws" THEN "lookup" ELSE "idle"
<1>1. /\ pc[t] = "fail" /\ InCallback(t)
      /\ UNCHANGED <<frame, queued, remaining, values>>
      /\ Goto(t, label) /\ Return(t)
      /\ claimed' = [claimed EXCEPT ![r] = TRUE]
      /\ seen' = [seen EXCEPT ![r] = @ \cup {t}]
      /\ IF claimed[r] THEN UNCHANGED server_vars
         ELSE SendResponse(t, r, BadGateway)
  BY DEF Fail, At, InCallback, Return, Claim, ClaimWon
<1>2. r \in Requests /\ r \in handled
  BY <1>1, CallbackHandled DEF SigInv
<1>3. BadGateway \in Messages
  BY SigStatusesAssumption
<1>4. \/ claimed[r] /\ UNCHANGED server_vars
      \/ /\ ~claimed[r] /\ Respond(r) /\ UNCHANGED handled
         /\ sent[r] = <<>> /\ sent' = [sent EXCEPT ![r] = <<BadGateway>>]
  <2>1. ~claimed[r] => sent[r] = <<>>
    BY <1>2 DEF SigInv, ClaimInv
  <2>2. QED BY <1>1, <1>2, <1>3, <2>1, FirstResponse DEF SigInv
<1>5. [ServerNext]_server_vars
  BY <1>2, <1>4 DEF ServerNext
<1>6. Proceeds(t, label)
  BY <1>1, <1>4 DEF Proceeds, server_vars
<1> HIDE DEF label
<1>7. /\ label \in {"lookup", "idle"}
      /\ \A u \in Threads : frame'[u] = frame[u] /\ pc'[u] = IF u = t THEN label ELSE pc[u]
  BY <1>1 DEF Goto, SigInv, BaseType, label
<1>8. BaseType'
  BY <1>1, <1>2, <1>5, <1>6, CallbackTypes DEF SigInv, BaseType
<1>9. Apart'
  BY <1>1, <1>6, ApartCallback DEF SigInv
<1>10. Stored'
  BY <1>1, <1>7 DEF SigInv, Stored
<1>11. \A q : Counted(q)' = Counted(q)
  BY <1>1, <1>6, <1>7, CountedUnchanged DEF SigInv
<1>12. CountInv' /\ LastInv'
  BY <1>1, <1>7, <1>11 DEF SigInv, CountInv, LastInv
<1>13. \A q \in Requests : claimed'[q] <=> claimed[q] \/ q = r
  BY <1>1, <1>2 DEF SigInv, BaseType
<1>14. ClaimInv'
  <2>1. CASE UNCHANGED sent
    BY <1>7, <1>13, <2>1, CallbackHandled DEF SigInv, ClaimInv, InCallback
  <2>2. CASE ~claimed[r] /\ sent' = [sent EXCEPT ![r] = <<BadGateway>>]
    <3>1. \A q \in Requests : q # r => sent'[q] = sent[q]
      BY <2>2 DEF SigInv, BaseType, TypeInv, ServerTypeOK
    <3>2. \A u \in Threads : pc'[u] = "build" =>
            frame[u].req # r /\ frame[u].req \in Requests
      BY <1>7, <2>2, CallbackHandled DEF SigInv, ClaimInv, InCallback
    <3>3. QED BY <1>7, <1>13, <3>1, <3>2 DEF SigInv, ClaimInv
  <2>3. QED BY <1>4, <2>1, <2>2 DEF server_vars
<1>15. OneWholeResponse'
  <2>1. CASE UNCHANGED sent
    BY <2>1 DEF SigInv, OneWholeResponse
  <2>2. CASE sent' = [sent EXCEPT ![r] = <<BadGateway>>]
    BY <1>2, <2>2 DEF SigInv, OneWholeResponse, BaseType, TypeInv, ServerTypeOK
  <2>3. QED BY <1>4, <2>1, <2>2 DEF server_vars
<1>16. QED
  BY <1>5, <1>8, <1>9, <1>10, <1>12, <1>14, <1>15 DEF SigInv

LEMMA StoreStep ==
  ASSUME SigInv, NEW t \in Threads, Store(t)
  PROVE  SigInv'
<1> DEFINE r == frame[t].req
           i == frame[t].i
<1>1. /\ pc[t] = "store" /\ InCallback(t)
      /\ UNCHANGED <<server_vars, frame, queued, claimed, remaining, seen>>
      /\ Goto(t, "count")
      /\ values' = [values EXCEPT ![r] = @ \cup {i}]
  BY DEF Store, At, InCallback
<1>2. r \in Requests /\ i \in Index(r) /\ i \notin values[r]
  BY <1>1, CallbackHandled DEF SigInv, Stored
<1>3. Proceeds(t, "count")
  BY <1>1 DEF Proceeds, server_vars
<1>4. BaseType'
  <2>1. values' \in [Requests -> SUBSET Nat] /\ \A q \in Requests : values'[q] \subseteq Index(q)
    BY <1>1, <1>2 DEF SigInv, BaseType
  <2>2. QED BY <1>1, <1>3, <2>1, CallbackTypes DEF SigInv, BaseType
<1>5. Apart'
  BY <1>1, <1>3, ApartCallback DEF SigInv
<1>6. /\ \A u \in Threads : frame'[u] = frame[u] /\ pc'[u] = IF u = t THEN "count" ELSE pc[u]
      /\ \A q \in Requests : values'[q] = IF q = r THEN values[r] \cup {i} ELSE values[q]
  BY <1>1 DEF Goto, SigInv, BaseType
\* the other thread's callback is another one
<1>7. \A u \in Threads \ {t} : InCallback(u) => frame[u].req # r \/ frame[u].i # i
  BY <1>1 DEF SigInv, Apart, RunApart
<1>8. Stored'
  <2>1. \A u \in Threads : frame[u].req \in Requests
    BY DEF SigInv, BaseType, Frame
  <2>2. QED BY <1>2, <1>6, <1>7, <2>1 DEF SigInv, Stored, InCallback
<1>9. \A q \in Requests : Counted(q)' = Counted(q)
  <2> SUFFICES ASSUME NEW q \in Requests PROVE Counted(q)' = Counted(q)
    OBVIOUS
  <2>1. Uncounted(q)' = IF q = r THEN Uncounted(r) \cup {i} ELSE Uncounted(q)
    BY <1>1, <1>2, <1>6 DEF Uncounted
  <2>2. QED BY <1>2, <1>6, <2>1 DEF Counted
<1>10. CountInv'
  BY <1>1, <1>9 DEF SigInv, CountInv
<1>11. LastInv'
  <2>1. \A u \in Threads : frame[u].req \in Requests
    BY DEF SigInv, BaseType, Frame
  <2>2. QED BY <1>6, <1>9, <2>1 DEF SigInv, LastInv
<1>12. ClaimInv' /\ OneWholeResponse'
  BY <1>1, <1>6 DEF SigInv, ClaimInv, OneWholeResponse, server_vars
<1>13. QED
  BY <1>4, <1>5, <1>8, <1>10, <1>11, <1>12 DEF SigInv

LEMMA CountStep ==
  ASSUME SigInv, NEW t \in Threads, CountDown(t)
  PROVE  SigInv'
<1> DEFINE r == frame[t].req
           i == frame[t].i
<1>1. /\ pc[t] = "count" /\ InCallback(t)
      /\ UNCHANGED <<server_vars, frame, queued, claimed, values, seen>>
      /\ remaining' = [remaining EXCEPT ![r] = @ - 1]
  BY DEF CountDown, At, InCallback
<1>2. PICK label \in {"claim", "lookup", "idle"} :
        /\ Goto(t, label)
        /\ label = "claim" => remaining[r] <= 1
        /\ label # "claim" => Return(t)
  BY DEF CountDown, LastOne, Return, Goto
<1>3. r \in Requests /\ i \in Index(r) /\ i \in values[r]
  BY <1>1, CallbackHandled DEF SigInv, Stored
<1>4. Proceeds(t, label)
  BY <1>1, <1>2 DEF Proceeds, server_vars
<1>5. BaseType'
  BY <1>1, <1>3, <1>4, CallbackTypes DEF SigInv, BaseType
<1>6. Apart'
  BY <1>1, <1>4, ApartCallback DEF SigInv
<1>7. \A u \in Threads : frame'[u] = frame[u] /\ pc'[u] = IF u = t THEN label ELSE pc[u]
  BY <1>1, <1>2 DEF Goto, SigInv, BaseType
<1>8. Stored'
  BY <1>1, <1>2, <1>7 DEF SigInv, Stored
\* i is counted now, and was not before
<1>9. i \notin Counted(r) /\ Counted(r)' = Counted(r) \cup {i}
  <2>1. i \in Uncounted(r)
    BY <1>1, <1>3 DEF Uncounted
  <2>2. \A u \in Threads \ {t} : pc[u] = "count" => frame[u].req # r \/ frame[u].i # i
    BY <1>1 DEF SigInv, Apart, RunApart, InCallback
  <2>3. Uncounted(r)' = Uncounted(r) \ {i}
    BY <1>2, <1>7, <2>2 DEF Uncounted
  <2>4. QED BY <1>1, <1>3, <2>1, <2>3 DEF Counted
<1>10. \A q \in Requests \ {r} : Counted(q)' = Counted(q)
  <2> SUFFICES ASSUME NEW q \in Requests \ {r} PROVE Counted(q)' = Counted(q)
    OBVIOUS
  <2>1. Uncounted(q)' = Uncounted(q)
    BY <1>1, <1>2, <1>7 DEF Uncounted
  <2>2. QED BY <1>1, <2>1 DEF Counted
<1>11. /\ Counted(r) \in SUBSET Index(r) /\ Counted(r)' \in SUBSET Index(r)
       /\ IsFiniteSet(Counted(r))
       /\ Cardinality(Counted(r)) \in 0..NumKeys[r]
       /\ Cardinality(Counted(r)') = Cardinality(Counted(r)) + 1
  <2>1. Counted(r) \in SUBSET Index(r)
    BY <1>3 DEF Counted, SigInv, BaseType
  <2>2. Counted(r)' \in SUBSET Index(r)
    BY <1>3, <1>9, <2>1
  <2>3. QED BY <1>3, <1>9, <2>1, <2>2, IndexSubset, FS_AddElement
<1>12. remaining[r] = NumKeys[r] - Cardinality(Counted(r))
  BY <1>3 DEF SigInv, CountInv
<1>13. CountInv'
  <2>1. remaining'[r] = NumKeys[r] - Cardinality(Counted(r)')
    <3>1. remaining'[r] = remaining[r] - 1
      BY <1>1, <1>3 DEF SigInv, BaseType
    <3>2. NumKeys[r] \in Nat
      BY <1>3, SigStatusesAssumption
    <3>3. QED BY <1>11, <1>12, <3>1, <3>2
  <2>2. ASSUME NEW q \in Requests
        PROVE  remaining'[q] = NumKeys[q] - Cardinality(Counted(q)')
    <3>1. CASE q = r
      <4>1. Counted(q)' = Counted(r)'
        BY <1>1, <3>1 DEF Counted, Uncounted
      <4>2. QED BY <2>1, <3>1, <4>1
    <3>2. CASE q # r
      <4>1. Counted(q)' = Counted(q) /\ remaining'[q] = remaining[q]
        BY <1>1, <1>10, <3>2 DEF SigInv, BaseType
      <4>2. remaining[q] = NumKeys[q] - Cardinality(Counted(q))
        BY DEF SigInv, CountInv
      <4>3. QED BY <4>1, <4>2
    <3>3. QED BY <3>1, <3>2
  <2>3. QED BY <2>2 DEF CountInv
\* r is not past the count yet, as i was not counted
<1>14. \A u \in Threads : pc[u] \in {"claim", "build"} =>
          frame[u].req # r /\ frame[u].req \in Requests
  <2>1. Counted(r) # Index(r)
    BY <1>3, <1>9
  <2>2. QED BY <2>1, CallbackHandled DEF SigInv, LastInv, InCallback
<1>15. label = "claim" => Counted(r)' = Index(r)
  <2>1. label = "claim" => Cardinality(Counted(r)') = NumKeys[r]
    <3> DEFINE n == Cardinality(Counted(r))
               m == Cardinality(Counted(r)')
    <3>1. m \in 0..NumKeys[r]
      BY <1>3, <1>11, IndexSubset
    <3>2. n \in 0..NumKeys[r] /\ m = n + 1 /\ remaining[r] = NumKeys[r] - n /\ NumKeys[r] \in Nat
      BY <1>3, <1>11, <1>12, SigStatusesAssumption
    <3> HIDE DEF n, m
    <3>3. label = "claim" => m = NumKeys[r]
      BY <1>2, <3>1, <3>2
    <3>4. QED BY <3>3 DEF m
  <2>2. QED BY <1>3, <1>11, <2>1, IndexSubset
<1>16. LastInv'
  BY <1>2, <1>7, <1>10, <1>14, <1>15 DEF SigInv, LastInv
<1>17. ClaimInv' /\ OneWholeResponse'
  BY <1>1, <1>2, <1>7 DEF SigInv, ClaimInv, OneWholeResponse, server_vars
<1>18. QED
  BY <1>5, <1>6, <1>8, <1>13, <1>16, <1>17 DEF SigInv

LEMMA ClaimStep ==
  ASSUME SigInv, NEW t \in Threads, ClaimOk(t)
  PROVE  SigInv'
<1> DEFINE r == frame[t].req
<1>1. /\ pc[t] = "claim" /\ InCallback(t)
      /\ UNCHANGED <<server_vars, frame, queued, remaining, values>>
      /\ claimed' = [claimed EXCEPT ![r] = TRUE]
      /\ seen' = [seen EXCEPT ![r] = @ \cup {t}]
  BY DEF ClaimOk, At, InCallback, Claim
<1>2. PICK label \in {"build", "lookup", "idle"} :
        /\ Goto(t, label)
        /\ label = "build" => ~claimed[r]
        /\ label # "build" => Return(t)
  BY DEF ClaimOk, ClaimWon, Return, Goto
<1>3. r \in Requests
  BY <1>1, CallbackHandled DEF SigInv
<1>4. Proceeds(t, label)
  BY <1>1, <1>2 DEF Proceeds, server_vars
<1>5. BaseType'
  BY <1>1, <1>3, <1>4, CallbackTypes DEF SigInv, BaseType
<1>6. Apart'
  BY <1>1, <1>4, ApartCallback DEF SigInv
<1>7. \A u \in Threads : frame'[u] = frame[u] /\ pc'[u] = IF u = t THEN label ELSE pc[u]
  BY <1>1, <1>2 DEF Goto, SigInv, BaseType
<1>8. Stored'
  BY <1>1, <1>2, <1>7 DEF SigInv, Stored
<1>9. \A q : Counted(q)' = Counted(q)
  BY <1>1, <1>2, <1>4, CountedUnchanged DEF SigInv
<1>10. CountInv' /\ LastInv'
  BY <1>1, <1>2, <1>7, <1>9 DEF SigInv, CountInv, LastInv
<1>11. ClaimInv'
  <2>1. \A q \in Requests : claimed'[q] <=> claimed[q] \/ q = r
    BY <1>1, <1>3 DEF SigInv, BaseType
  <2>2. label = "build" => sent[r] = <<>>
    BY <1>2, <1>3 DEF SigInv, ClaimInv
  <2>3. QED
    BY <1>1, <1>2, <1>3, <1>7, <2>1, <2>2, CallbackHandled
    DEF SigInv, ClaimInv, InCallback, server_vars
<1>12. OneWholeResponse'
  BY <1>1 DEF SigInv, OneWholeResponse, server_vars
<1>13. QED
  BY <1>5, <1>6, <1>8, <1>10, <1>11, <1>12 DEF SigInv

LEMMA BuildStep ==
  ASSUME SigInv, NEW t \in Threads, Build(t)
  PROVE  SigInv' /\ [ServerNext]_server_vars
<1> DEFINE r == frame[t].req
           m == OkResponse(values[r])
           label == IF t = "uws" THEN "lookup" ELSE "idle"
<1>1. /\ pc[t] = "build" /\ InCallback(t)
      /\ UNCHANGED <<frame, queued, collected>>
      /\ Goto(t, label) /\ Return(t)
      /\ SendResponse(t, r, m)
  BY DEF Build, At, InCallback, Return
<1>2. r \in Requests /\ r \in handled
  BY <1>1, CallbackHandled DEF SigInv
<1>3. values[r] = Index(r) /\ m = OkResponse(Index(r))
  <2>1. Counted(r) = Index(r)
    BY <1>1 DEF SigInv, LastInv
  <2>2. values[r] \in SUBSET Index(r)
    BY <1>2 DEF SigInv, BaseType
  <2>3. values[r] = Index(r)
    BY <2>1, <2>2 DEF Counted
  <2>4. QED BY <2>3
<1>4. m \in Messages
  <2>1. Index(r) \in SUBSET Index(r)
    OBVIOUS
  <2>2. QED BY <1>2, <1>3, <2>1, SigStatusesAssumption
<1>5. claimed[r] /\ sent[r] = <<>>
  BY <1>1 DEF SigInv, ClaimInv
<1>6. Respond(r) /\ UNCHANGED handled /\ sent' = [sent EXCEPT ![r] = <<m>>]
  <2> HIDE DEF m
  <2>1. QED BY <1>1, <1>2, <1>4, <1>5, FirstResponse DEF SigInv
<1>7. [ServerNext]_server_vars
  BY <1>2, <1>6 DEF ServerNext
<1>8. Proceeds(t, label)
  BY <1>1, <1>6 DEF Proceeds
<1> HIDE DEF label
<1>9. /\ label \in {"lookup", "idle"}
      /\ \A u \in Threads : frame'[u] = frame[u] /\ pc'[u] = IF u = t THEN label ELSE pc[u]
  BY <1>1 DEF Goto, SigInv, BaseType, label
<1>10. BaseType'
  BY <1>1, <1>7, <1>8, CallbackTypes DEF SigInv, BaseType, collected
<1>11. Apart'
  BY <1>1, <1>8, ApartCallback DEF SigInv, collected
<1>12. Stored'
  BY <1>1, <1>9 DEF SigInv, Stored, collected
<1>13. \A q : Counted(q)' = Counted(q)
  BY <1>1, <1>8, <1>9, CountedUnchanged DEF SigInv, collected
<1>14. CountInv' /\ LastInv'
  BY <1>1, <1>9, <1>13 DEF SigInv, CountInv, LastInv, collected
<1>15. \A q \in Requests : q # r => sent'[q] = sent[q]
  BY <1>6 DEF SigInv, BaseType, TypeInv, ServerTypeOK
<1>16. ClaimInv'
  <2>1. \A u \in Threads : pc'[u] = "build" => frame[u].req # r /\ frame[u].req \in Requests
    BY <1>1, <1>9, CallbackHandled DEF SigInv, LastInv, InCallback
  <2>2. QED BY <1>1, <1>5, <1>9, <1>15, <2>1 DEF SigInv, ClaimInv, collected
<1>17. OneWholeResponse'
  <2>1. sent'[r] = <<OkResponse(Index(r))>>
    BY <1>2, <1>3, <1>6 DEF SigInv, BaseType, TypeInv, ServerTypeOK
  <2>2. ASSUME NEW q \in Requests
        PROVE  /\ Len(sent'[q]) <= 1
               /\ \A i \in DOMAIN sent'[q] : sent'[q][i] \in {OkResponse(Index(q)), BadGateway}
    <3>1. CASE q = r
      <4> DEFINE o == OkResponse(Index(q))
      <4> HIDE DEF o
      <4>1. sent'[q] = <<o>>
        BY <2>1, <3>1 DEF o
      <4>2. Len(sent'[q]) = 1 /\ \A i \in DOMAIN sent'[q] : sent'[q][i] = o
        BY <4>1
      <4>3. QED BY <4>2 DEF o
    <3>2. CASE q # r
      BY <1>15, <3>2 DEF SigInv, OneWholeResponse
    <3>3. QED BY <3>1, <3>2
  <2>3. QED BY <2>2 DEF OneWholeResponse
<1>18. QED
  BY <1>7, <1>10, <1>11, <1>12, <1>14, <1>16, <1>17 DEF SigInv

-----------------------------------------------------------------------------
(* The steps between callbacks.  No value is stored, nothing is counted and  *)
(* nothing is sent.                                                          *)

LEMMA BetweenCallbacks ==
  ASSUME SigInv, NEW t \in Threads, ~InCallback(t),
         pc' \in [Threads -> {"idle", "lookup", "check"}
                             \cup {pc[u] : u \in Threads \ {t}}],
         \A u \in Threads \ {t} : pc'[u] = pc[u] /\ frame'[u] = frame[u],
         pc'[t] \in {"idle", "lookup", "check"},
         UNCHANGED <<collected, sent>>
  PROVE  /\ \A q : Counted(q)' = Counted(q)
         /\ CountInv' /\ LastInv' /\ ClaimInv' /\ OneWholeResponse'
<1>1. \A u \in Threads : pc'[u] \in {"count", "claim", "build"} =>
         u # t /\ pc'[u] = pc[u] /\ frame'[u] = frame[u]
  OBVIOUS
<1>2. \A u \in Threads : pc[u] \in {"count", "claim", "build"} =>
         u # t /\ pc'[u] = pc[u] /\ frame'[u] = frame[u]
  BY DEF InCallback
<1>3. \A q : Counted(q)' = Counted(q)
  <2> TAKE q
  <2>1. Uncounted(q)' = Uncounted(q)
    BY <1>1, <1>2 DEF Uncounted
  <2>2. QED BY <2>1 DEF Counted, collected
<1>4. CountInv'
  BY <1>3 DEF SigInv, CountInv, collected
<1>5. LastInv'
  BY <1>1, <1>3 DEF SigInv, LastInv
<1>6. ClaimInv' /\ OneWholeResponse'
  BY <1>1 DEF SigInv, ClaimInv, OneWholeResponse, collected
<1>7. QED BY <1>3, <1>4, <1>5, <1>6

\* The handler of a request starts: none of its lookups has begun yet.
LEMMA HandleStep ==
  ASSUME SigInv, NEW r \in Requests, Handle(r, "lookup")
  PROVE  SigInv' /\ [ServerNext]_server_vars
<1>1. /\ pc["uws"] = "idle" /\ LastChunk(r) /\ UNCHANGED <<queued, collected>>
      /\ frame' = [frame EXCEPT !["uws"] = [req |-> r, i |-> 0, null |-> FALSE]]
      /\ pc' = [pc EXCEPT !["uws"] = "lookup"]
  BY DEF Handle, At, Goto
<1>2. r \notin handled /\ handled' = handled \cup {r} /\ UNCHANGED <<sent>>
  BY <1>1 DEF LastChunk, OnData
<1>3. [ServerNext]_server_vars
  BY <1>1 DEF ServerNext
<1>4. /\ pc'["uws"] = "lookup" /\ pc'["loop"] = pc["loop"]
      /\ frame'["uws"] = [req |-> r, i |-> 0, null |-> FALSE]
      /\ frame'["loop"] = frame["loop"]
  BY <1>1 DEF SigInv, BaseType
<1>5. BaseType'
  <2>1. TypeInv'
    BY <1>3, TypeKept DEF SigInv, BaseType
  <2>2. [req |-> r, i |-> 0, null |-> FALSE] \in Frame
    BY DEF Frame
  <2>3. /\ frame' \in [Threads -> Frame]
        /\ \A t \in Threads : frame'[t].i \in 0..NumKeys[frame'[t].req]
    <3>1. 0 \in 0..NumKeys[r]
      BY SigStatusesAssumption
    <3>2. QED BY <1>1, <1>4, <2>2, <3>1 DEF SigInv, BaseType
  <2>4. QED BY <1>1, <2>1, <2>3 DEF SigInv, BaseType, collected
<1>6. \A q \in Requests : \A i \in Index(q) : ~NotBegun(q, i) => q # r /\ ~NotBegun(q, i)'
  BY <1>1, <1>2, <1>4 DEF NotBegun
<1>7. QueuedApart'
  BY <1>1, <1>6 DEF SigInv, Apart, QueuedApart, collected
<1>8. RunApart'
  <2>1. \A u \in Threads : InCallback(u)' => u = "loop" /\ InCallback(u)
    BY <1>4 DEF InCallback
  <2>2. InCallback("loop") =>
          /\ frame["loop"].i \in Index(frame["loop"].req) /\ frame["loop"].req \in Requests
          /\ ~NotBegun(frame["loop"].req, frame["loop"].i)'
          /\ <<frame["loop"].req, frame["loop"].i>> \notin queued
    <3> SUFFICES ASSUME InCallback("loop")
                 PROVE  /\ frame["loop"].i \in Index(frame["loop"].req) /\ frame["loop"].req \in Requests
                        /\ ~NotBegun(frame["loop"].req, frame["loop"].i)'
                        /\ <<frame["loop"].req, frame["loop"].i>> \notin queued
      OBVIOUS
    <3> DEFINE q == frame["loop"].req
               i == frame["loop"].i
    <3>1. /\ i \in Index(q) /\ q \in Requests /\ ~NotBegun(q, i) /\ <<q, i>> \notin queued
      BY CallbackHandled DEF SigInv, Apart, RunApart
    <3>2. q # r /\ q \in handled'
      BY <1>2, <1>6, <3>1 DEF NotBegun
    <3>3. ~NotBegun(q, i)'
      BY <1>4, <3>2 DEF NotBegun
    <3>4. QED BY <3>1, <3>3
  <2>3. QED BY <1>1, <1>4, <2>1, <2>2 DEF RunApart, NotBegun
<1>9. Apart'
  BY <1>2, <1>4, <1>7, <1>8 DEF Apart
<1>10. Stored'
  BY <1>1, <1>4 DEF SigInv, Stored, collected
<1>11. CountInv' /\ LastInv' /\ ClaimInv' /\ OneWholeResponse'
  <2>1. ~InCallback("uws")
    BY <1>1 DEF InCallback
  <2>2. pc' \in [Threads -> {"idle", "lookup", "check"} \cup {pc[u] : u \in Threads \ {"uws"}}]
    BY <1>1, <1>4 DEF SigInv, BaseType
  <2>3. QED BY <1>1, <1>2, <1>4, <2>1, <2>2, BetweenCallbacks
<1>12. QED
  BY <1>3, <1>5, <1>9, <1>10, <1>11 DEF SigInv

\* The lookup of the next signature begins; for a hit, in a callback.
LEMMA LookupStep ==
  ASSUME SigInv, LookupHit \/ LookupMiss
  PROVE  SigInv'
<1> DEFINE r == frame["uws"].req
           k == frame["uws"].i
<1>1. /\ pc["uws"] = "lookup" /\ k < NumKeys[r]
      /\ UNCHANGED <<server_vars, collected>>
      /\ frame' = [frame EXCEPT !["uws"].i = @ + 1]
  BY DEF LookupHit, LookupMiss, At, MoreKeys
<1>2. \/ pc' = [pc EXCEPT !["uws"] = "check"] /\ UNCHANGED queued
      \/ UNCHANGED pc /\ queued' = queued \cup {<<r, k + 1>>}
  BY DEF LookupHit, LookupMiss, Goto
<1>3. /\ r \in Requests /\ r \in handled /\ k \in 0..NumKeys[r] /\ k + 1 \in Index(r)
      /\ frame["uws"] \in Frame
  <2>1. frame["uws"] \in Frame
    BY DEF SigInv, BaseType
  <2>2. r \in Requests /\ k \in 0..NumKeys[r] /\ NumKeys[r] \in Nat
    BY <2>1, SigStatusesAssumption DEF SigInv, BaseType, Frame
  <2>3. QED BY <1>1, <2>1, <2>2 DEF SigInv, Apart, Index
<1>4. /\ frame'["uws"].req = r /\ frame'["uws"].i = k + 1 /\ frame'["loop"] = frame["loop"]
      /\ frame' \in [Threads -> Frame]
  BY <1>1, <1>3 DEF SigInv, BaseType, Frame, Index
<1>5. /\ pc'["uws"] \in {"lookup", "check"} /\ pc'["loop"] = pc["loop"]
      /\ pc' \in [Threads -> {"idle", "lookup", "check", "fail", "store", "count",
                             "claim", "build"}]
      /\ pc' \in [Threads -> {"idle", "lookup", "check"} \cup {pc[u] : u \in Threads \ {"uws"}}]
  BY <1>1, <1>2 DEF SigInv, BaseType
<1>6. queued' \subseteq queued \cup {<<r, k + 1>>}
      /\ (pc'["uws"] = "check" => queued' = queued)
  BY <1>1, <1>2, <1>5
<1>7. BaseType'
  <2>1. TypeInv'
    BY <1>1, TypeKept DEF SigInv, BaseType
  <2>2. \A t \in Threads : frame'[t].i \in 0..NumKeys[frame'[t].req]
    <3>1. k + 1 \in 0..NumKeys[r]
      BY <1>3 DEF Index
    <3>2. QED BY <1>4, <3>1 DEF SigInv, BaseType
  <2>3. queued' \subseteq Callback
    BY <1>3, <1>6 DEF SigInv, BaseType, Callback
  <2>4. QED
    BY <1>1, <1>4, <1>5, <2>1, <2>2, <2>3 DEF SigInv, BaseType, collected
\* what has begun stays begun, and k + 1 begins now
<1>8. k + 1 \in Int /\ k \in Int
  BY <1>3
<1>9. NotBegun(r, k + 1) /\ r \in handled /\ handled' = handled
  BY <1>1, <1>3, <1>8 DEF NotBegun, server_vars
<1> DEFINE Later(q, i) ==
         q \notin handled' \/ (pc'["uws"] # "idle" /\ frame'["uws"].req = q /\ frame'["uws"].i < i)
<1>10. ASSUME NEW q \in Requests, NEW i \in Index(q),
              ~NotBegun(q, i) \/ (q = r /\ i = k + 1)
       PROVE  ~Later(q, i)
  <2>1. i \in Int
    BY SigStatusesAssumption DEF Index
  <2>2. q = r => ~(k + 1 < i)
    BY <1>1, <1>8, <1>10, <2>1 DEF NotBegun
  <2>3. q \in handled'
    BY <1>9, <1>10 DEF NotBegun
  <2>4. QED BY <1>4, <2>2, <2>3
<1> HIDE DEF Later
<1>11. <<r, k + 1>> \notin queued /\ k + 1 \notin values[r]
  BY <1>3, <1>9 DEF SigInv, Apart, QueuedApart
<1>12. QueuedApart'
  <2> SUFFICES ASSUME NEW q \in Requests, NEW i \in Index(q)
               PROVE  /\ <<q, i>> \in queued' \/ i \in values'[q] => ~NotBegun(q, i)'
                      /\ <<q, i>> \in queued' => i \notin values'[q]
    BY DEF QueuedApart
  <2>1. values' = values
    BY <1>1 DEF collected
  <2>2. <<q, i>> \in queued' => <<q, i>> \in queued \/ (q = r /\ i = k + 1)
    BY <1>6
  <2>3. /\ <<q, i>> \in queued \/ i \in values[q] => ~NotBegun(q, i)
        /\ <<q, i>> \in queued => i \notin values[q]
    BY DEF SigInv, Apart, QueuedApart
  <2>4. <<q, i>> \in queued' \/ i \in values'[q] => ~NotBegun(q, i)'
    <3>1. <<q, i>> \in queued' \/ i \in values'[q] => ~Later(q, i)
      BY <1>10, <2>1, <2>2, <2>3
    <3>2. QED BY <3>1 DEF NotBegun, Later
  <2>5. QED BY <1>11, <2>1, <2>2, <2>3, <2>4
<1>13. RunApart'
  <2>1. ASSUME InCallback("loop")
        PROVE  /\ frame["loop"].i \in Index(frame["loop"].req)
               /\ ~Later(frame["loop"].req, frame["loop"].i)
               /\ <<frame["loop"].req, frame["loop"].i>> \notin queued'
               /\ frame["loop"].req # r \/ frame["loop"].i # k + 1
    <3> DEFINE q == frame["loop"].req
               i == frame["loop"].i
    <3>1. i \in Index(q) /\ q \in Requests /\ ~NotBegun(q, i) /\ <<q, i>> \notin queued
      BY <2>1, CallbackHandled DEF SigInv, Apart, RunApart
    <3>2. q # r \/ i # k + 1
      BY <1>9, <3>1
    <3>3. ~Later(q, i)
      BY <1>10, <3>1
    <3>4. <<q, i>> \notin queued'
      BY <1>6, <3>1, <3>2
    <3>5. QED BY <3>1, <3>2, <3>3, <3>4
  <2>2. ~Later(r, k + 1) /\ (pc'["uws"] = "check" => <<r, k + 1>> \notin queued')
    BY <1>3, <1>6, <1>10, <1>11
  <2>3. \A u \in Threads : InCallback(u)' =>
           \/ u = "uws" /\ pc'["uws"] = "check"
           \/ u = "loop" /\ InCallback("loop")
    BY <1>5 DEF InCallback
  <2>4. QED BY <1>3, <1>4, <2>1, <2>2, <2>3 DEF RunApart, NotBegun, Later
<1>14. Apart'
  BY <1>4, <1>9, <1>12, <1>13 DEF Apart
<1>15. Stored'
  <2>1. k + 1 \notin values[r] /\ values' = values
    BY <1>1, <1>11 DEF collected
  <2>2. QED BY <1>4, <1>5, <2>1 DEF SigInv, Stored
<1>16. CountInv' /\ LastInv' /\ ClaimInv' /\ OneWholeResponse'
  <2>1. ~InCallback("uws") /\ UNCHANGED <<collected, sent>>
    BY <1>1 DEF InCallback, server_vars
  <2>2. QED BY <1>4, <1>5, <2>1, BetweenCallbacks
<1>17. QED
  BY <1>7, <1>14, <1>15, <1>16 DEF SigInv

\* The loop over the signatures is over.
LEMMA DoneStep ==
  ASSUME SigInv, LookupsDone
  PROVE  SigInv'
<1>1. /\ pc["uws"] = "lookup" /\ ~(frame["uws"].i < NumKeys[frame["uws"].req])
      /\ UNCHANGED <<server_vars, frame, queued, collected>>
      /\ pc' = [pc EXCEPT !["uws"] = "idle"]
  BY DEF LookupsDone, At, MoreKeys, Goto
<1>2. pc'["uws"] = "idle" /\ pc'["loop"] = pc["loop"]
  BY <1>1 DEF SigInv, BaseType
<1>3. BaseType'
  <2>1. TypeInv'
    BY <1>1, TypeKept DEF SigInv, BaseType
  <2>2. QED BY <1>1, <2>1 DEF SigInv, BaseType, collected
<1>4. \A q, i : ~NotBegun(q, i) => q \in handled'
  BY <1>1 DEF NotBegun, server_vars
<1>5. QueuedApart'
  BY <1>1, <1>2, <1>4 DEF SigInv, Apart, QueuedApart, NotBegun, collected
<1>6. RunApart'
  <2>1. \A u \in Threads : InCallback(u)' => u = "loop" /\ InCallback(u)
    BY <1>2 DEF InCallback
  <2>2. QED BY <1>1, <1>2, <1>4, <2>1 DEF SigInv, Apart, RunApart, NotBegun
<1>7. Apart' /\ Stored'
  BY <1>1, <1>2, <1>5, <1>6 DEF SigInv, Apart, Stored, collected
<1>8. CountInv' /\ LastInv' /\ ClaimInv' /\ OneWholeResponse'
  <2>1. ~InCallback("uws") /\ UNCHANGED sent
    BY <1>1 DEF InCallback, server_vars
  <2>2. pc' \in [Threads -> {"idle", "lookup", "check"} \cup {pc[u] : u \in Threads \ {"uws"}}]
    BY <1>1, <1>2 DEF SigInv, BaseType
  <2>3. QED BY <1>1, <1>2, <2>1, <2>2, BetweenCallbacks
<1>9. QED
  BY <1>3, <1>7, <1>8 DEF SigInv

\* A coalesced response answers a queued lookup.
LEMMA AnswerStep ==
  ASSUME SigInv, NEW c \in queued, NEW null \in BOOLEAN, Answer(c, null)
  PROVE  SigInv'
<1>0. PICK r \in Requests : \E i \in Index(r) : c = <<r, i>>
  BY DEF SigInv, BaseType, Callback
<1>1. PICK i \in Index(r) : c = <<r, i>>
  BY <1>0
<1>2. /\ pc["loop"] = "idle" /\ UNCHANGED <<server_vars, collected>>
      /\ queued' = queued \ {<<r, i>>} /\ <<r, i>> \in queued
      /\ frame' = [frame EXCEPT !["loop"] = [req |-> r, i |-> i, null |-> null]]
      /\ pc' = [pc EXCEPT !["loop"] = "check"]
  BY <1>1 DEF Answer, At, Goto
<1>3. /\ pc'["loop"] = "check" /\ pc'["uws"] = pc["uws"]
      /\ frame'["loop"].req = r /\ frame'["loop"].i = i /\ frame'["uws"] = frame["uws"]
  BY <1>2 DEF SigInv, BaseType
<1>4. BaseType'
  <2>1. TypeInv'
    BY <1>2, TypeKept DEF SigInv, BaseType
  <2>2. [req |-> r, i |-> i, null |-> null] \in Frame
    BY DEF Frame, Index
  <2>3. i \in 0..NumKeys[r]
    BY SigStatusesAssumption DEF Index
  <2>4. /\ frame' \in [Threads -> Frame]
        /\ \A t \in Threads : frame'[t].i \in 0..NumKeys[frame'[t].req]
    BY <1>2, <1>3, <2>2, <2>3 DEF SigInv, BaseType
  <2>5. QED BY <1>2, <2>1, <2>4 DEF SigInv, BaseType, collected
<1>5. \A q, j : NotBegun(q, j)' <=> NotBegun(q, j)
  BY <1>2, <1>3 DEF NotBegun, server_vars
<1>6. ~NotBegun(r, i) /\ i \notin values[r]
  BY <1>2 DEF SigInv, Apart, QueuedApart
<1>7. QueuedApart'
  BY <1>2, <1>5 DEF SigInv, Apart, QueuedApart, collected
<1>8. RunApart'
  <2>1. InCallback("uws")' => InCallback("uws")
    BY <1>3 DEF InCallback
  <2>2. InCallback("uws") =>
          /\ frame["uws"].i \in Index(frame["uws"].req)
          /\ ~(\/ frame["uws"].req \notin handled'
               \/ pc'["uws"] # "idle" /\ frame'["uws"].req = frame["uws"].req
                  /\ frame'["uws"].i < frame["uws"].i)
          /\ <<frame["uws"].req, frame["uws"].i>> \notin queued'
          /\ frame["uws"].req # r \/ frame["uws"].i # i
    BY <1>2, <1>3 DEF SigInv, Apart, RunApart, NotBegun, server_vars
  <2>3. /\ ~(\/ r \notin handled'
             \/ pc'["uws"] # "idle" /\ frame'["uws"].req = r /\ frame'["uws"].i < i)
        /\ <<r, i>> \notin queued'
    BY <1>2, <1>5, <1>6 DEF NotBegun
  <2>4. QED BY <1>3, <2>1, <2>2, <2>3 DEF RunApart, NotBegun
<1>9. Apart' /\ Stored'
  BY <1>2, <1>3, <1>6, <1>7, <1>8 DEF SigInv, Apart, Stored, collected, server_vars
<1>10. CountInv' /\ LastInv' /\ ClaimInv' /\ OneWholeResponse'
  <2>1. ~InCallback("loop") /\ UNCHANGED sent
    BY <1>2 DEF InCallback, server_vars
  <2>2. pc' \in [Threads -> {"idle", "lookup", "check"} \cup {pc[u] : u \in Threads \ {"loop"}}]
    BY <1>2, <1>3 DEF SigInv, BaseType
  <2>3. QED BY <1>2, <1>3, <2>1, <2>2, BetweenCallbacks
<1>11. QED
  BY <1>4, <1>9, <1>10 DEF SigInv

\* What the server does by itself.
LEMMA EventStep ==
  ASSUME SigInv, UNCHANGED <<pc, frame, queued, collected>>,
         RunDeferred \/ \E r \in Requests : Accept(r) \/ Chunk(r) \/ Abort(r)
  PROVE  SigInv' /\ [ServerNext]_server_vars
<1>1. [ServerNext]_server_vars
  BY DEF ServerNext
<1>2. UNCHANGED <<handled, sent>>
  BY DEF RunDeferred, Accept, Chunk, Abort, OnData
<1>3. BaseType'
  BY <1>1, TypeKept DEF SigInv, BaseType, collected
<1>4. Apart' /\ Stored'
  BY <1>2 DEF SigInv, Apart, QueuedApart, RunApart, InCallback, NotBegun, Stored, collected
<1>5. \A q : Counted(q)' = Counted(q)
  BY DEF Counted, Uncounted, collected
<1>6. CountInv' /\ LastInv'
  BY <1>5 DEF SigInv, CountInv, LastInv, collected
<1>7. ClaimInv' /\ OneWholeResponse'
  BY <1>2 DEF SigInv, ClaimInv, OneWholeResponse, collected
<1>8. QED BY <1>1, <1>3, <1>4, <1>6, <1>7 DEF SigInv

LEMMA SigStutter == SigInv /\ UNCHANGED vars => SigInv'
<1> SUFFICES ASSUME SigInv, UNCHANGED vars PROVE SigInv'
  OBVIOUS
<1>1. UNCHANGED <<server_vars, pc, frame, queued, collected>>
  BY DEF vars
<1>2. BaseType'
  BY <1>1, TypeKept DEF SigInv, BaseType, collected
<1>3. Apart' /\ Stored'
  BY <1>1 DEF SigInv, Apart, QueuedApart, RunApart, InCallback, NotBegun, Stored,
              collected, server_vars
<1>4. \A q : Counted(q)' = Counted(q)
  BY <1>1 DEF Counted, Uncounted, collected
<1>5. CountInv' /\ LastInv'
  BY <1>1, <1>4 DEF SigInv, CountInv, LastInv, collected
<1>6. ClaimInv' /\ OneWholeResponse'
  BY <1>1 DEF SigInv, ClaimInv, OneWholeResponse, collected, server_vars
<1>7. QED BY <1>2, <1>3, <1>5, <1>6 DEF SigInv

LEMMA SigStep == SigInv /\ [Next]_vars => SigInv' /\ [ServerNext]_server_vars
<1> SUFFICES ASSUME SigInv, [Next]_vars PROVE SigInv' /\ [ServerNext]_server_vars
  OBVIOUS
<1>1. ASSUME NEW r \in Requests, UwsEvent(r) PROVE SigInv' /\ [ServerNext]_server_vars
  BY <1>1, EventStep DEF UwsEvent
<1>2. ASSUME NEW r \in Requests, Handle(r, "lookup")
      PROVE  SigInv' /\ [ServerNext]_server_vars
  BY <1>2, HandleStep
<1>3. CASE DeliverDeferred
  BY <1>3, EventStep DEF DeliverDeferred
<1>4. CASE LookupHit \/ LookupMiss
  BY <1>4, LookupStep DEF LookupHit, LookupMiss
<1>5. CASE LookupsDone
  BY <1>5, DoneStep DEF LookupsDone
<1>6. ASSUME NEW c \in queued, NEW null \in BOOLEAN, Answer(c, null)
      PROVE  SigInv' /\ [ServerNext]_server_vars
  <2>1. SigInv'
    BY <1>6, AnswerStep
  <2>2. QED BY <1>6, <2>1 DEF Answer
<1>7. ASSUME NEW t \in Threads, RunCallback(t) PROVE SigInv' /\ [ServerNext]_server_vars
  <2>1. CASE CheckSent(t)
    BY <2>1, CheckStep DEF CheckSent
  <2>2. CASE Fail(t)
    BY <2>2, FailStep
  <2>3. CASE Store(t)
    BY <2>3, StoreStep DEF Store
  <2>4. CASE CountDown(t)
    BY <2>4, CountStep DEF CountDown
  <2>5. CASE ClaimOk(t)
    BY <2>5, ClaimStep DEF ClaimOk
  <2>6. CASE Build(t)
    BY <2>6, BuildStep
  <2>7. QED BY <1>7, <2>1, <2>2, <2>3, <2>4, <2>5, <2>6 DEF RunCallback
<1>8. CASE Finished \/ UNCHANGED vars
  BY <1>8, SigStutter DEF Finished, vars
<1>9. QED
  BY <1>1, <1>2, <1>3, <1>4, <1>5, <1>6, <1>7, <1>8 DEF Next, UwsStep, LoopStep, CoalCacheStep

\* SigInv holds in every reachable state.
LEMMA SigAlways == Spec => []SigInv
BY SigInit, SigStep, PTL DEF Spec

-----------------------------------------------------------------------------
(* The theorems *)

\* The shared object, the queued lookups and the two threads have their types in
\* every reachable state: `remaining` never falls below zero, as no signature
\* is counted twice (main.cpp:89).
THEOREM SigTypeCorrect == Spec => []TypeOK
<1>1. SigInv => TypeOK
  <2> SUFFICES ASSUME SigInv PROVE TypeOK
    OBVIOUS
  <2>1. remaining \in [Requests -> Nat] /\ \A r \in Requests : remaining[r] <= NumKeys[r]
    <3>1. ASSUME NEW r \in Requests PROVE remaining[r] \in 0..NumKeys[r]
      <4>1. Counted(r) \in SUBSET Index(r)
        BY DEF SigInv, BaseType, Counted
      <4>2. Cardinality(Counted(r)) \in 0..NumKeys[r]
        BY <4>1, IndexSubset
      <4>3. remaining[r] = NumKeys[r] - Cardinality(Counted(r))
        BY DEF SigInv, CountInv
      <4>4. QED BY <4>2, <4>3, SigStatusesAssumption
    <3>2. QED BY <3>1 DEF SigInv, BaseType
  <2>2. QED BY <2>1 DEF SigInv, BaseType, TypeInv, TypeOK
<1>2. QED BY <1>1, SigAlways, PTL

\* Whatever the two threads interleave and whatever the relaxed load misses, a
\* request is responded to once at most, with every value or with the failure
\* (main.cpp:69).
THEOREM AtMostOneWholeResponse == Spec => []OneWholeResponse
<1>1. SigInv => OneWholeResponse
  BY DEF SigInv
<1>2. QED BY <1>1, SigAlways, PTL

\* No thread writes a value of a request while the other moves its values into
\* the response: the last of them to be counted has been stored.
THEOREM ValuesNeverRace == Spec => []NoValueRace
<1>1. SigInv => NoValueRace
  <2> SUFFICES ASSUME SigInv, NEW t \in Threads, NEW u \in Threads, pc[t] = "build",
                      pc[u] = "store", frame[u].req = frame[t].req
               PROVE  FALSE
    BY DEF NoValueRace, At
  <2>1. Counted(frame[t].req) = Index(frame[t].req)
    BY DEF SigInv, LastInv
  <2>2. frame[u].i \in Index(frame[u].req) /\ frame[u].i \notin values[frame[u].req]
    BY CallbackHandled DEF SigInv, Stored, InCallback
  <2>3. QED BY <2>1, <2>2 DEF Counted
<1>2. QED BY <1>1, SigAlways, PTL

\* The handler of getSignatureStatuses is a handler in the sense of the server:
\* each of its steps is a step of ServerSpec, one response per request.
THEOREM SigHandlerKeepsRule == Spec => KeepsServerRule
<1>1. Init => ServerInit
  BY DEF Init
<1>2. QED BY <1>1, SigStep, SigAlways, PTL DEF Spec, KeepsServerRule, ServerSpec

\* So uWS's response objects are safe with it, too: server.hpp:19.
THEOREM SigResponsesSafe == Spec => []ResUsedWhileLive
BY SigHandlerKeepsRule, NeverUsedAfterFree, PTL DEF KeepsServerRule
=============================================================================
