---------------------------- MODULE CommonLemmas ----------------------------
(***************************************************************************)
(* Lemmas that the proofs about several components share: on the least of  *)
(* a set of numbers, and on the loop thread's queue of lookups, by the     *)
(* callbacks in it.                                                        *)
(***************************************************************************)
EXTENDS Integers, Sequences, FiniteSets, FiniteSetTheorems, SequenceTheorems, TLAPS

-----------------------------------------------------------------------------
(* Least numbers *)

\* There is a least one of any natural numbers.  If not, then 0 is below all of
\* them, and so is the successor of what is: the numbers up to one of S that are
\* below all of S are mapped by it into themselves without 0.
LEMMA LeastExists ==
  ASSUME NEW S \in SUBSET Nat, S # {}
  PROVE  \E x \in S : \A y \in S : x <= y
<1> SUFFICES ASSUME \A x \in S : \E y \in S : ~(x <= y) PROVE FALSE
  OBVIOUS
<1>1. PICK s \in S : TRUE
  OBVIOUS
<1> DEFINE B == {x \in 0..s : \A y \in S : x <= y}
           T == B \ {0}
<1>2. 0 \in B
  BY <1>1
<1>3. ASSUME NEW x \in B PROVE x + 1 \in T
  <2>1. x \in Nat /\ x <= s /\ \A y \in S : x <= y
    BY <1>1
  <2>2. x \notin S
    BY <2>1
  <2>3. \A y \in S : x + 1 <= y
    BY <2>1, <2>2
  <2>4. x + 1 \in 0..s /\ x + 1 # 0
    BY <1>1, <2>1, <2>3
  <2>5. QED BY <2>3, <2>4
<1>4. IsFiniteSet(B)
  <2>1. IsFiniteSet(0..s)
    BY <1>1, FS_Interval
  <2>2. QED BY <2>1, FS_Subset
<1>5. \A x \in B : x \in Int
  BY <1>1
<1> HIDE DEF B
<1>6. IsFiniteSet(T) /\ Cardinality(T) = Cardinality(B) - 1 /\ Cardinality(B) \in Nat
  BY <1>2, <1>4, FS_RemoveElement, FS_CardinalityType
<1> DEFINE f == [x \in B |-> x + 1]
<1>7. f \in [B -> T] /\ \A x \in B : f[x] = x + 1
  BY <1>3
<1> HIDE DEF f, T
<1>8. Cardinality(T) < Cardinality(B)
  BY <1>6
<1>9. PICK x, y \in B : x # y /\ f[x] = f[y]
  BY <1>4, <1>6, <1>7, <1>8, FS_PigeonHole
<1>10. QED BY <1>5, <1>7, <1>9

-----------------------------------------------------------------------------
(* Queues of jobs *)

\* The callbacks of the jobs in a queue, and that no callback has two jobs.
CallbacksIn(q) == {q[i].cb : i \in DOMAIN q}
OneJobEach(q) == \A i, j \in DOMAIN q : q[i].cb = q[j].cb => i = j

LEMMA JobAppended ==
  ASSUME NEW S, NEW q \in Seq(S), NEW e \in S
  PROVE  /\ Append(q, e) \in Seq(S)
         /\ CallbacksIn(Append(q, e)) = CallbacksIn(q) \cup {e.cb}
         /\ OneJobEach(q) /\ e.cb \notin CallbacksIn(q) => OneJobEach(Append(q, e))
<1> DEFINE p == Append(q, e)
<1>1. /\ p \in Seq(S)
      /\ DOMAIN q = 1..Len(q) /\ Len(q) \in Nat
      /\ DOMAIN p = 1..(Len(q) + 1)
      /\ \A i \in 1..Len(q) : p[i] = q[i]
      /\ p[Len(q) + 1] = e
  BY AppendProperties, LenProperties
<1> HIDE DEF p
<1>2. CallbacksIn(p) = CallbacksIn(q) \cup {e.cb}
  BY <1>1 DEF CallbacksIn
<1>3. OneJobEach(q) /\ e.cb \notin CallbacksIn(q) => OneJobEach(p)
  BY <1>1 DEF OneJobEach, CallbacksIn
<1>4. QED
  BY <1>1, <1>2, <1>3 DEF p

LEMMA JobTaken ==
  ASSUME NEW S, NEW q \in Seq(S), q # <<>>
  PROVE  /\ Head(q) \in S /\ Tail(q) \in Seq(S)
         /\ Head(q).cb \in CallbacksIn(q)
         /\ CallbacksIn(Tail(q)) \subseteq CallbacksIn(q)
         /\ OneJobEach(q) => /\ OneJobEach(Tail(q))
                             /\ CallbacksIn(Tail(q)) = CallbacksIn(q) \ {Head(q).cb}
<1> DEFINE h == Head(q)
           t == Tail(q)
<1>1. /\ h \in S /\ t \in Seq(S) /\ h = q[1]
      /\ DOMAIN q = 1..Len(q) /\ Len(q) \in Nat \ {0}
      /\ DOMAIN t = 1..(Len(q) - 1)
      /\ \A i \in 1..(Len(q) - 1) : t[i] = q[i + 1]
  BY HeadTailProperties, LenProperties, EmptySeq
<1> HIDE DEF h, t
<1>2. \A i \in 1..Len(q) :
        i = 1 \/ (i - 1 \in 1..(Len(q) - 1) /\ t[i - 1] = q[i])
  BY <1>1
<1>3. h.cb \in CallbacksIn(q) /\ CallbacksIn(t) \subseteq CallbacksIn(q)
  BY <1>1 DEF CallbacksIn
<1>4. ASSUME OneJobEach(q), NEW i \in DOMAIN t, NEW j \in DOMAIN t, t[i].cb = t[j].cb
      PROVE  i = j
  <2>1. /\ i \in Int /\ j \in Int
        /\ i + 1 \in DOMAIN q /\ j + 1 \in DOMAIN q
        /\ t[i] = q[i + 1] /\ t[j] = q[j + 1]
    BY <1>1
  <2>2. i + 1 = j + 1
    BY <1>4, <2>1 DEF OneJobEach
  <2>3. QED BY <2>1, <2>2
<1>5. ASSUME OneJobEach(q) PROVE CallbacksIn(t) = CallbacksIn(q) \ {h.cb}
  <2>1. \A c \in CallbacksIn(t) : c \in CallbacksIn(q) /\ c # h.cb
    BY <1>1, <1>5 DEF CallbacksIn, OneJobEach
  <2>2. ASSUME NEW c \in CallbacksIn(q) PROVE c \in CallbacksIn(t) \/ c = h.cb
    <3>1. PICK i \in 1..Len(q) : q[i].cb = c
      BY <1>1 DEF CallbacksIn
    <3>2. CASE i = 1
      BY <1>1, <3>1, <3>2
    <3>3. CASE i - 1 \in DOMAIN t /\ t[i - 1] = q[i]
      BY <3>1, <3>3 DEF CallbacksIn
    <3>4. QED BY <1>1, <1>2, <3>2, <3>3
  <2>3. QED BY <2>1, <2>2
<1>6. OneJobEach(q) => OneJobEach(t)
  BY <1>4 DEF OneJobEach
<1>7. QED
  BY <1>1, <1>3, <1>5, <1>6 DEF h, t

\* A callback that has one job, or waits for one key, is held once.
LEMMA HeldCount ==
  ASSUME NEW S, NEW q \in Seq(S), OneJobEach(q), NEW c, NEW W,
         \A j, k \in W : j = k, c \in CallbacksIn(q) => W = {}
  PROVE  Cardinality({i \in DOMAIN q : q[i].cb = c} \cup W)
           = IF c \in CallbacksIn(q) \/ W # {} THEN 1 ELSE 0
<1> DEFINE H == {i \in DOMAIN q : q[i].cb = c} \cup W
<1>1. CASE c \in CallbacksIn(q)
  <2>1. PICK i \in DOMAIN q : q[i].cb = c
    BY <1>1 DEF CallbacksIn
  <2>2. H = {i}
    BY <1>1, <2>1 DEF OneJobEach
  <2>3. QED BY <1>1, <2>2, FS_Singleton
<1>2. CASE c \notin CallbacksIn(q) /\ W # {}
  <2>1. PICK k : k \in W
    BY <1>2
  <2>2. H = {k}
    BY <1>2, <2>1 DEF CallbacksIn
  <2>3. QED BY <1>2, <2>2, FS_Singleton
<1>3. CASE c \notin CallbacksIn(q) /\ W = {}
  <2>1. H = {}
    BY <1>3 DEF CallbacksIn
  <2>2. QED BY <1>3, <2>1, FS_EmptySet
<1>4. QED BY <1>1, <1>2, <1>3
=============================================================================
