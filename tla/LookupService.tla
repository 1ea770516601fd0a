---------------------------- MODULE LookupService ----------------------------
(***************************************************************************)
(* What the users of CoalCache::lookup are promised (coalcache.hpp,        *)
(* 106-130): the callback of a lookup is called once, at once or later, in *)
(* Deadline time at most.  A lookup may be forsaken: it is then owed       *)
(* nothing more, and CoalCache says which ones it forsakes.                *)
(***************************************************************************)
EXTENDS Naturals

CONSTANTS
  Callbacks,  \* one per lookup
  Results,    \* what a callback may be called with
  NoResult,   \* it has not been called yet
  Deadline,   \* the longest that a lookup may wait
  WaitCap     \* where the count of waiting time saturates

VARIABLES asked, answer, waited, forsaken

vars == <<asked, answer, waited, forsaken>>

Waiting == {c \in asked : answer[c] = NoResult}

Init ==
  /\ asked = {}
  /\ answer = [c \in Callbacks |-> NoResult]
  /\ waited = [c \in Callbacks |-> 0]
  /\ forsaken = {}

\* A lookup begins.
Ask(c) ==
  /\ c \notin asked
  /\ asked' = asked \cup {c}
  /\ \E r \in Results \cup {NoResult} : answer' = [answer EXCEPT ![c] = r]
  /\ UNCHANGED <<waited, forsaken>>

\* Some of the lookups that wait are answered, and only they.
Answer ==
  /\ answer' \in [Callbacks -> Results \cup {NoResult}]
  /\ \A c \in Callbacks : answer'[c] # answer[c] => c \in Waiting \ forsaken
  /\ UNCHANGED <<asked, waited, forsaken>>

Forsake ==
  /\ forsaken \subseteq forsaken'
  /\ forsaken' \subseteq Waiting
  /\ UNCHANGED <<asked, answer, waited>>

\* Time does not go by while a lookup is due.
Tick ==
  /\ \A c \in Waiting \ forsaken : waited[c] < Deadline
  /\ waited' = [c \in Callbacks |->
                  IF c \in Waiting /\ waited[c] < WaitCap
                  THEN waited[c] + 1 ELSE waited[c]]
  /\ UNCHANGED <<asked, answer, forsaken>>

Next == (\E c \in Callbacks : Ask(c)) \/ Answer \/ Forsake \/ Tick

Spec == Init /\ [][Next]_vars
=============================================================================
