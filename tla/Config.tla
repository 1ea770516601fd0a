------------------------------- MODULE Config -------------------------------
(***************************************************************************)
(* The route table (config.hpp, config.cpp): what parse_route() makes of   *)
(* one --route option, and which route a path belongs to.                  *)
(*                                                                         *)
(* A spec is a sequence of fields [key, val]; "" is the key of a field     *)
(* without '='.  Splitting and trimming are left out, and so is `backup',  *)
(* which nothing reads.                                                    *)
(***************************************************************************)
EXTENDS Routes
LOCAL INSTANCE SequencesExt

Required == {"prefix", "kind", "upstream"}
FieldKeys == Required \cup {"backup", "header"}

\* The values given for a key, in their order.
Given(spec, key) ==
  LET fields == SelectSeq(spec, LAMBDA f : f.key = key)
  IN  [i \in DOMAIN fields |-> fields[i].val]

\* parse_route() does not throw.
ValidSpec(spec) ==
  /\ \A i \in DOMAIN spec : spec[i].key \in FieldKeys
  /\ \A i \in DOMAIN Given(spec, "kind") : Given(spec, "kind")[i] \in CacheKinds
  /\ \A key \in Required : Given(spec, key) # <<>>
  /\ LET prefix == Last(Given(spec, "prefix"))
     IN  prefix # <<>> /\ Head(prefix) = "/"

\* Mutant: the upstream is taken as it is.
Untrimmed(url) == url
\* The URL without its trailing slashes.
TrimSlashes(url) ==
  LET kept == {n \in 0..Len(url) : n = 0 \/ url[n] # "/"}
  IN  SubSeq(url, 1, CHOOSE n \in kept : \A m \in kept : m <= n)

\* A key that is given twice counts with its last value, a header with all.
parse_route(spec) ==
  [prefix   |-> Last(Given(spec, "prefix")),
   kind     |-> Last(Given(spec, "kind")),
   upstream |-> TrimSlashes(Last(Given(spec, "upstream"))),
   headers  |-> Given(spec, "header")]

\* Mutant: any prefix will do, on a path boundary or not.
MatchesAnywhere(route, path) == IsPrefix(route.prefix, path)
\* The route's prefix ends where the path does, before a '/' or behind one.
Matches(route, path) ==
  /\ IsPrefix(route.prefix, path)
  /\ LET n == Len(route.prefix)
     IN  Len(path) > n => path[n + 1] = "/" \/ path[n] = "/"

\* Mutant: the first route that matches.
FirstBetter(r1, r2) == FALSE
Longer(r1, r2) == Len(r1.prefix) > Len(r2.prefix)

\* Config::match(): the index of the best route, 0 for none.  Of two routes
\* with one prefix the first wins.
match(routes, path) ==
  LET on == {i \in DOMAIN routes : Matches(routes[i], path)}
      best == {i \in on : \A j \in on : ~Longer(routes[j], routes[i])}
  IN  IF best = {} THEN 0 ELSE Min(best)
=============================================================================
