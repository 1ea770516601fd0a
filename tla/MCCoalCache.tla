----------------------------- MODULE MCCoalCache -----------------------------
(* Model checking of CoalCache: small sets of keys and lookups. *)
EXTENDS CoalCache, TLC

Symmetry == Permutations(Keys) \cup Permutations(Callbacks)
=============================================================================
