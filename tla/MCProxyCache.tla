----------------------------- MODULE MCProxyCache -----------------------------
(* Model checking of ProxyCache: small sets of keys and fetches. *)
EXTENDS ProxyCache
=============================================================================
