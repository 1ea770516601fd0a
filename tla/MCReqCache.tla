------------------------------ MODULE MCReqCache ------------------------------
(* Model checking of ReqCache: small sets of keys and lookups. *)
EXTENDS ReqCache
=============================================================================
