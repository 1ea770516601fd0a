------------------------------ MODULE MCClient ------------------------------
(* Model checking of Client: two posts and as many sockets. *)
EXTENDS Client

CONSTANTS p1, p2

\* The posts are alike, so that the one that is made first may be called p1: of
\* every behaviour, liveness included, the other one is a renaming.
FirstIsP1 == stage[p2] # "none" => stage[p1] # "none"
=============================================================================
