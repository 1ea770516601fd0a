---------------------------- MODULE MCSigStatuses ----------------------------
(* Model checking of SigStatuses, and of the Server it extends. *)
EXTENDS SigStatuses, TLC

CONSTANTS r1, r2, r3

\* Two signatures, one, and the empty list.
MCNumKeys == r1 :> 2 @@ r2 :> 1 @@ r3 :> 0
MCMessages ==
  UNION {{OkResponse(I) : I \in SUBSET Index(r)} : r \in Requests} \cup {BadGateway}
=============================================================================
