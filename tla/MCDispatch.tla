----------------------------- MODULE MCDispatch -----------------------------
(* Model checking of Dispatch: routes, requests and what may be said. *)
EXTENDS Dispatch, TLC

Field(key, val) == [key |-> key, val |-> val]
Spec4(prefix, kind, upstream, header) ==
  <<Field("prefix", prefix), Field("kind", kind), Field("upstream", upstream),
    Field("header", header)>>

CONSTANTS r1, r2

\* If the first request asks for the status of signatures, then of one; the
\* second asks for none.
MCNumKeys == r1 :> 1 @@ r2 :> 0

\* A route inside another one, prefixes and upstreams with and without a slash.
MCRouteSpecs ==
  <<Spec4(<<"/", "evm">>, "evm_jsonrpc", <<"E", "/">>, "key of E"),
    Spec4(<<"/", "evm", "/", "raw", "/">>, "passthrough", <<"P">>, "key of P"),
    Spec4(<<"/", "tron">>, "tron_wallet", <<"T", "/", "v1", "/">>, "key of T"),
    Spec4(<<"/", "sol">>, "solana", <<"S">>, "key of S")>>

Body(method, id) == [json |-> TRUE, method |-> method, tag |-> "", id |-> id]
Request(path, b) ==
  [path |-> path, json_type |-> TRUE, body |-> b, rpc |-> TRUE, list |-> TRUE]

Evm(method, id) == Request(<<"/", "evm">>, Body(method, id))
Sol(method, id) == Request(<<"/", "sol">>, Body(method, id))
Tron(method) == Request(<<"/", "tron", "/", method>>, Body("", 0))
TronLong(method) == Request(<<"/", "tron", "/", "v2", "/", method>>, Body("", 0))

\* A list of signatures, none, the wrong content type and another lookup; no
\* route; a receipt under two ids, the latest block and a nonce; a path of the
\* inner route; and two wallet methods, whose paths are within MaxDomain or beyond.
MCKinds ==
  <<Sol("getSignatureStatuses", 1),
    [Sol("getSignatureStatuses", 1) EXCEPT !.list = FALSE],
    [Sol("getSlot", 1) EXCEPT !.json_type = FALSE],
    Sol("getSlot", 1),
    Request(<<"/", "evm", "2">>, Body("eth_blockNumber", 1)),
    Evm("eth_getTransactionReceipt", 1), Evm("eth_getTransactionReceipt", 2),
    [Evm("eth_getBlockByNumber", 1) EXCEPT !.body.tag = "latest"],
    Evm("eth_getTransactionCount", 1),
    Request(<<"/", "evm", "/", "raw", "/", "x">>, Body("eth_blockNumber", 1)),
    Tron("gettransactionbyid"), Tron("gettransactioninfobyid"),
    TronLong("gettransactionbyid"), TronLong("gettransactioninfobyid")>>
MCIncoming == {MCKinds[i] : i \in DOMAIN MCKinds}

\* Requests are alike but for NumKeys, so of two kinds the earlier one may be that
\* of r1: of every behaviour, liveness included, the other one is a renaming.  A
\* single list of signatures is then never empty.
Rank(m) == CHOOSE i \in DOMAIN MCKinds : MCKinds[i] = m
InOrder ==
  what[r1] # Nothing /\ what[r2] # Nothing => Rank(what[r1]) <= Rank(what[r2])

\* A single lookup by hash, answered with what the upstream likes.
KeptIncoming == {Evm("eth_getTransactionByHash", 1)}

MCMessages ==
  UNION {{OkResponse(I) : I \in SUBSET Index(r)} : r \in Requests} \cup {BadGateway}
  \cup {Text(s) : s \in {400, 404, 500, 502}}
  \cup {Result(m.body.id) : m \in Incoming}
  \cup {Relayed(s, r) : s \in {StatusLine(t) : t \in Statuses}, r \in Requests}
=============================================================================
