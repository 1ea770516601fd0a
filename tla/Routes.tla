------------------------------- MODULE Routes -------------------------------
(***************************************************************************)
(* The caching policy of the proxied routes (routes.hpp, routes.cpp): what *)
(* a request is, from its path or its JSON-RPC body, and for how long the  *)
(* response to it may be cached.  Warnings about unknown methods are left  *)
(* out, and with them the lists of methods that pass through silently.     *)
(*                                                                         *)
(* A string of the code is a sequence of pieces, "/" or part of a name,    *)
(* where its structure matters (paths, URLs), and a string elsewhere.      *)
(***************************************************************************)
EXTENDS Naturals, Sequences

CacheKinds == {"passthrough", "tron_wallet", "evm_jsonrpc", "solana"}

\* A request body: whether it parses, method, params[0] and id.  The first
\* parameter of eth_getBlockByNumber is a tag or an explicit number.
Bodies == [json : BOOLEAN, method : STRING, tag : STRING, id : Nat]

\* What a 2xx body may be: the data that was asked for, a null result or an
\* empty object, an error (of JSON-RPC, without a result, or of the wallet
\* API, an object that is not empty), or no JSON at all.
Replies == {"data", "missing", "error", "garbage"}

\* Cache lifetimes, in seconds.
TTL_IMMUTABLE == 7200
TTL_CHAINID == 86400
TTL_HEAD == 10

\* A ttl function is a function of the reply.
const_ttl(t) == [reply \in Replies |-> t]
ttl_if_result_present(t) == [reply \in Replies |-> IF reply = "data" THEN t ELSE 0]
ttl_if_nonempty(t) ==
  [reply \in Replies |-> IF reply \in {"data", "error"} THEN t ELSE 0]

Passthrough == [cacheable |-> FALSE]
Cache(key, ttl) == [cacheable |-> TRUE, key_body |-> key, ttl |-> ttl]

\* The body without its id.  Only bodies that parse are cached, so keys of
\* raw bytes do not occur on this surface.
deid(body) == [body EXCEPT !.id = 0]

HeadTags == {"latest", "pending", "earliest"}

\* Mutant: receipts are treated like the other lookups by hash.
ReceiptsForGood(body) ==
  IF body.json /\ body.method # "eth_getTransactionCount"
  THEN Cache(deid(body), const_ttl(TTL_IMMUTABLE)) ELSE Passthrough
classify_jsonrpc(body) ==
  LET cache_with(ttl) == Cache(deid(body), ttl)
  IN  IF ~body.json THEN Passthrough
      ELSE CASE body.method = "eth_chainId" -> cache_with(const_ttl(TTL_CHAINID))
        [] body.method = "eth_blockNumber" -> cache_with(const_ttl(TTL_HEAD))
        [] body.method \in {"eth_getLogs", "eth_getBlockByHash",
                            "eth_getTransactionByHash"} ->
             cache_with(const_ttl(TTL_IMMUTABLE))
        [] body.method = "eth_getBlockByNumber" ->
             cache_with(const_ttl(IF body.tag \in HeadTags
                                  THEN TTL_HEAD ELSE TTL_IMMUTABLE))
        [] body.method = "eth_getTransactionReceipt" ->
             cache_with(ttl_if_result_present(TTL_IMMUTABLE))
        [] OTHER -> Passthrough

\* The wallet method: what follows the last '/' of the path, which has one.
LastSegment(path) ==
  LET slash == CHOOSE i \in DOMAIN path :
                 path[i] = "/" /\ \A j \in i + 1..Len(path) : path[j] # "/"
  IN  SubSeq(path, slash + 1, Len(path))

classify_wallet(path, body) ==
  LET method == LastSegment(path)
  IN  CASE method = <<"getblockbalance">> -> Cache(body, const_ttl(TTL_IMMUTABLE))
        [] method \in {<<"gettransactionbyid">>, <<"gettransactioninfobyid">>} ->
             Cache(body, ttl_if_nonempty(TTL_IMMUTABLE))
        [] OTHER -> Passthrough

\* Solana routes are not classified: handle_solana() takes them.
classify(kind, path, body) ==
  CASE kind = "evm_jsonrpc" -> classify_jsonrpc(body)
    [] kind = "tron_wallet" -> classify_wallet(path, body)
    [] OTHER -> Passthrough
=============================================================================
