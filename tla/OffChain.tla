------------------------------ MODULE OffChain ------------------------------
(***************************************************************************)
(* OffChainConfig of src/src/evm/onchain/offchain.rs: for every configured *)
(* UniswapV2 pair, initialize runs build_cache, which probes the deployed  *)
(* bytecode with static calls (token0, decimals, token1, decimals,         *)
(* getReserves, two balanceOf) and only then writes the three caches.      *)
(* The first error (no code, failed call) ends initialize with Err; the    *)
(* pairs still to do are left uncached. v2_pairs is a HashSet, so the      *)
(* order in which pairs are built is arbitrary.                            *)
(*                                                                         *)
(* Addresses are model values; decimals, reserves and balances are the     *)
(* values the probes decode, kept as they are in the contracts' storage.   *)
(***************************************************************************)
EXTENDS Integers, Sequences, FiniteSets

CONSTANTS
    V2Pairs,        \* v2_pairs
    Tokens,         \* token addresses
    PairTokens,     \* PairTokens[p] = <<token0, token1>> that p returns
    Reserves,       \* Reserves[p] = <<reserve0, reserve1>> of getReserves
    Balance,        \* Balance[<<t, p>>]: t.balanceOf(p)
    HasCode,        \* addresses the host has code for
    Pegged          \* the values of get_pegged_token()

\* what a static call returns: success with a full word, a revert, or
\* success with less return data than the decoder indexes
Outcomes == {"ok", "revert", "short"}

\* the seven probes of build_cache, in order
Probes == <<"token0", "decimals0", "token1", "decimals1",
            "getReserves", "balance0", "balance1">>

PairData == [pair : V2Pairs, token0 : Tokens, token1 : Tokens,
             in_ : {0, 1}, next : Tokens, in_token : Tokens,
             src : {"pegged", "lp"}]

VARIABLES
    todo,            \* pairs initialize has not built yet
    pair_cache,      \* token -> Seq(PairData)
    reserves_cache,  \* pair -> <<r0, r1>>, or <<>> when absent
    balance_cache,   \* <<pair, token>> pairs cached, with their balance
    result           \* "running" | "ok" | "err" | "panic"

vars == <<todo, pair_cache, reserves_cache, balance_cache, result>>

TypeOK ==
    /\ todo \subseteq V2Pairs
    /\ pair_cache \in [Tokens -> Seq(PairData)]
    /\ DOMAIN reserves_cache = V2Pairs
    /\ balance_cache \subseteq (V2Pairs \X Tokens) \X Nat
    /\ result \in {"running", "ok", "err", "panic"}

Init ==
    /\ todo = V2Pairs
    /\ pair_cache = [t \in Tokens |-> <<>>]
    /\ reserves_cache = [p \in V2Pairs |-> <<>>]
    /\ balance_cache = {}
    /\ result = "running"

\* Mutant: next names the pair instead of a token
BuildPairCacheEntryNextPair(token, pd) ==
    [pd EXCEPT !.in_ = IF token = pd.token0 THEN 0 ELSE 1,
               !.next = pd.pair,
               !.in_token = token,
               !.src = IF token \in Pegged THEN "pegged" ELSE "lp"]

\* the entry build_pair_cache pushes for `token`: in_ is 0 when token is
\* token0; next is token1 in that case and `in_token` (token itself)
\* otherwise; src is "pegged" iff the token is a pegged asset
BuildPairCacheEntry(token, pd) ==
    [pd EXCEPT !.in_ = IF token = pd.token0 THEN 0 ELSE 1,
               !.next = IF token = pd.token0 THEN pd.token1 ELSE token,
               !.in_token = token,
               !.src = IF token \in Pegged THEN "pegged" ELSE "lp"]

\* build_pair_cache: append the entry to pair_cache[token]
BuildPairCache(cache, token, pd) ==
    [cache EXCEPT ![token] = Append(@, BuildPairCacheEntry(token, pd))]

\* the probe at which build_cache stops: the first one whose target has no
\* code, whose call reverts, or whose short answer is indexed past its end
\* (token0/token1 read res[12..32], decimals res[31], getReserves res[..64]);
\* 0 when all succeed
FirstFailure(p, outcome) ==
    LET t0 == PairTokens[p][1]
        t1 == PairTokens[p][2]
        target == <<p, t0, p, t1, p, t0, t1>>
        bad(k) == \/ target[k] \notin HasCode
                  \/ outcome[k] = "revert"
                  \/ outcome[k] = "short" /\ k <= 5
    IN  IF \E k \in 1..7 : bad(k)
        THEN CHOOSE k \in 1..7 : bad(k) /\ \A j \in 1..(k-1) : ~bad(j)
        ELSE 0

\* balanceOf decoded by try_from_be_slice(..).unwrap_or_default(): a short
\* answer is not an error but does not hold the balance
DecodedBalance(outcome, k, v) == IF outcome[k] = "short" THEN 0 ELSE v

\* the end of build_cache: both sides of the pair into pair_cache, then the
\* two balances
CommitPair(p, outcome) ==
    LET t0 == PairTokens[p][1]
        t1 == PairTokens[p][2]
        pd == [pair |-> p, token0 |-> t0, token1 |-> t1, in_ |-> 0,
               next |-> t0, in_token |-> t0, src |-> "lp"]
    IN  /\ pair_cache' = BuildPairCache(BuildPairCache(pair_cache, t0, pd), t1, pd)
        /\ balance_cache' = balance_cache \cup
              {<<<<p, t0>>, DecodedBalance(outcome, 6, Balance[<<t0, p>>])>>,
               <<<<p, t1>>, DecodedBalance(outcome, 7, Balance[<<t1, p>>])>>}

\* how build_cache ends when probe k fails: an indexing panic or an Err
FailureResult(outcome, k) == IF outcome[k] = "short" THEN "panic" ELSE "err"

\* Mutant: reserves are cached as soon as getReserves answered
BuildCacheEagerReserves(p, outcome) ==
    LET k == FirstFailure(p, outcome) IN
    /\ todo' = todo \ {p}
    /\ reserves_cache' = IF k = 0 \/ k > 5
                         THEN [reserves_cache EXCEPT ![p] = Reserves[p]]
                         ELSE reserves_cache
    /\ IF k = 0
       THEN CommitPair(p, outcome) /\ UNCHANGED result
       ELSE result' = FailureResult(outcome, k) /\ UNCHANGED <<pair_cache, balance_cache>>

\* build_cache for pair p when the seven probes answer `outcome`; the caches
\* are written only after every probe succeeded
BuildCache(p, outcome) ==
    LET k == FirstFailure(p, outcome) IN
    /\ todo' = todo \ {p}
    /\ IF k = 0
       THEN /\ CommitPair(p, outcome)
            /\ reserves_cache' = [reserves_cache EXCEPT ![p] = Reserves[p]]
            /\ UNCHANGED result
       ELSE /\ result' = FailureResult(outcome, k)
            /\ UNCHANGED <<pair_cache, reserves_cache, balance_cache>>

\* initialize: build the pairs one by one in the HashSet's order; `?`
\* returns the first error, a panic ends the process
Initialize ==
    /\ result = "running"
    /\ todo # {}
    /\ \E p \in todo, outcome \in [1..7 -> Outcomes] : BuildCache(p, outcome)

\* every pair built: Ok(())
InitializeOk ==
    /\ result = "running"
    /\ todo = {}
    /\ result' = "ok"
    /\ UNCHANGED <<todo, pair_cache, reserves_cache, balance_cache>>

\* initialize has returned (or the process is gone)
Returned == result # "running" /\ UNCHANGED vars

Next == Initialize \/ InitializeOk \/ Returned

Spec == Init /\ [][Next]_vars

(***************************************************************************)
(* The ChainConfig queries the path discovery reads                        *)
(***************************************************************************)

\* get_pair(token, _)
GetPair(t) == pair_cache[t]

\* fetch_reserve(pair): None when the pair is not cached
FetchReserve(p) == reserves_cache[p]

\* get_token_balance(token, address): the balance cached under
\* (address, token), 0 when there is none
GetTokenBalance(token, address) ==
    LET hits == {e \in balance_cache : e[1] = <<address, token>>}
    IN  IF hits = {} THEN 0 ELSE (CHOOSE e \in hits : TRUE)[2]

(***************************************************************************)
(* Properties                                                              *)
(***************************************************************************)

\* A pair is either fully cached or not at all: its reserves are served iff
\* both tokens list it in get_pair and both of its balances are cached; the
\* reserves are the ones getReserves returned.
CachedPairsComplete ==
    \A p \in V2Pairs :
        LET t0 == PairTokens[p][1]
            t1 == PairTokens[p][2]
            listed(t) == \E i \in DOMAIN GetPair(t) : GetPair(t)[i].pair = p
        IN  FetchReserve(p) # <<>> <=>
               /\ listed(t0) /\ listed(t1)
               /\ FetchReserve(p) = Reserves[p]
               /\ \E e \in balance_cache : e[1] = <<p, t0>>
               /\ \E e \in balance_cache : e[1] = <<p, t1>>

\* Every get_pair entry describes a swap out of the queried token: in_token
\* is the token, in_ its side of the pair, and next the other side
\* (spec section 8 item 6: get_pair(B)[0] has in_ = 1 and next = A).
PairEntriesRoundTrip ==
    \A t \in Tokens : \A i \in DOMAIN GetPair(t) :
        LET e == GetPair(t)[i] IN
        /\ e.in_token = t
        /\ e.in_ = IF t = e.token0 THEN 0 ELSE 1
        /\ e.next = IF t = e.token0 THEN e.token1 ELSE e.token0

\* A probe that fails or answers with an unexpected length leaves its pair
\* unclassified, without a crash (spec section 7, probe failure):
\* initialize never panics, and for a pair that is cached every balance
\* get_token_balance serves is the one balanceOf reported.
ShortProbeRejected ==
    /\ result # "panic"
    /\ \A p \in V2Pairs, k \in 1..2 :
          FetchReserve(p) # <<>> =>
              GetTokenBalance(PairTokens[p][k], p) = Balance[<<PairTokens[p][k], p>>]

\* initialize performs the probes for every configured pair (spec 4.4), and
\* a probe that fails leaves only its own pair unclassified (spec section
\* 7: errors degrade by dropping the offending artifact): once initialize
\* has returned, no pair is left unbuilt.
EveryPairAttempted == result \in {"ok", "err"} => todo = {}

=============================================================================
