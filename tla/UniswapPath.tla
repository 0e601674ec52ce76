---------------------------- MODULE UniswapPath ----------------------------
(***************************************************************************)
(* Liquidation-path discovery of src/src/evm/tokens/uniswap.rs:            *)
(* find_path_subgraph builds the hop table with get_all_hops (recursive,   *)
(* up to MAX_HOPS, with a `known` set shared by all branches), enumerates  *)
(* routes to a pegged token with dfs (a `visited` set shared by all        *)
(* branches and never unwound), closes each route with the pegged hop of   *)
(* get_pegged_next_hop (its rate computed in f64 and cast `as u32`), and   *)
(* drops every route with a pair add_reserve_info finds insignificant.     *)
(*                                                                         *)
(* What the endpoint serves is chosen by Init from Instances: each        *)
(* token's get_pair list, in the endpoint's order, and each pair's         *)
(* reserves. Pairs are unordered token pairs; token0 is the one with the   *)
(* lower address (Rank). A reserve is a natural or Wide, a value whose     *)
(* decimal string, read in base 16, does not fit an i128 (8*10^31 or more).*)
(***************************************************************************)
EXTENDS Integers, Sequences, SequencesExt, FiniteSets, TLC

CONSTANTS
    Tokens,          \* token addresses
    Pegged,          \* values of get_pegged_token(network)
    Weth,            \* get_weth(network)
    Target,          \* the token fetch_uniswap_path is asked about
    Rank,            \* address order: token0 of a pair has the lower rank
    Decimals,        \* Decimals[t]: decimals the pair data carries for t
    PairListCap,     \* the 10 of `pairs.len() > 10` in get_pair
    Instances,       \* endpoint answers: [graph : [Tokens -> Seq(Tokens)],
                     \*   reserves : [pair -> <<reserve0, reserve1>>]]
    Wide             \* a reserve of 8*10^31 or more: 32 decimal digits
                     \* from 8 on, read as hex, exceed i128::MAX

ASSUME Weth \in Pegged /\ Pegged \subseteq Tokens /\ Target \in Tokens

\* const MAX_HOPS: u32 = 2
MAX_HOPS == 2

\* the 1_000_000 of the rate, and u32::MAX, both written in base 10^6 as
\* <<high, low>> so that TLC's 32-bit integers hold them
Scale == 1000000
U32Max == <<4294, 967295>>

LessRate(x, y) == x[1] < y[1] \/ (x[1] = y[1] /\ x[2] < y[2])

VARIABLES
    graph,      \* what onchain.get_pair returns per token
    reserves,   \* what onchain.fetch_reserve returns per pair
    hops,       \* the table get_all_hops returns
    routes,     \* the routes dfs pushes, in order
    kept,       \* routes_without_low_liquidity
    result      \* "init" | "done" | "panic"

vars == <<graph, reserves, hops, routes, kept, result>>

Token0(e) == CHOOSE x \in e : \A y \in e : Rank[x] <= Rank[y]

\* a PairData as the endpoint builds it for a query on token t
PairData(t, n) ==
    [pair |-> {t, n}, in_token |-> t, next |-> n,
     in_ |-> IF Token0({t, n}) = t THEN 0 ELSE 1, src |-> "v2", rate |-> <<0, 0>>]

\* get_pair: nothing for WETH; more than PairListCap pairs are cut down to
\* the ones whose next is pegged
GetPair(t) ==
    LET pairs == [i \in DOMAIN graph[t] |-> PairData(t, graph[t][i])] IN
    IF t = Weth THEN <<>>
    ELSE IF Len(pairs) > PairListCap
         THEN SelectSeq(pairs, LAMBDA p : p.next \in Pegged)
         ELSE pairs

\* Mutant: the last digit is truncated with a misplaced correction
ScaledFractionLow(n, d) ==
    LET a1 == (n * 1000) \div d
        b1 == (n * 1000) % d
        a2 == (b1 * 1000) \div d
        b2 == (b1 * 1000) % d
    IN  a1 * 1000 + a2 - (IF 2 * b2 < d THEN 1 ELSE 0)

\* floor(n * 10^6 / d) for 0 <= n < d by long division in base 1000, with
\* the remainder's doubled comparison for round-half-up
ScaledFraction(n, d) ==
    LET a1 == (n * 1000) \div d
        b1 == (n * 1000) % d
        a2 == (b1 * 1000) \div d
        b2 == (b1 * 1000) % d
    IN  a1 * 1000 + a2 + (IF 2 * b2 >= d THEN 1 ELSE 0)

\* (out as f64 / in as f64 * 1_000_000.0).round() as u32: `as` saturates
\* +inf to u32::MAX and NaN (0/0) to 0
RateOf(rin, rout) ==
    IF rin = 0 THEN IF rout = 0 THEN <<0, 0>> ELSE U32Max
    ELSE LET f == ScaledFraction(rout % rin, rin)
             v == <<rout \div rin + f \div Scale, f % Scale>>
         IN  IF LessRate(U32Max, v) THEN U32Max ELSE v

\* the exact rate spec section 8 item 7 states, for rin > 0
IdealRate(rin, rout) ==
    LET f == ScaledFraction(rout % rin, rin)
    IN  <<rout \div rin + f \div Scale, f % Scale>>

RECURSIVE DecAsHex(_)
\* i128::from_str_radix(s, 16) of the decimal string s = n.to_string()
\* that fetch_reserve returns: the decimal digits of n read in base 16
DecAsHex(n) == IF n < 10 THEN n ELSE DecAsHex(n \div 10) * 16 + (n % 10)

\* from_str_radix(.., 16).unwrap() succeeds on both reserves of p's pair
ParseOk(p) == reserves[p.pair][1] # Wide /\ reserves[p.pair][2] # Wide

\* the reserves of p's pair as add_reserve_info parses them
Parsed(p) == <<DecAsHex(reserves[p.pair][1]), DecAsHex(reserves[p.pair][2])>>

\* the parsed reserves seen from p's in_ side: <<in, out>>
InOut(p) == IF p.in_ = 0 THEN Parsed(p) ELSE <<Parsed(p)[2], Parsed(p)[1]>>

\* the reserves the pair really holds, seen from p's in_ side
TrueInOut(p) ==
    LET r == reserves[p.pair] IN IF p.in_ = 0 THEN <<r[1], r[2]>> ELSE <<r[2], r[1]>>

\* get_pegged_next_hop: WETH closes with rate 1.0; another pegged token
\* with its first pair (expect: a panic when there is none), the rate
\* from that pair's reserves (unwrap: a panic when one does not parse)
GetPeggedNextHop(t) ==
    IF t = Weth
    THEN [pair |-> {}, in_token |-> t, next |-> t, in_ |-> 0,
          src |-> "pegged_weth", rate |-> <<1, 0>>]
    ELSE IF GetPair(t) = <<>> \/ ~ParseOk(Head(GetPair(t)))
    THEN [pair |-> {}, in_token |-> t, next |-> t, in_ |-> 0,
          src |-> "panic", rate |-> <<0, 0>>]
    ELSE LET p == Head(GetPair(t))
         IN  [p EXCEPT !.src = "pegged", !.rate = RateOf(InOut(p)[1], InOut(p)[2])]

\* add_reserve_info: significant iff both parsed reserves exceed 10^(decimals-1)
\* (0 when decimals is 0); a pegged_weth hop always is
MinReserve(d) == IF d = 0 THEN 0 ELSE 10^(d - 1)
AddReserveInfo(p) ==
    \/ p.src = "pegged_weth"
    \/ LET t0 == Token0(p.pair)
           t1 == CHOOSE x \in p.pair : x # t0
       IN  /\ Parsed(p)[1] > MinReserve(Decimals[t0])
           /\ Parsed(p)[2] > MinReserve(Decimals[t1])

RECURSIVE GetAllHops(_, _, _)

\* Mutant: the depth test lets one more level through
GetAllHopsDeeper(token, hop, known) ==
    LET known1 == known \cup {token} IN
    IF hop > MAX_HOPS + 1
    THEN [tbl |-> [x \in {} |-> <<>>], known |-> known1]
    ELSE FoldLeft(
           LAMBDA st, i :
             IF i.next \in Pegged \/ i.next \in st.known THEN st
             ELSE LET sub == GetAllHops(i.next, hop + 1, st.known)
                  IN  [tbl |-> sub.tbl @@ st.tbl, known |-> sub.known],
           [tbl |-> (token :> GetPair(token)), known |-> known1],
           GetPair(token))

\* get_all_hops(token, hop, known): token becomes known before the depth
\* test; a pair whose next is pegged or known is not followed; the
\* sub-tables are merged into the table (extend: later entries win)
GetAllHops(token, hop, known) ==
    LET known1 == known \cup {token} IN
    IF hop > MAX_HOPS
    THEN [tbl |-> [x \in {} |-> <<>>], known |-> known1]
    ELSE FoldLeft(
           LAMBDA st, i :
             IF i.next \in Pegged \/ i.next \in st.known THEN st
             ELSE LET sub == GetAllHops(i.next, hop + 1, st.known)
                  IN  [tbl |-> sub.tbl @@ st.tbl, known |-> sub.known],
           [tbl |-> (token :> GetPair(token)), known |-> known1],
           GetPair(token))

RECURSIVE Dfs(_, _, _, _)
\* dfs(token, path, visited): at a pegged token the path is closed with the
\* pegged hop and pushed; otherwise token is visited and every hop of the
\* table whose next is not visited is followed in order
Dfs(tbl, token, path, st) ==
    IF token \in Pegged
    THEN [st EXCEPT !.routes = Append(@, Append(path, GetPeggedNextHop(token)))]
    ELSE LET st1 == [st EXCEPT !.visited = @ \cup {token}] IN
         IF token \notin DOMAIN tbl THEN st1
         ELSE FoldLeft(
                LAMBDA s, h :
                  IF h.next \in s.visited THEN s
                  ELSE Dfs(tbl, h.next, Append(path, h), s),
                st1, tbl[token])

\* find_path_subgraph for a token that is not pegged
Routes(tbl) == Dfs(tbl, Target, <<>>, [routes |-> <<>>, visited |-> {}]).routes

\* Mutant: the liquidity loop stops before the pegged hop
SignificantButLast(r) == \A i \in 1..(Len(r) - 1) : AddReserveInfo(r[i])

\* the loop of find_path_subgraph over every hop of a route
Significant(r) == \A i \in DOMAIN r : AddReserveInfo(r[i])

Init ==
    /\ \E e \in Instances : graph = e.graph /\ reserves = e.reserves
    /\ hops = <<>> /\ routes = <<>> /\ kept = <<>>
    /\ result = "init"

\* find_path_subgraph(Target): a pegged target is one pegged hop, returned
\* as it is (no liquidity filter); otherwise the hop table and dfs, then
\* the low-liquidity loop, which parses every hop and keeps the routes of
\* significant pairs. A failed expect or unwrap ends the process.
FindPathSubgraph ==
    LET tbl == IF Target \in Pegged THEN <<>> ELSE GetAllHops(Target, 0, {}).tbl
        rs  == IF Target \in Pegged THEN << <<GetPeggedNextHop(Target)>> >>
               ELSE Routes(tbl)
        crash == \E i \in DOMAIN rs : \E j \in DOMAIN rs[i] :
                   \/ rs[i][j].src = "panic"
                   \/ rs[i][j].src # "pegged_weth" /\ ~ParseOk(rs[i][j])
    IN  [hops |-> tbl, routes |-> rs, panic |-> crash,
         kept |-> IF crash THEN <<>>
                 ELSE IF Target \in Pegged THEN rs
                 ELSE SelectSeq(rs, Significant)]

RECURSIVE Digits(_)
\* the length of n.to_string(), the decimal string fetch_reserve returns
Digits(n) == IF n < 10 THEN 1 ELSE 1 + Digits(n \div 10)

\* hex::decode(initial_reserves_i).unwrap() of fetch_uniswap_path: a v2 or
\* pegged hop's reserve strings must have an even number of digits
Decodes(p) == p.src = "pegged_weth" \/ \A k \in 1..2 : Digits(reserves[p.pair][k]) % 2 = 0

\* fetch_uniswap_path(Target): find_path_subgraph, then every kept route
\* becomes a PathContext whose hops decode their reserves
FetchUniswapPath ==
    /\ result = "init"
    /\ LET f == FindPathSubgraph IN
       /\ hops' = f.hops
       /\ routes' = f.routes
       /\ kept' = f.kept
       /\ result' = IF f.panic \/ \E i \in DOMAIN f.kept : \E j \in DOMAIN f.kept[i] :
                                   ~Decodes(f.kept[i][j])
                    THEN "panic" ELSE "done"
    /\ UNCHANGED <<graph, reserves>>

Done == result # "init" /\ UNCHANGED vars

Next == FetchUniswapPath \/ Done

Spec == Init /\ [][Next]_vars

(***************************************************************************)
(* Reference definitions and properties                                    *)
(***************************************************************************)

Hop == [pair : SUBSET Tokens, in_token : Tokens, next : Tokens, in_ : {0, 1},
        src : {"v2", "pegged", "pegged_weth", "panic"}, rate : Nat \X Nat]

TypeOK ==
    /\ graph \in [Tokens -> Seq(Tokens)]
    /\ reserves \in [DOMAIN reserves -> (Nat \cup {Wide}) \X (Nat \cup {Wide})]
    /\ \A t \in DOMAIN hops : t \in Tokens /\ hops[t] \in Seq(Hop)
    /\ routes \in Seq(Seq(Hop)) /\ kept \in Seq(Seq(Hop))
    /\ result \in {"init", "done", "panic"}

\* the tokens a route passes through, from the target to the pegged token
RouteTokens(r) == <<r[1].in_token>> \o [i \in 1..(Len(r) - 1) |-> r[i].next]

\* every path of at most MAX_HOPS + 1 pairs from the target to a pegged
\* token through distinct, unpegged tokens along get_pair's lists: the
\* hop table holds the lists of the tokens at depth 0..MAX_HOPS
ReferencePaths ==
    { s \in UNION {[1..n -> Tokens] : n \in 2..(MAX_HOPS + 2)} :
        /\ s[1] = Target
        /\ \A i, j \in DOMAIN s : i # j => s[i] # s[j]
        /\ Last(s) \in Pegged
        /\ \A i \in 1..(Len(s) - 1) :
              /\ s[i] \notin Pegged
              /\ \E k \in DOMAIN GetPair(s[i]) : GetPair(s[i])[k].next = s[i + 1] }

\* Every route dfs produces is such a path, made of the pairs get_pair
\* served in the order they chain, and closed by the pegged hop of its
\* last token (spec section 4.5: paths of bounded length to a pegged
\* asset, pruning visited tokens).
RoutesSound ==
    result = "done" /\ Target \notin Pegged =>
        \A i \in DOMAIN routes :
            LET r == routes[i] IN
            /\ Len(r) >= 2
            /\ RouteTokens(r) \in ReferencePaths
            /\ \A j \in 1..(Len(r) - 1) :
                  \E k \in DOMAIN GetPair(r[j].in_token) : GetPair(r[j].in_token)[k] = r[j]
            /\ Last(r) = GetPeggedNextHop(Last(RouteTokens(r)))

\* Every such path is found (spec section 4.5: "listing every swap path").
RoutesComplete ==
    result = "done" =>
        \A s \in ReferencePaths : \E i \in DOMAIN routes : RouteTokens(routes[i]) = s

\* For a target that is not pegged, no route that survives the liquidity
\* filter carries a pegged rate computed from an empty input reserve (the
\* f64 division by zero that `as u32` turns into u32::MAX or 0): the filter,
\* run after dfs, drops it. (A pegged target's hop is returned unfiltered,
\* as spec 4.5 step 1 says.)
PeggedRateFinite ==
    Target \notin Pegged =>
    \A i \in DOMAIN kept :
        Last(kept[i]).src = "pegged" => TrueInOut(Last(kept[i]))[1] > 0

\* The pegged hop's rate is round(out / in * 10^6) of the pair's reserves
\* (spec section 8 item 7), wherever that value fits the u32 field, in
\* every TokenContext fetch_uniswap_path returns.
PeggedRateExact ==
    result = "done" =>
    \A i \in DOMAIN kept :
        LET p == Last(kept[i])
            io == TrueInOut(p)
        IN  p.src = "pegged" /\ io[1] > 0 /\ ~LessRate(U32Max, IdealRate(io[1], io[2])) =>
                p.rate = IdealRate(io[1], io[2])

\* the unpegged tokens within n pairs of the target along get_pair's lists
Reach[n \in 0..MAX_HOPS] ==
    IF n = 0 THEN {Target}
    ELSE LET R == Reach[n - 1]
         IN  R \cup (UNION {ToSet([k \in DOMAIN GetPair(t) |-> GetPair(t)[k].next]) : t \in R} \ Pegged)

\* get_all_hops fetches the pair list of every unpegged token it can reach
\* in at most MAX_HOPS hops (the `hop > MAX_HOPS` cut-off), whichever
\* branch reaches it first.
HopTableComplete ==
    result = "done" /\ Target \notin Pegged =>
        \A t \in Reach[MAX_HOPS] : t \in DOMAIN hops

\* fetch_uniswap_path never panics on an endpoint that answers: the expect
\* in get_pegged_next_hop reports an RPC error, and the unwraps of the
\* reserve parse and decode assume the endpoint's strings fit them.
FindPathNoPanic == result # "panic"

=============================================================================
