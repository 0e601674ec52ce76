--------------------------- MODULE MC_UniswapPath ---------------------------
(* One instance of the path search over three families of endpoint answers.
   Paths: target T, unpegged A, B and C; the endpoint serves any subset of
   seven pairs towards WETH, each token's list in any order. Among them are
   the graphs where a token is first reached too deep (T-A-B-C with
   T-C-WETH) and where it is first reached through a dead end (T-A-B with
   T-B-WETH).
   Rates: pairs T/USDT and USDT/WETH with every combination of reserves
   from a small set, Wide included.
   Panic: the pegged USDT has pairs to T, A and B, none to a pegged token. *)
EXTENDS UniswapPath

CONSTANTS T, A, B, C, U, W

\* the neighbours of t in the pair set S
Nbr(S, t) == {x \in Tokens : {t, x} \in S}

RECURSIVE GraphsOver(_, _, _)
\* every assignment of an ordered neighbour list to the tokens of ts
GraphsOver(S, ts, fixed) ==
    IF ts = {} THEN {[x \in fixed |-> SetToSeq(Nbr(S, x))]}
    ELSE LET t == CHOOSE t \in ts : TRUE
         IN  {g @@ (t :> o) : g \in GraphsOver(S, ts \ {t}, fixed),
                              o \in SetToSeqs(Nbr(S, t))}

PathPairs == {{T, A}, {T, B}, {T, C}, {A, B}, {B, C}, {C, W}, {B, W}}

RatePairs == {{T, U}, {U, W}}

PanicPairs == {{T, U}, {U, A}, {U, B}}

AllPairs == PathPairs \cup RatePairs \cup PanicPairs

\* every pair holds 1000 of each token unless an instance says otherwise
Flat == [e \in AllPairs |-> <<1000, 1000>>]

PathInstances ==
    {[graph |-> g, reserves |-> Flat] :
        g \in UNION {GraphsOver(S, {T, A, B, C}, {U, W}) : S \in SUBSET PathPairs}}

ReserveValues == {0, 1, 3, 10, 1000, 5000, Wide}

RateInstances ==
    {[graph |-> g, reserves |-> r @@ Flat] :
        g \in GraphsOver(RatePairs, {U}, {T, A, B, C, W}),
        r \in [RatePairs -> ReserveValues \X ReserveValues]}

PanicInstances ==
    {[graph |-> g, reserves |-> Flat] :
        g \in UNION {GraphsOver(S, {T, A, B, U}, {C, W}) : S \in SUBSET PanicPairs}}

MCInstances == PathInstances \cup RateInstances \cup PanicInstances

MCRank == [x \in {T, A, B, C, U, W} |->
             CASE x = T -> 1 [] x = A -> 2 [] x = B -> 3
               [] x = C -> 4 [] x = U -> 5 [] x = W -> 6]

MCDecimals == [x \in {T, A, B, C, U, W} |-> 0]
=============================================================================
