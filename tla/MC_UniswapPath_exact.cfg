CONSTANTS
    T = T
    A = A
    B = B
    C = C
    U = U
    W = W
    Wide = Wide
    Tokens = {T, A, B, C, U, W}
    Pegged = {U, W}
    Weth = W
    Target = T
    Rank <- MCRank
    Decimals <- MCDecimals
    PairListCap = 2
    Instances <- MCInstances
SPECIFICATION Spec
INVARIANTS
    PeggedRateExact
