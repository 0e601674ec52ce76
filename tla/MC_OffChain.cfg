CONSTANTS
    weth = weth
    usdt = usdt
    tkn = tkn
    p1 = p1
    p2 = p2
    p3 = p3
    V2Pairs = {p1, p2, p3}
    Tokens = {weth, usdt, tkn}
    PairTokens <- MCPairTokens
    Reserves <- MCReserves
    Balance <- MCBalance
    HasCode = {weth, usdt, tkn, p1, p2, p3}
    Pegged = {weth}
SPECIFICATION Spec
INVARIANTS
    TypeOK
    CachedPairsComplete
