---------------------------- MODULE MC_OffChain ----------------------------
(* Three pairs over three tokens, p1 = WETH/USDT, p2 = USDT/TKN and
   p3 = TKN/WETH: every token is token0 of one pair and token1 of another, so
   each get_pair list has an entry for each side. *)
EXTENDS OffChain, TLC

CONSTANTS weth, usdt, tkn, p1, p2, p3

MCPairTokens == (p1 :> <<weth, usdt>>) @@ (p2 :> <<usdt, tkn>>) @@ (p3 :> <<tkn, weth>>)

MCReserves == (p1 :> <<1, 2>>) @@ (p2 :> <<3, 4>>) @@ (p3 :> <<5, 6>>)

MCBalance == [x \in {weth, usdt, tkn} \X {p1, p2, p3} |-> 1]
=============================================================================
