---------------------------- MODULE MC_Flashloan ----------------------------
(* Instantiation of Flashloan for TLC: a plain ERC-20 (tok), a plain        *)
(* UniswapV2 pair (pr), an LP pair that is also an ERC-20 (lp, the shape of *)
(* UniswapV2Pair itself) and an unrelated contract (misc); one default      *)
(* caller (eoa) and one contract caller carrying the revert stub (cc).      *)
EXTENDS Flashloan

CONSTANTS tok, pr, lp, misc, eoa, cc

MCAbi ==
    [a \in Contracts |->
        CASE a = tok -> TokenSigs \cup {"name"}
          [] a = pr  -> PairSigs \cup {"getReserves"}
          [] a = lp  -> TokenSigs \cup PairSigs
          [] OTHER   -> {"deposit"}]

\* UniswapV2Pair layout: getReserves() reads slot 8 three times
StandardLayout == [a \in Contracts |-> [slot |-> 8, reads |-> 3]]

\* a fork whose reserves live in slot 9 (one extra storage variable)
ShiftedLayout ==
    [a \in Contracts |-> [slot |-> IF a = pr THEN 9 ELSE 8, reads |-> 3]]
=============================================================================
