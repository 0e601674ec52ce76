------------------------ MODULE MC_CorpusInitializer ------------------------
(* A loader with four contracts:                                            *)
(*  1. a1, still to be deployed (its constructor may revert), with a full   *)
(*     ABI: constructor, plain, payable, !receive!, setUp, invariant_ and   *)
(*     a static function;                                                   *)
(*  2. a2, on chain without ABI, an ERC-20 by its selectors, blacklisted;   *)
(*  3. a3, on chain, an LP pair (ERC-20 and pair functions) with its ABI;   *)
(*  4. a4, on chain without ABI and without PUSH4 selectors (a proxy).      *)
EXTENDS CorpusInitializer

CONSTANTS a1, a2, a3, a4, d1, d2, k1, k2, cheat, deployer

Fn(n, ctor, static, payable) ==
    [name |-> n, ctor |-> ctor, static |-> static, payable |-> payable]

Plain(n) == Fn(n, FALSE, FALSE, FALSE)
TokenFns == {Plain(n) : n \in {"balanceOf", "transfer", "transferFrom", "approve"}}
PairFns  == {Plain(n) : n \in {"skim", "sync", "swap"}}
View(n)  == Fn(n, FALSE, TRUE, FALSE)

MCLoader ==
  << [addr |-> a1, code_deployed |-> FALSE,
      abi |-> {Fn("constructor", TRUE, FALSE, FALSE), Plain("f"),
               Fn("deposit", FALSE, FALSE, TRUE), Fn("!receive!", FALSE, FALSE, TRUE),
               Plain("setUp"), Plain("invariant_balance"), View("owner")},
      sigs |-> {}, heimdall |-> {}],
     [addr |-> a2, code_deployed |-> TRUE, abi |-> {},
      sigs |-> {"balanceOf", "transfer", "transferFrom", "approve"},
      heimdall |-> TokenFns \cup {View("totalSupply")}],
     [addr |-> a3, code_deployed |-> TRUE,
      abi |-> TokenFns \cup PairFns \cup {View("getReserves")},
      sigs |-> {}, heimdall |-> {}],
     [addr |-> a4, code_deployed |-> TRUE, abi |-> {},
      sigs |-> {}, heimdall |-> {Plain("f")}] >>

MCReserveLayout == [a \in {a1, a2, a3, a4} |-> [slot |-> 8, reads |-> 3]]
=============================================================================
