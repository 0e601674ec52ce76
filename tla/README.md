# TLA+ models of ityfuzz's flash-loan, corpus set-up and path discovery

This directory holds TLA+ models of the parts of ityfuzz (`src/`) that decide
what the fuzzer starts from and how it values a transaction. It also holds the
TLC configurations that check them. Every module is written from the Rust
source. Definitions modelled from `spec.md`, because their code is not under
`src/`, are marked `spec_modelled` in `PROJECT.json`.

## 1. Inventory

### Components

| Component | Source | State | Operations |
|---|---|---|---|
| Flash-loan middleware | `src/src/evm/onchain/flashloan.rs` | `known_addresses`, `erc20_address`, `pair_address`; the shared oracle (`Rc<RefCell<IERC20OracleFlashloan>>`) with its tokens and pair reserve slots; `FlashloanData` (`owed`, `earned`, `oracle_recheck_balance`, `oracle_recheck_reserve`) in each EVM state | `on_contract_insertion`, `on_pair_insertion`, `register_borrow_txn`, `analyze_call`, `on_step`, `FlashloanData::new` |
| Corpus initializer | `src/src/evm/corpus_initializer.rs` | callers and balances, code per address, address directory, `ABIMap`, per-contract ABI, `hash_to_address`, the tx corpus, the infant-state corpus | `initialize` → `setup_default_callers`, `setup_contract_callers`, `init_cheatcode_contract`, `initialize_contract`, `initialize_corpus` (ABI recovery, `handle_contract_insertion!`, blacklist, `add_abi`) |
| Off-chain pair cache | `src/src/evm/onchain/offchain.rs` | `pair_cache`, `reserves_cache`, `balance_cache`, the `v2_pairs` HashSet | `initialize`, `build_cache` (seven static probes), `build_pair_cache`, `get_pair`, `fetch_reserve`, `get_token_balance` |
| Uniswap path discovery | `src/src/evm/tokens/uniswap.rs` | none of its own: recursive search over `get_pair` | `get_all_hops`, `dfs`, `find_path_subgraph`, the peg-rate calculation |
| Typed-bug oracle | `src/src/evm/oracles/typed_bug.rs` | the post state's `typed_bug` map | `oracle` (bug ids from a hash shifted by the bug index) |
| Move entry | `src/core/src/move/mod.rs` | none | module declarations only |

### How they interact

- The initializer deploys the loader's contracts and recovers missing ABIs.
  For each contract it then runs `handle_contract_insertion!`, which calls the
  middleware's `on_contract_insertion`. For a token it queues a Borrow input
  (`register_borrow_txn`). For a pair it runs `on_pair_insertion`, which finds
  the reserve slot with a static call on the host.
- During fuzzing the executor runs `analyze_call` on each input and
  `on_step` on each interpreter step. It then hands the post state to the
  flash-loan oracle. The oracle holds its `RefCell` borrow while it runs VM
  code, and that VM code can insert contracts again. The comment at
  `flashloan.rs:231` names this re-entrancy.
- `OffChainConfig` offers the same `ChainConfig` queries (`get_pair`,
  `fetch_reserve`) from pairs given locally. `uniswap.rs` builds a token's
  liquidation paths from the live endpoint, `OnChainConfig`, which is not
  under `src/`; no code under `src/` hands it an `OffChainConfig`.

### Hard behaviours

- **Interleavings.** Insertions happen in every phase: the initializer runs
  while idle, a CREATE runs during execution, and the oracle's VM calls run
  during oracle evaluation. Only some of the oracle borrows are guarded.
- **Ordering.** The ledger is credited before a call's outcome is known.
- **Partial failure.** A deployment can fail and the loop continues. A
  `build_cache` error stops `initialize` part-way through a HashSet of
  arbitrary order.
- **Numeric edges.** `sigs.len() / 30` is integer division. Short return
  data is indexed past its end. `as u32` saturates in the peg rate. A 64-bit
  shift loses bits in the typed-bug id. Decimal reserve strings are parsed in
  base 16.

The hazards are listed one per line, at their source line, in
`PROJECT.json`.

## 2. Modules

### `Flashloan.tla` (flashloan.rs, with `handle_contract_insertion!`)

**State.**
- Classification: `known_addresses`, `erc20_address`, `pair_address`.
- The oracle's registrations: `oracle_tokens`, and `oracle_slots` (one slot
  per pair).
- `borrow_txns`: the Borrow inputs queued.
- `flashloan_data`: the ledger record.
- `phase`: `idle`, `exec` or `oracle`.
- `panicked`: a `borrow_mut` failed.
- Ghost variables record what really happened: `received`, and
  `dirty_tokens` and `dirty_pairs` (what a step may have changed).

**Actions.**
- `InsertContract(a)` is one `handle_contract_insertion!`, in any phase. It is
  made of `OnContractInsertion`, then `RegisterBorrowTxn`, then
  `OnPairInsertion`, in the macro's order.
- `BeginTxn(input)` is `analyze_call` on an ABI or Borrow input.
- `Step(...)` is `on_step` on one SSTORE or call-family opcode, together
  with what the opcode really does.
- `EndTxn` and `OracleDone` are the oracle's evaluation, which drains the
  recheck sets.

**Abstractions.** Values are small naturals, multiplied by `Scale` (the
`scale!()` of 10^6) where the code multiplies. A contract's ABI is its set of
function names. `ReserveLayout[p]` gives the slot that `getReserves` reads and
how many slots it reads. Callers in `ContractCallers` have the revert stub as
their code, so a call to them fails.

### `CorpusInitializer.tla` (corpus_initializer.rs)

**Control.** `initialize` is a program counter over its phases, one action
per function. The deployment and corpus loops are one action per contract.

**Loader.** The loader is a sequence of records: address, whether the code
is already deployed, the ABI, the bytecode's selectors, and what Heimdall
would return.

**Nondeterminism.**
- `DeployContract(ok)` chooses whether `executor.deploy` succeeds.
- `InitializeCorpusContract(hres, caller)` chooses whether Heimdall answers,
  and which caller `get_rand_caller` returns.

**Composition.** The middleware is shared with `Flashloan.tla` through
`FL == INSTANCE Flashloan WITH ...`. Its classification variables are real
variables here. Its ledger, phase and counters are fixed to their idle
values, because the initializer runs before any transaction.
`InitializeCorpusContract` uses `FL!HandleContractInsertion` itself, so the
composed model runs the very classification code that `Flashloan.tla`
checks.

### `OffChain.tla` (offchain.rs)

**State.** `todo` holds the pairs not yet built. The three caches are kept
as functions. `result` is `running`, `ok`, `err` or `panic`.

**Actions.**
- `Initialize` picks any pair in `todo`, because HashSet order is arbitrary.
  It also picks the answer of each of the seven probes: `ok`, `revert`, or
  `short`, meaning success with less data than the decoder indexes.
- `BuildCache` is the whole of `build_cache`. `FirstFailure` finds the probe
  that stops it, and `CommitPair` is the writes at its end.
- `GetPair`, `FetchReserve` and `GetTokenBalance` are the `ChainConfig`
  queries the cache serves.


### `UniswapPath.tla` (uniswap.rs)

**State.**
- Init chooses the endpoint's answers: `graph` (each token's `get_pair`
  list, in order) and `reserves`.
- `hops`, `routes` and `kept` are the results of `find_path_subgraph`,
  the function `fetch_uniswap_path` calls before it builds the
  `TokenContext`.
- `result` is `init`, `done` or `panic`.

**The algorithm, as operators.**
- `GetPair` is `get_pair`: nothing for WETH, and a list longer than the cap
  is cut to pairs whose `next` is pegged.
- `GetAllHops` is `get_all_hops`, a RECURSIVE fold over the pair list that
  threads the shared `known` set through the branches. Sub-tables are merged
  with `@@`, as `HashMap::extend` merges them.
- `Dfs` is `dfs`, a fold that threads `routes` and the `visited` set.
- `GetPeggedNextHop` closes a route: `pegged_weth`, the first pair, or
  `panic` when the list is empty (the `expect` fails) or the pair's
  reserves do not parse (the `unwrap` fails).
- `Significant` and `AddReserveInfo` are the liquidity filter.

**Conversions, modelled by what they do.**
- `DecAsHex` reads a reserve's decimal string in base 16, as
  `from_str_radix(.., 16)` does.
- A reserve is a natural or the model value `Wide`. `Wide` stands for a
  reserve of 8·10^31 or more: its 32 (or more) decimal digits, read as
  hex, exceed `i128::MAX`, so `ParseOk` fails and the `unwrap` panics. The model checks
  this in `get_pegged_next_hop` and in the filter, where every hop of every
  route is parsed.
- `RateOf` is `(out / in * 1e6).round() as u32`: inf saturates, NaN is 0,
  and values above `u32::MAX` saturate. Rates are kept as
  `<<high, low>>` in base 10^6, because TLC's integers are 32-bit.
  `ScaledFraction` rounds half up, as `f64::round` does. The model takes
  the f64 quotient as exact; for the model's reserves the f64 error is far
  below the rounding step.

- `Digits` is the length of the decimal string `fetch_reserve` returns
  (spec section 6; the endpoint is not under `src/`).
  `Decodes` is the `hex::decode(..).unwrap()` that `fetch_uniswap_path`
  applies to both reserve strings of every kept `v2` and `pegged` hop. It
  fails on an odd-length string.

**Action.** `FetchUniswapPath` is the whole of `fetch_uniswap_path` in one
step, because it is one call with no interleaving. It runs
`FindPathSubgraph` (an operator giving the hop table, the routes, the kept
routes and whether an `expect` or `unwrap` failed), then decodes the kept
hops. For a pegged target, `find_path_subgraph` returns the one pegged hop
unfiltered (`uniswap.rs:340-343`); otherwise the kept routes are those that
pass the liquidity filter. `Done` is the stutter after it.

**Reference definitions.**
- `ReferencePaths` is the set of simple paths from the target to a pegged
  token, of at most `MAX_HOPS + 1` pairs, along the lists `GetPair`
  serves.
- `Reach` is the set of tokens within `MAX_HOPS` pairs.
- `IdealRate` is spec section 8 item 7's rate.

The code's routes can have three swap pairs before the pegged hop (tokens at
depths 0, 1 and 2 are expanded), while spec section 4.5 says "length ≤ 2".
The reference follows the code.

## 3. Runs

| Run | Expect | What it shows |
|---|---|---|
| `flashloan` | pass | Every ERC-20 is registered with the oracle and has a Borrow input, no other contract has one, and every registered reserve slot belongs to a pair (`ClassificationConsistent`). Every value delivered to a caller is credited to `earned` (`EarnedCoversPayments`). While a transaction runs, every classified token it called and every standard-layout pair whose reserve slot it wrote is queued for the oracle (`DirtyStateRechecked`). No step before the oracle's evaluation drops a re-check flag (`RecheckFlagsKept`, an action property). 154k states. |
| `flashloan_panic` | violation | A pair inserted while the oracle is borrowed passes the guarded `try_borrow_mut` and then panics on the unguarded `borrow_mut` in `on_pair_insertion`. |
| `flashloan_earned` | violation | A CALL with value to a contract caller is credited to `earned`, but the callee's `0xfd 0x00` stub reverts, so nothing was received. |
| `corpus_init` | pass | A failed deployment skips only its own contract: every contract found already on chain is installed once the loop ends (`DeployFailureIsolated`). Seeds are exactly the seedable functions of the ABI each contract ends up with (`SeedsMatchAbis`). Classification uses that recovered ABI (`ClassificationFollowsAbi`). Every non-constructor function of a non-blacklisted contract is indexed in `hash_to_address` (`HashToAddressComplete`). This holds over all deploy and Heimdall outcomes. |
| `offchain` | pass | For any pair order and any probe failure, a pair is in all three caches or in none, with the reserves it reported (`CachedPairsComplete`). |
| `offchain_next` | violation | The token1-side `get_pair` entry has `next` = token1 itself. |
| `offchain_attempt` | violation | The first pair whose `build_cache` fails ends `initialize` through `?`. The pairs after it in the HashSet's order are never probed or cached. Spec 4.4 says every configured pair is probed, and spec section 7 says a failure drops only the offending pair (`EveryPairAttempted`). |
| `offchain_panic` | violation | A probe that succeeds with short data either crashes `initialize` or, for `balanceOf`, is cached as balance 0. Spec section 7 wants such a pair left unclassified, without a crash (`ShortProbeRejected`). |
| `uniswap_paths` | pass | The run covers all 10288 endpoint answers of the three families below. Every emitted route is a simple path to a pegged token through unpegged tokens. It uses `get_pair`'s entries in chain order, has at most `MAX_HOPS + 1` pairs, and is closed by `get_pegged_next_hop` of its last token (`RoutesSound`). For the unpegged target, the liquidity filter drops each route whose pegged rate came from a zero input reserve (`PeggedRateFinite`). A pegged target's single hop is returned without the filter, as spec 4.5 step 1 says, so its rate may be `u32::MAX` or 0; the run's target is unpegged. Every hop is well-formed, and its rate is a pair of naturals (`TypeOK`). |
| `uniswap_complete` | violation | After T-A-B-WETH, the path T-B-WETH is never emitted, because `dfs`'s `visited` is never unwound. |
| `uniswap_rate_exact` | violation | In a run that returns its `TokenContext` (`result = "done"`), reserves (10, 1000) give the rate 3906 instead of 10000, because the decimal strings are read in base 16. Both strings have an even number of digits, so `hex::decode` accepts them. |
| `uniswap_peg_panic` | violation | `fetch_uniswap_path` panics on answers a working endpoint gives (`FindPathNoPanic`), in three ways. A `Wide` reserve read as hex overflows the `i128` at the `unwrap`; TLC reports this one first. A pegged token with three pairs, none to a pegged token, has its list cut to nothing, and the `expect` fails; TLC finds it when `Instances` is `PanicInstances`. A kept hop with a reserve of odd digit count (1, 3) fails `hex::decode`; TLC finds it when `Instances` is `RateInstances` over reserves {3, 1000}. |

Each property of a passing run has a mutant in `PROJECT.json`: a plausible
bug in the mapped definition that TLC finds under the same configuration.

### Bounds and why they suffice

**`MC_Flashloan`.** The model has four contracts:
- a token, `tok`;
- a pair, `pr`;
- `lp`, which is both a token and a pair;
- a plain contract, `misc`.

It has one EOA caller and one contract caller, values {0, 1}, and the Borrow
value 10. It runs up to 2 transactions of up to 2 steps each. Every
classification outcome occurs, and an insertion can land in each phase.
Within one transaction a step can both pay a caller and write a reserve.

**`MC_CorpusInitializer`.** The model has four contracts:
- `a1`: undeployed, with a full ABI including a constructor, a payable
  function, `!receive!`, `setUp`, a harness function and a view function.
- `a2`: a deployed, blacklisted token with an empty ABI that Heimdall
  recovers.
- `a3`: a deployed token-and-pair.
- `a4`: a contract with no selectors.

It also has two default callers, two contract callers, and a cheatcode
address.

**`MC_OffChain`.** The model has three pairs over WETH, USDT and TKN, arranged
so that every token is token0 of one pair and token1 of another. It takes
every answer of every probe.

**`MC_UniswapPath`.** Every uniswap run uses one set of endpoint answers,
`MCInstances`. Tokens are T, A, B, C, USDT (`U`) and WETH (`W`); USDT and
WETH are pegged. The set is the union of three families:
- **Paths.** Target T, unpegged A, B and C, and WETH; USDT has no pairs. The endpoint serves any
  subset of the pairs T-A, T-B, T-C, A-B, B-C, C-W and B-W, and each token's
  list comes in any order. That gives 5471 graphs.
  - They include a chain of three unpegged hops, so the depth cut-off
    fires.
  - They include lists of three pairs. `PairListCap` is 2 in place of the
    code's 10, so the `retain` branch fires with three tokens instead of
    eleven.
  - They include every order in which `visited` and `known` can be filled
    first through a dead end.
- **Rates.** T, the pegged USDT and WETH, and the pairs T/USDT and
  USDT/WETH. Each reserve takes a value in {0, 1, 3, 10, 1000, 5000,
  `Wide`}, giving 4802 answers. The values cover:
  - empty reserves (inf and NaN);
  - ratios that saturate u32;
  - ratios with a repeating decimal;
  - multi-digit values, whose hex reading differs from their value, of
    odd (1, 3) and even (10, 1000, 5000) digit count;
  - a reserve too large to parse.
- **Panic.** USDT has pairs with T, A and B, and nothing else.

Decimals are 0, so `add_reserve_info` requires both reserves to be positive.

### Findings not run

Each of these properties is stated in its module. TLC finds it violated
when it is added as an INVARIANT to the named configuration. The project
keeps its violation runs for the findings above.

| Property | Configuration | What TLC shows |
|---|---|---|
| `DirtyStateRechecked` | `MC_Flashloan.cfg` with `ReserveLayout <- ShiftedLayout` | A pair that keeps its reserves in slot 9 is written, but `on_step`'s hard-coded key 8 never queues it for the recheck (`flashloan.rs:338`). |
| `SeedsTargetCode` | `MC_CorpusInitializer.cfg` | A contract whose deployment failed is still seeded (`corpus_initializer.rs:230`; spec 4.1 step 5). |
| `HeimdallOnlyWhenNeeded` | `MC_CorpusInitializer.cfg` | Heimdall is called with nothing unknown: the ABIMap is empty and the test is `>= len / 30` (`corpus_initializer.rs:286`; spec section 8 item 2). |
| `HopTableComplete` | `MC_UniswapPath_complete.cfg` | C, first reached at depth 3 through T-A-B-C, is marked known before the depth test. It is then skipped through T-C, and its pairs are never fetched (`uniswap.rs:208`). |

### Fairness

No run checks liveness, so no fairness is assumed. Every modelled operation is
sequential code that ends:
- the loops of `initialize` and `initialize_corpus` range over the loader;
- `build_cache` runs over the configured pair set;
- `get_all_hops` and `dfs` run over a finite table;
- a transaction ends at its step bound, and the oracle's evaluation returns.

The re-check flags are reset only by the oracle, which is not under `src/`,
so a property that they are eventually reset would check that spec-modelled
step and nothing of the code. The only waits in this code are on I/O (RPC, Heimdall), which is not
modelled. A termination property there would hold by the shape of the
models, whatever the code does. `Done`, `Terminated` and `Returned` are the
terminal stutter steps of a run that has finished. Deadlock checking stays
on.

## 4. Further work

1. **An abstract ledger specification.** "Earned minus owed is the profit
   of the transaction". `Flashloan` would be shown to implement it by
   INSTANCE with a refinement mapping. The known divergence
   (`flashloan_earned`) would be stated as a guarded refinement.
2. **Executor composition.** Forked `FlashloanData` carried along with
   infant states, with the oracle as a separate actor, so that the
   re-entrant insertion is an interleaving rather than a phase.
3. **Path discovery over the off-chain cache.** `UniswapPath`'s `graph`
   would be taken from `OffChain`'s `pair_cache` (whose token1-side entries
   have `next` = the token itself, `offchain_next`). This matters only
   where a caller passes an `OffChainConfig`'s answers to the path search,
   which no code under `src/` does.

## 5. Not modelled

- `move/mod.rs` has no behaviour.
- The price conversion helpers of `flashloan.rs`
  (`calculate_usd_value*`, `unbound_tracker`) are dead code.
- **The typed-bug oracle** (`typed_bug.rs`) is stateless. It maps each entry
  of the post state's `typed_bug` map to the id
  `hash(bug_id, pc) << (8 + TYPED_BUG_BUG_IDX)`, where the hash is a 64-bit
  SipHash value. TLC can neither compute nor enumerate that hash. Two ids
  collide only when two hashes agree in their low `56 - TYPED_BUG_BUG_IDX`
  bits. Beyond the map there is no control to model.
- **The live endpoint.** `OnChainConfig::get_pair` and `fetch_reserve` are
  not under `src/`. `UniswapPath` takes their answers as Init's choice of
  `graph` and `reserves`. `PairData` is built as spec section 8 item 6
  states, and the reserves are decimal strings, as spec section 6 says and
  as `OffChainConfig::fetch_reserve` produces them.
- The `use_presets` and `print_txn_corpus` features are compiled out by
  default.
- Source maps, names, bytecode and build artifacts are pure bookkeeping,
  with no control.
- `get_weth`, `get_pegged_token` and `with_info` (uniswap.rs 117-302) are
  per-network address tables. The models take the network's pegged set and
  WETH as the constants `Pegged` and `Weth`.
- The RPC and Heimdall fetches are I/O. Their results are inputs of the
  models: `HasEndpoint`, and the loader's `heimdall` field.
