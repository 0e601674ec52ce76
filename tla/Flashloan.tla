----------------------------- MODULE Flashloan -----------------------------
(***************************************************************************)
(* The flash-loan middleware of src/src/evm/onchain/flashloan.rs and the   *)
(* contract-insertion hook that drives it (handle_contract_insertion! in   *)
(* src/src/evm/corpus_initializer.rs).                                     *)
(*                                                                         *)
(* The middleware classifies every inserted contract as ERC-20 and/or      *)
(* pair, registers tokens and reserve slots with the shared flash-loan     *)
(* oracle (an Rc<RefCell<IERC20OracleFlashloan>>), and keeps the value     *)
(* ledger FlashloanData of the current EVM state: owed (what the fuzzer    *)
(* paid in), earned (what its callers were paid) and the sets of tokens    *)
(* and pairs the oracle must re-value after the transaction.               *)
(*                                                                         *)
(* A transaction goes idle -> exec -> oracle -> idle: analyze_call runs    *)
(* for the input, on_step runs for each interpreter step, then the oracle  *)
(* evaluates the post state while holding its own RefCell borrow.          *)
(* Contracts can be inserted in every phase: by the initializer (idle), by *)
(* a CREATE inside the transaction (exec), and by VM execution the oracle  *)
(* performs while it is borrowed (oracle), which is the re-entrancy the    *)
(* comment at flashloan.rs:231 guards against.                             *)
(***************************************************************************)
EXTENDS Integers, FiniteSets

CONSTANTS
    Contracts,        \* addresses of contracts that may be inserted
    Callers,          \* the fuzzer's synthetic callers (state.has_caller)
    ContractCallers,  \* the callers whose code is the revert stub [0xfd, 0x00]
    Abi,              \* Abi[a]: the function names of contract a's ABI
    ReserveLayout,    \* ReserveLayout[a]: [slot, reads] of a's getReserves()
    Slots,            \* storage keys an SSTORE may write
    Values,           \* call and transaction values (wei, small naturals)
    BorrowValue,      \* txn_value of the synthetic Borrow input
    HasEndpoint,      \* self.endpoint.is_some()
    MaxTxns,          \* bound on transactions executed
    MaxSteps,         \* bound on interpreter steps per transaction
    NoSlot            \* model value: no reserve slot registered

ASSUME ContractCallers \subseteq Callers
ASSUME Contracts \cap Callers = {}
ASSUME NoSlot \notin Slots

\* scale!() : every value is multiplied by 10^6 before it enters the ledger
Scale == 1000000

\* the reserve-packed storage slot on_step compares SSTORE keys with
PairReserveKey == 8

TokenSigs == {"balanceOf", "transfer", "transferFrom", "approve"}
PairSigs  == {"skim", "sync", "swap"}

Opcodes == {"SSTORE", "CALL", "CALLCODE", "DELEGATECALL", "STATICCALL"}

VARIABLES
    known_addresses,    \* Flashloan.known_addresses
    erc20_address,      \* Flashloan.erc20_address
    pair_address,       \* Flashloan.pair_address
    oracle_tokens,      \* tokens registered with the flash-loan oracle
    oracle_slots,       \* reserve slot registered with the oracle per pair
    borrow_txns,        \* tokens a synthetic Borrow input was queued for
    flashloan_data,     \* FlashloanData of the current EVM state
    phase,              \* "idle" | "exec" | "oracle"
    panicked,           \* a RefCell borrow_mut panicked
    txns, steps,        \* bound counters
    \* history of what really happened, for the properties
    received,           \* value actually delivered to callers
    dirty_tokens,       \* tokens whose balances a CALL may have changed
    dirty_pairs         \* pairs whose reserve slot was written

ledger_vars == <<flashloan_data>>
class_vars  == <<known_addresses, erc20_address, pair_address,
                 oracle_tokens, oracle_slots, borrow_txns>>
ghost_vars  == <<received, dirty_tokens, dirty_pairs>>
vars == <<class_vars, ledger_vars, phase, panicked, txns, steps, ghost_vars>>

FlashloanDataNew ==
    [owed |-> 0, earned |-> 0,
     oracle_recheck_reserve |-> {}, oracle_recheck_balance |-> {}]

TypeOK ==
    /\ known_addresses \subseteq Contracts
    /\ erc20_address \subseteq Contracts
    /\ pair_address \subseteq Contracts
    /\ oracle_tokens \subseteq Contracts
    /\ oracle_slots \in [Contracts -> Slots \cup {NoSlot}]
    /\ borrow_txns \subseteq Contracts
    /\ flashloan_data \in [owed : Nat, earned : Nat,
                           oracle_recheck_reserve : SUBSET Contracts,
                           oracle_recheck_balance : SUBSET Contracts]
    /\ phase \in {"idle", "exec", "oracle"}
    /\ panicked \in BOOLEAN
    /\ txns \in 0..MaxTxns /\ steps \in 0..MaxSteps
    /\ received \in Nat

Init ==
    /\ known_addresses = {} /\ erc20_address = {} /\ pair_address = {}
    /\ oracle_tokens = {}
    /\ oracle_slots = [a \in Contracts |-> NoSlot]
    /\ borrow_txns = {}
    /\ flashloan_data = FlashloanDataNew
    /\ phase = "idle" /\ panicked = FALSE
    /\ txns = 0 /\ steps = 0
    /\ received = 0 /\ dirty_tokens = {} /\ dirty_pairs = {}

(***************************************************************************)
(* Contract insertion                                                      *)
(***************************************************************************)

\* get_token_context: a TokenContext exists iff there is a chain endpoint
GetTokenContext(a) == HasEndpoint

\* try_borrow_mut() on the oracle fails while the oracle itself holds it
OracleBorrowed == phase = "oracle"

\* Mutant: the token is marked ERC-20 even when the oracle was busy
OnContractInsertionEagerErc20(a, names) ==
    LET token == TokenSigs \subseteq names /\ GetTokenContext(a)
    IN  /\ known_addresses' = known_addresses \cup {a}
        /\ oracle_tokens' = IF token /\ ~OracleBorrowed
                            THEN oracle_tokens \cup {a} ELSE oracle_tokens
        /\ erc20_address' = IF token THEN erc20_address \cup {a}
                                     ELSE erc20_address
        /\ pair_address' = IF PairSigs \subseteq names
                           THEN pair_address \cup {a} ELSE pair_address

\* on_contract_insertion: classify a fresh address as ERC-20 and/or pair.
\* The token is registered only if the oracle can be borrowed right now;
\* otherwise it stays unclassified for good (it is already known).
OnContractInsertion(a, names) ==
    LET token == /\ TokenSigs \subseteq names
                 /\ GetTokenContext(a)
                 /\ ~OracleBorrowed
    IN  /\ known_addresses' = known_addresses \cup {a}
        /\ oracle_tokens' = IF token THEN oracle_tokens \cup {a}
                                     ELSE oracle_tokens
        /\ erc20_address' = IF token THEN erc20_address \cup {a}
                                     ELSE erc20_address
        /\ pair_address' = IF PairSigs \subseteq names
                           THEN pair_address \cup {a} ELSE pair_address

\* on_pair_insertion: getReserves() as a static call; if it read exactly
\* three slots, the first is registered with the oracle via borrow_mut(),
\* which panics when the oracle is already borrowed.
OnPairInsertion(p) ==
    IF ReserveLayout[p].reads = 3
    THEN IF OracleBorrowed
         THEN /\ panicked' = TRUE
              /\ UNCHANGED oracle_slots
         ELSE /\ oracle_slots' = [oracle_slots EXCEPT ![p] = ReserveLayout[p].slot]
              /\ UNCHANGED panicked
    ELSE UNCHANGED <<oracle_slots, panicked>>

\* register_borrow_txn: queue a Borrow input of BorrowValue on the token
RegisterBorrowTxn(t) == borrow_txns' = borrow_txns \cup {t}

\* handle_contract_insertion!: the whole macro, for the function names of
\* the contract's ABI. A known address is the early return of
\* on_contract_insertion and changes nothing.
HandleContractInsertion(a, names) ==
    IF a \in known_addresses
    THEN UNCHANGED <<class_vars, panicked>>
    ELSE /\ OnContractInsertion(a, names)
         /\ IF a \in erc20_address' THEN RegisterBorrowTxn(a)
                                    ELSE UNCHANGED borrow_txns
         /\ IF a \in pair_address' THEN OnPairInsertion(a)
                                   ELSE UNCHANGED <<oracle_slots, panicked>>

\* a contract is deployed (by the initializer, a CREATE in the transaction,
\* or VM execution inside the oracle) and handed to the middleware
InsertContract(a) ==
    /\ ~panicked
    /\ HandleContractInsertion(a, Abi[a])
    /\ UNCHANGED <<ledger_vars, phase, txns, steps, ghost_vars>>

(***************************************************************************)
(* Transaction execution                                                   *)
(***************************************************************************)

\* Mutant: the value is subtracted (the header comment's "reduce owed")
AnalyzeCallReduce(input) ==
    flashloan_data' =
        [flashloan_data EXCEPT
            !.owed = @ - input.value * Scale,
            !.oracle_recheck_balance =
                @ \cup ({input.contract} \cap erc20_address),
            !.oracle_recheck_reserve =
                @ \cup ({input.contract} \cap pair_address)]

\* analyze_call: txn_value (if any) enters owed; a token or pair target is
\* scheduled for re-check
AnalyzeCall(input) ==
    flashloan_data' =
        [flashloan_data EXCEPT
            !.owed = @ + input.value * Scale,
            !.oracle_recheck_balance =
                @ \cup ({input.contract} \cap erc20_address),
            !.oracle_recheck_reserve =
                @ \cup ({input.contract} \cap pair_address)]

\* the inputs the corpus holds: ABI calls to deployed contracts (txn_value
\* None is value 0) and the queued Borrow inputs
Inputs ==
    [type : {"ABI"}, contract : known_addresses, value : Values]
    \cup [type : {"Borrow"}, contract : borrow_txns, value : {BorrowValue}]

\* the executor starts a transaction and runs analyze_call on its input
BeginTxn(input) ==
    /\ ~panicked
    /\ phase = "idle"
    /\ txns < MaxTxns
    /\ AnalyzeCall(input)
    /\ phase' = "exec"
    /\ txns' = txns + 1
    /\ steps' = 0
    /\ dirty_tokens' = {} /\ dirty_pairs' = {}
    /\ UNCHANGED <<class_vars, panicked, received>>

\* Mutant: CALL is dropped from the first match arm
HandledCallNoCall(op) == op \in {"STATICCALL"}

\* the first match of on_step: 0xf1 | 0xfa go on, everything else returns
HandledCall(op) == op \in {"CALL", "STATICCALL"}

\* value_transfer: stack[2] for 0xf1 | 0xf2, zero otherwise
ValueTransfer(op, value) == IF op \in {"CALL", "CALLCODE"} THEN value ELSE 0

\* Mutant: the ERC-20 callee is not flagged for a balance re-check
OnStepNoRecheck(op, self, target, value, key) ==
    IF op = "SSTORE"
    THEN flashloan_data' =
            IF self \in pair_address /\ key = PairReserveKey
            THEN [flashloan_data EXCEPT !.oracle_recheck_reserve = @ \cup {self}]
            ELSE flashloan_data
    ELSE IF HandledCall(op)
    THEN LET v == ValueTransfer(op, value) IN
         flashloan_data' =
            [flashloan_data EXCEPT
                !.earned = IF v > 0 /\ target \in Callers THEN @ + v * Scale
                                                          ELSE @]
    ELSE UNCHANGED flashloan_data

\* Mutant: an SSTORE into the reserve slot replaces the pair re-check set
OnStepResetReserve(op, self, target, value, key) ==
    IF op = "SSTORE"
    THEN flashloan_data' =
            IF self \in pair_address /\ key = PairReserveKey
            THEN [flashloan_data EXCEPT !.oracle_recheck_reserve = {self}]
            ELSE flashloan_data
    ELSE IF HandledCall(op)
    THEN LET v == ValueTransfer(op, value) IN
         flashloan_data' =
            [flashloan_data EXCEPT
                !.earned = IF v > 0 /\ target \in Callers THEN @ + v * Scale
                                                          ELSE @,
                !.oracle_recheck_balance =
                    IF target \in erc20_address THEN @ \cup {target} ELSE @]
    ELSE UNCHANGED flashloan_data

\* on_step: SSTORE of slot 8 inside a known pair flags the pair; CALL and
\* STATICCALL credit earned for value sent to a caller and flag an ERC-20
\* callee; every other opcode (CALLCODE and DELEGATECALL included) returns
OnStep(op, self, target, value, key) ==
    IF op = "SSTORE"
    THEN flashloan_data' =
            IF self \in pair_address /\ key = PairReserveKey
            THEN [flashloan_data EXCEPT !.oracle_recheck_reserve = @ \cup {self}]
            ELSE flashloan_data
    ELSE IF HandledCall(op)
    THEN LET v == ValueTransfer(op, value) IN
         flashloan_data' =
            [flashloan_data EXCEPT
                !.earned = IF v > 0 /\ target \in Callers THEN @ + v * Scale
                                                          ELSE @,
                !.oracle_recheck_balance =
                    IF target \in erc20_address THEN @ \cup {target} ELSE @]
    ELSE UNCHANGED flashloan_data

\* a call reverts: always into the revert stub of a contract caller,
\* possibly anywhere else (out of gas, insufficient balance, callee revert)
CallOutcomes(target) ==
    IF target \in ContractCallers THEN {FALSE} ELSE BOOLEAN

\* one interpreter step of the running transaction: the middleware hook,
\* then what the instruction really does to balances and storage
Step(op, self, target, value, key, ok) ==
    /\ ~panicked
    /\ phase = "exec"
    /\ steps < MaxSteps
    /\ OnStep(op, self, target, value, key)
    /\ steps' = steps + 1
    /\ received' = IF op = "CALL" /\ target \in Callers /\ ok
                   THEN received + value ELSE received
    /\ dirty_tokens' = IF op = "CALL" /\ ok /\ target \in Contracts
                       THEN dirty_tokens \cup {target} ELSE dirty_tokens
    /\ dirty_pairs' = IF op = "SSTORE" /\ key = ReserveLayout[self].slot
                      THEN dirty_pairs \cup {self} ELSE dirty_pairs
    /\ UNCHANGED <<class_vars, phase, panicked, txns>>

StepInputs ==
    { r \in [op : Opcodes, self : known_addresses,
             target : known_addresses \cup Callers, value : Values,
             key : Slots] :
        /\ r.op = "SSTORE" => r.target = r.self /\ r.value = 0
        /\ r.op # "SSTORE" => r.key = PairReserveKey
        /\ r.op \in {"DELEGATECALL", "STATICCALL"} => r.value = 0 }

\* the interpreter finishes; the oracle borrows itself and evaluates
EndTxn ==
    /\ ~panicked
    /\ phase = "exec"
    /\ phase' = "oracle"
    /\ UNCHANGED <<class_vars, ledger_vars, panicked, txns, steps, ghost_vars>>

\* the oracle has re-valued the flagged tokens and pairs and clears the
\* re-check sets; owed and earned stay with the state
OracleDone ==
    /\ ~panicked
    /\ phase = "oracle"
    /\ phase' = "idle"
    /\ flashloan_data' = [flashloan_data EXCEPT !.oracle_recheck_reserve = {},
                                                !.oracle_recheck_balance = {}]
    /\ UNCHANGED <<class_vars, panicked, txns, steps, ghost_vars>>

\* the fuzzer aborted, or the bounds are used up
Done ==
    /\ \/ panicked
       \/ /\ txns = MaxTxns /\ phase = "idle"
          /\ known_addresses = Contracts
    /\ UNCHANGED vars

Next ==
    \/ \E a \in Contracts \ known_addresses : InsertContract(a)
    \/ \E i \in Inputs : BeginTxn(i)
    \/ \E r \in StepInputs, ok \in BOOLEAN :
          /\ ok \in CallOutcomes(r.target) \/ r.op = "SSTORE"
          /\ Step(r.op, r.self, r.target, r.value, r.key, ok)
    \/ EndTxn
    \/ OracleDone
    \/ Done

Spec == Init /\ [][Next]_vars

(***************************************************************************)
(* Properties                                                              *)
(***************************************************************************)

\* Every token the middleware treats as ERC-20 is registered with the
\* oracle and has a Borrow input, and no other contract has one; every
\* reserve slot the oracle holds belongs to a classified pair:
\* on_contract_insertion must not mark a token the busy oracle could not
\* register.
ClassificationConsistent ==
    /\ erc20_address \subseteq oracle_tokens
    /\ \A p \in Contracts : oracle_slots[p] # NoSlot => p \in pair_address
    /\ erc20_address \cup pair_address \subseteq known_addresses
    /\ borrow_txns = erc20_address

\* Every wei a successful CALL delivered to a synthetic caller is credited
\* to earned by on_step.
EarnedCoversPayments == flashloan_data.earned >= received * Scale

\* earned credits only value that reached a caller: a CALL into the revert
\* stub of a contract caller, or a failing call, credits nothing.
EarnedOnlyPayments == flashloan_data.earned <= received * Scale

\* When the oracle evaluates a transaction, every classified token whose
\* balances a CALL changed and every classified pair whose reserve slot was
\* written is in the re-check sets (on_step and analyze_call).
DirtyStateRechecked ==
    phase = "exec" =>
        /\ dirty_tokens \cap erc20_address
               \subseteq flashloan_data.oracle_recheck_balance
        /\ dirty_pairs \cap pair_address
               \subseteq flashloan_data.oracle_recheck_reserve

\* No step between analyze_call and the oracle's evaluation drops a
\* re-check flag: on_step and insertions only add to the two sets, and
\* only the oracle, when it has evaluated them, clears them.
RecheckFlagsKept ==
    [][phase' # "idle" =>
         /\ flashloan_data.oracle_recheck_balance
                \subseteq flashloan_data'.oracle_recheck_balance
         /\ flashloan_data.oracle_recheck_reserve
                \subseteq flashloan_data'.oracle_recheck_reserve]_vars

\* Inserting a contract never panics on the oracle's RefCell.
NoOracleBorrowPanic == ~panicked

=============================================================================
