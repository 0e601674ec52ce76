-------------------------- MODULE CorpusInitializer --------------------------
(***************************************************************************)
(* EVMCorpusInitializer::initialize of src/src/evm/corpus_initializer.rs:  *)
(* provision the synthetic callers, deploy every contract of the loader,   *)
(* then for every contract recover a missing ABI (bytecode selectors, the  *)
(* ABIMap, the Heimdall decompiler), record the artifacts, classify it     *)
(* through the flash-loan middleware (handle_contract_insertion!, the      *)
(* Flashloan module), and seed one input per callable function; finally    *)
(* seed the infant corpus with the initial state.                          *)
(*                                                                         *)
(* initialize runs once, on one thread, before any fuzzing: the flash-loan *)
(* oracle is never borrowed here, so the instance fixes Flashloan's phase  *)
(* to "idle" and its ledger to the fresh FlashloanData.                    *)
(***************************************************************************)
EXTENDS Integers, FiniteSets, Sequences

CONSTANTS
    Loader,           \* loader.contracts: Seq of [addr, code_deployed, abi,
                      \*   sigs, heimdall]; sigs are the selectors
                      \*   extract_sig_from_contract finds, heimdall what the
                      \*   decompiler returns when it answers
    DefaultCallers,   \* the two well-known EOAs of setup_default_callers
    ContractCallerSet,\* the two addresses of setup_contract_callers
    CHEATCODE_ADDRESS,
    Deployer,         \* executor.deployer
    Blacklist,        \* BLACKLIST_ADDR
    HarnessNames,     \* function names starting with invariant_ or echidna_
    INITIAL_BALANCE,  \* 100 ether, as a symbolic amount
    ReserveLayout,    \* getReserves() layout of each contract (Flashloan)
    HasEndpoint,      \* the flash-loan middleware has a chain endpoint
    NoSlot

N == Len(Loader)
Idx == 1..N
Addrs == {Loader[i].addr : i \in Idx}
Callers == DefaultCallers \cup ContractCallerSet
AllAddrs == Addrs \cup Callers \cup {CHEATCODE_ADDRESS, Deployer}

\* every function entry an ABI list may hold (ABIConfig; the selector is
\* abstracted to the function name)
AbiEntries == UNION ({Loader[i].abi : i \in Idx} \cup {Loader[i].heimdall : i \in Idx})
Names == {e.name : e \in AbiEntries}

ASSUME \A i \in Idx : Loader[i].sigs \subseteq Names

VARIABLES
    pc, idx,            \* which step of initialize runs, loop index
    callers,            \* state.callers
    balance,            \* host.evmstate balances
    code,               \* host.code: "none" | "stub" | "contract"
    address_dir,        \* state.add_address
    deployed_address,   \* contract.deployed_address
    abi,                \* contract.abi
    abimap,             \* the ABIMap metadata
    heimdall_called,    \* contracts whose ABI went to Heimdall
    art_names,          \* DOMAIN artifacts.address_to_name
    art_abi,            \* artifacts.address_to_abi
    hash_to_address,    \* state.hash_to_address
    corpus,             \* the seed inputs added through the scheduler
    infant,             \* staged states added to the infant corpus
    \* the flash-loan middleware (Flashloan)
    known_addresses, erc20_address, pair_address,
    oracle_tokens, oracle_slots, borrow_txns, panicked

fl_vars == <<known_addresses, erc20_address, pair_address,
             oracle_tokens, oracle_slots, borrow_txns, panicked>>
init_vars == <<pc, idx, callers, balance, code, address_dir, deployed_address,
               abi, abimap, heimdall_called, art_names, art_abi,
               hash_to_address, corpus, infant>>
vars == <<init_vars, fl_vars>>

FL == INSTANCE Flashloan WITH
        Contracts <- Addrs, Callers <- Callers, ContractCallers <- ContractCallerSet,
        Abi <- [a \in Addrs |-> {}], Slots <- {8}, Values <- {0},
        BorrowValue <- 0, MaxTxns <- 0, MaxSteps <- 0,
        flashloan_data <- [owed |-> 0, earned |-> 0,
                           oracle_recheck_reserve |-> {},
                           oracle_recheck_balance |-> {}],
        phase <- "idle", txns <- 0, steps <- 0,
        received <- 0, dirty_tokens <- {}, dirty_pairs <- {}

\* EVMInput seeds: caller, target, function, data is Some, and txn_value
\* as an Option: <<>> is None, <<v>> is Some(v)
Seeds == [caller : Callers, contract : Addrs, fn : Names,
          data : BOOLEAN, value : {<<>>, <<0>>}]

TypeOK ==
    /\ pc \in {"init", "default_callers", "contract_callers", "cheatcode",
               "initialize_contract", "deploy", "initialize_corpus", "corpus",
               "infant", "done"}
    /\ idx \in 1..N+1
    /\ callers \subseteq Callers
    /\ balance \in [AllAddrs -> {0, INITIAL_BALANCE}]
    /\ code \in [AllAddrs -> {"none", "stub", "contract"}]
    /\ address_dir \subseteq Addrs
    /\ deployed_address \in [Idx -> Addrs]
    /\ abi \in [Idx -> SUBSET AbiEntries]
    /\ abimap \subseteq AbiEntries
    /\ heimdall_called \subseteq Idx
    /\ art_names \subseteq Addrs
    /\ art_abi \in [Addrs -> SUBSET AbiEntries]
    /\ hash_to_address \in [Names -> SUBSET Addrs]
    /\ corpus \subseteq Seeds
    /\ infant \in 0..1
    /\ panicked = FALSE

Init ==
    /\ pc = "init" /\ idx = 1
    /\ callers = {}
    /\ balance = [a \in AllAddrs |-> 0]
    /\ code = [a \in AllAddrs |-> "none"]
    /\ address_dir = {}
    /\ deployed_address = [i \in Idx |-> Loader[i].addr]
    /\ abi = [i \in Idx |-> Loader[i].abi]
    /\ abimap = {}
    /\ heimdall_called = {}
    /\ art_names = {} /\ art_abi = [a \in Addrs |-> {}]
    /\ hash_to_address = [n \in Names |-> {}]
    /\ corpus = {} /\ infant = 0
    /\ known_addresses = {} /\ erc20_address = {} /\ pair_address = {}
    /\ oracle_tokens = {} /\ oracle_slots = [a \in Addrs |-> NoSlot]
    /\ borrow_txns = {} /\ panicked = FALSE

(***************************************************************************)
(* Callers and stubs                                                       *)
(***************************************************************************)

\* initialize: install an empty ABIMap
InstallAbiMap ==
    /\ pc = "init"
    /\ abimap' = {}
    /\ pc' = "default_callers"
    /\ UNCHANGED <<idx, callers, balance, code, address_dir, deployed_address,
                   abi, heimdall_called, art_names, art_abi, hash_to_address,
                   corpus, infant, fl_vars>>

\* setup_default_callers
SetupDefaultCallers ==
    /\ pc = "default_callers"
    /\ callers' = callers \cup DefaultCallers
    /\ balance' = [a \in AllAddrs |->
                      IF a \in DefaultCallers THEN INITIAL_BALANCE ELSE balance[a]]
    /\ pc' = "contract_callers"
    /\ UNCHANGED <<idx, code, address_dir, deployed_address, abi, abimap,
                   heimdall_called, art_names, art_abi, hash_to_address,
                   corpus, infant, fl_vars>>

\* setup_contract_callers: callers with the revert stub [0xfd, 0x00]
SetupContractCallers ==
    /\ pc = "contract_callers"
    /\ callers' = callers \cup ContractCallerSet
    /\ code' = [a \in AllAddrs |->
                   IF a \in ContractCallerSet THEN "stub" ELSE code[a]]
    /\ balance' = [a \in AllAddrs |->
                      IF a \in ContractCallerSet THEN INITIAL_BALANCE ELSE balance[a]]
    /\ pc' = "cheatcode"
    /\ UNCHANGED <<idx, address_dir, deployed_address, abi, abimap,
                   heimdall_called, art_names, art_abi, hash_to_address,
                   corpus, infant, fl_vars>>

\* init_cheatcode_contract
InitCheatcodeContract ==
    /\ pc = "cheatcode"
    /\ code' = [code EXCEPT ![CHEATCODE_ADDRESS] = "stub"]
    /\ pc' = "initialize_contract"
    /\ UNCHANGED <<idx, callers, balance, address_dir, deployed_address, abi,
                   abimap, heimdall_called, art_names, art_abi,
                   hash_to_address, corpus, infant, fl_vars>>

(***************************************************************************)
(* Deployment                                                              *)
(***************************************************************************)

\* initialize_contract: the deployer is funded before the loop
InitializeContract ==
    /\ pc = "initialize_contract"
    /\ balance' = [balance EXCEPT ![Deployer] = INITIAL_BALANCE]
    /\ idx' = 1
    /\ pc' = IF N = 0 THEN "initialize_corpus" ELSE "deploy"
    /\ UNCHANGED <<callers, code, address_dir, deployed_address, abi, abimap,
                   heimdall_called, art_names, art_abi, hash_to_address,
                   corpus, infant, fl_vars>>

\* Mutant: a failed deployment ends the loop (return instead of continue)
DeployContractAbort(ok) ==
    /\ pc = "deploy"
    /\ LET c == Loader[idx]
           a == deployed_address[idx]
           installed == c.code_deployed \/ ok
       IN  /\ code' = IF installed THEN [code EXCEPT ![a] = "contract"] ELSE code
           /\ address_dir' = IF installed THEN address_dir \cup {a} ELSE address_dir
           /\ pc' = IF idx = N \/ ~installed THEN "initialize_corpus" ELSE "deploy"
    /\ idx' = idx + 1
    /\ UNCHANGED <<callers, balance, deployed_address, abi, abimap,
                   heimdall_called, art_names, art_abi, hash_to_address,
                   corpus, infant, fl_vars>>

\* one iteration of the deployment loop. A contract not yet on chain runs
\* its constructor through executor.deploy, which may fail: the failure is
\* logged and the loop continues with the next contract. A deployed one
\* gets its code set directly.
DeployContract(ok) ==
    /\ pc = "deploy"
    /\ LET c == Loader[idx]
           a == deployed_address[idx]
           installed == c.code_deployed \/ ok
       IN  /\ code' = IF installed THEN [code EXCEPT ![a] = "contract"] ELSE code
           /\ address_dir' = IF installed THEN address_dir \cup {a} ELSE address_dir
    /\ idx' = idx + 1
    /\ pc' = IF idx = N THEN "initialize_corpus" ELSE "deploy"
    /\ UNCHANGED <<callers, balance, deployed_address, abi, abimap,
                   heimdall_called, art_names, art_abi, hash_to_address,
                   corpus, infant, fl_vars>>

(***************************************************************************)
(* Corpus                                                                  *)
(***************************************************************************)

\* Mutant: the corpus loop counts from 0
InitializeCorpusZeroBased ==
    /\ pc = "initialize_corpus"
    /\ idx' = 0
    /\ pc' = IF N = 0 THEN "infant" ELSE "corpus"
    /\ UNCHANGED <<callers, balance, code, address_dir, deployed_address, abi,
                   abimap, heimdall_called, art_names, art_abi,
                   hash_to_address, corpus, infant, fl_vars>>

\* initialize_corpus: the artifacts are created, the loop starts
InitializeCorpus ==
    /\ pc = "initialize_corpus"
    /\ idx' = 1
    /\ pc' = IF N = 0 THEN "infant" ELSE "corpus"
    /\ UNCHANGED <<callers, balance, code, address_dir, deployed_address, abi,
                   abimap, heimdall_called, art_names, art_abi,
                   hash_to_address, corpus, infant, fl_vars>>

\* selectors of the bytecode that the ABIMap does not know
UnknownSigs(i) == {s \in Loader[i].sigs : \A e \in abimap : e.name # s}

\* the ABIMap entry for a function, preferred over Heimdall's
Preferred(e) == IF \E k \in abimap : k.name = e.name
                THEN CHOOSE k \in abimap : k.name = e.name ELSE e

\* ABI recovery of a contract whose ABI is empty: the known selectors
\* contribute their ABIMap entries; if unknown_sigs >= sigs.len() / 30
\* (integer division) the ABI is replaced by what Heimdall returns (hres;
\* nothing when the request fails), each entry preferring the ABIMap's.
RecoverAbi(i, hres) ==
    IF Cardinality(UnknownSigs(i)) >= Cardinality(Loader[i].sigs) \div 30
    THEN [abi |-> {Preferred(e) : e \in hres}, heimdall |-> TRUE]
    ELSE [abi |-> abi[i] \cup {e \in abimap : e.name \in Loader[i].sigs},
          heimdall |-> FALSE]

\* Mutant: classification sees the loader's ABI, not the recovered one
InsertionNamesBeforeRecovery(i, entries) == {e.name : e \in Loader[i].abi}

\* the function names handle_contract_insertion! is given
InsertionNames(i, entries) == {e.name : e \in entries}

SkipName(n) == n \in HarnessNames \/ n \in {"setUp", "failed"}

\* the seed add_abi builds for a function
SeedFor(e, a, caller) ==
    [caller |-> caller, contract |-> a, fn |-> e.name,
     data |-> e.name # "!receive!",
     value |-> IF e.payable THEN <<0>> ELSE <<>>]

\* Mutant: the is_constructor early return is missing
AddAbisKeepCtor(entries, a, caller) ==
    LET named == {e \in entries : ~SkipName(e.name)}
    IN  /\ hash_to_address' =
              [n \in Names |-> IF \E e \in named : e.name = n
                               THEN hash_to_address[n] \cup {a}
                               ELSE hash_to_address[n]]
        /\ corpus' = corpus \cup {SeedFor(e, a, caller) : e \in {e \in named : ~e.static}}

\* Mutant: static functions are dropped before hash_to_address is updated
AddAbisStaticFirst(entries, a, caller) ==
    LET named == {e \in entries : ~SkipName(e.name) /\ ~e.ctor /\ ~e.static}
    IN  /\ hash_to_address' =
              [n \in Names |-> IF \E e \in named : e.name = n
                               THEN hash_to_address[n] \cup {a}
                               ELSE hash_to_address[n]]
        /\ corpus' = corpus \cup {SeedFor(e, a, caller) : e \in named}

\* the loop over contract.abi with add_abi: harness functions are skipped,
\* constructors return early, every other function is indexed in
\* hash_to_address, and a non-static one becomes a seed input added to the
\* corpus (on_add_artifacts). get_rand_caller is drawn once per contract:
\* no property tells seeds apart by caller.
AddAbis(entries, a, caller) ==
    LET named == {e \in entries : ~SkipName(e.name) /\ ~e.ctor}
    IN  /\ hash_to_address' =
              [n \in Names |-> IF \E e \in named : e.name = n
                               THEN hash_to_address[n] \cup {a}
                               ELSE hash_to_address[n]]
        /\ corpus' = corpus \cup {SeedFor(e, a, caller) : e \in {e \in named : ~e.static}}

\* one iteration of the corpus loop of initialize_corpus
InitializeCorpusContract(hres, caller) ==
    /\ pc = "corpus"
    /\ LET i == idx
           a == deployed_address[i]
           rec == IF abi[i] = {} THEN RecoverAbi(i, hres)
                                 ELSE [abi |-> abi[i], heimdall |-> FALSE]
       IN  /\ abi' = [abi EXCEPT ![i] = rec.abi]
           /\ heimdall_called' = IF rec.heimdall THEN heimdall_called \cup {i}
                                                 ELSE heimdall_called
           /\ art_names' = art_names \cup {a}
           /\ art_abi' = [art_abi EXCEPT ![a] = rec.abi]
           /\ FL!HandleContractInsertion(a, InsertionNames(i, rec.abi))
           /\ IF a \in Blacklist THEN UNCHANGED <<hash_to_address, corpus>>
                                 ELSE AddAbis(rec.abi, a, caller)
    /\ idx' = idx + 1
    /\ pc' = IF idx = N THEN "infant" ELSE "corpus"
    /\ UNCHANGED <<callers, balance, code, address_dir, deployed_address,
                   abimap, infant>>

\* the initial staged state is added to the infant corpus
SeedInfantState ==
    /\ pc = "infant"
    /\ infant' = infant + 1
    /\ pc' = "done"
    /\ UNCHANGED <<idx, callers, balance, code, address_dir, deployed_address,
                   abi, abimap, heimdall_called, art_names, art_abi,
                   hash_to_address, corpus, fl_vars>>

\* initialization has returned its artifacts; the fuzzing loop takes over
Terminated == pc = "done" /\ UNCHANGED vars

Next ==
    \/ InstallAbiMap
    \/ SetupDefaultCallers
    \/ SetupContractCallers
    \/ InitCheatcodeContract
    \/ InitializeContract
    \/ \E ok \in BOOLEAN : DeployContract(ok)
    \/ InitializeCorpus
    \/ /\ pc = "corpus"
       /\ \E hres \in {Loader[idx].heimdall, {}}, c \in callers :
             InitializeCorpusContract(hres, c)
    \/ SeedInfantState
    \/ Terminated

Spec == Init /\ [][Next]_vars

(***************************************************************************)
(* Properties                                                              *)
(***************************************************************************)

\* contracts the corpus loop has finished with
Processed == {i \in Idx : pc \in {"infant", "done"} \/ (pc = "corpus" /\ i < idx)}

Seedable(entries) == {e \in entries : ~SkipName(e.name) /\ ~e.ctor /\ ~e.static}

\* The seeds of a processed, non-blacklisted contract are exactly its
\* seedable functions (after ABI recovery), each shaped as add_abi says:
\* data is Some unless the function is !receive!, txn_value is Some(0)
\* iff payable, and the caller is a provisioned caller.
SeedsMatchAbis ==
    /\ \A i \in Processed :
         deployed_address[i] \notin Blacklist =>
            {s.fn : s \in {s \in corpus : s.contract = deployed_address[i]}}
                = {e.name : e \in Seedable(abi[i])}
    /\ \A s \in corpus :
         \E i \in Processed : \E e \in Seedable(abi[i]) :
            /\ deployed_address[i] = s.contract /\ e.name = s.fn
            /\ s = SeedFor(e, s.contract, s.caller)
            /\ s.caller \in callers

\* Flash-loan classification follows the ABI the contract ends up with
\* (recovered by Heimdall when the loader had none): ERC-20 iff the token
\* functions are there and a token context exists, pair iff the pair
\* functions are there, and a Borrow input is queued for exactly the ERC-20s.
ClassificationFollowsAbi ==
    /\ \A i \in Processed :
         LET a == deployed_address[i]
             ns == {e.name : e \in abi[i]}
         IN  /\ a \in erc20_address <=> (FL!TokenSigs \subseteq ns /\ HasEndpoint)
             /\ a \in pair_address <=> FL!PairSigs \subseteq ns
    /\ borrow_txns = erc20_address

\* hash_to_address indexes every non-constructor, non-harness function of
\* every processed, non-blacklisted contract, static ones included.
HashToAddressComplete ==
    \A i \in Processed, e \in AbiEntries :
        /\ e \in abi[i] /\ ~e.ctor /\ ~SkipName(e.name)
        /\ deployed_address[i] \notin Blacklist
        => deployed_address[i] \in hash_to_address[e.name]

\* A failed deployment costs only its own contract: once the deployment
\* loop is over, every contract the loader found already on chain has its
\* code set and its address registered, whichever deployments before it
\* failed (the `continue` of initialize_contract).
DeployFailureIsolated ==
    pc \in {"initialize_corpus", "corpus", "infant", "done"} =>
        \A i \in Idx : Loader[i].code_deployed =>
            /\ code[deployed_address[i]] = "contract"
            /\ deployed_address[i] \in address_dir

\* Every seed input, and every Borrow input, targets an address that has
\* code: a contract whose deployment failed is skipped (spec 4.1 step 5).
SeedsTargetCode ==
    \A a \in {s.contract : s \in corpus} \cup borrow_txns : code[a] # "none"

\* Heimdall is asked only when the unknown selectors are more than 1/30 of
\* those in the bytecode: N - K > N / 30 (spec section 8 item 2).
HeimdallOnlyWhenNeeded ==
    \A i \in heimdall_called :
        30 * Cardinality(UnknownSigs(i)) > Cardinality(Loader[i].sigs)

=============================================================================
