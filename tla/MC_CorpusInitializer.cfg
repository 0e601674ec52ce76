CONSTANTS
    a1 = a1
    a2 = a2
    a3 = a3
    a4 = a4
    d1 = d1
    d2 = d2
    k1 = k1
    k2 = k2
    cheat = cheat
    deployer = deployer
    Loader <- MCLoader
    DefaultCallers = {d1, d2}
    ContractCallerSet = {k1, k2}
    CHEATCODE_ADDRESS = cheat
    Deployer = deployer
    Blacklist = {a2}
    HarnessNames = {"invariant_balance"}
    INITIAL_BALANCE = 100
    ReserveLayout <- MCReserveLayout
    HasEndpoint = TRUE
    NoSlot = NoSlot
SPECIFICATION Spec
INVARIANT TypeOK
INVARIANT SeedsMatchAbis
INVARIANT ClassificationFollowsAbi
INVARIANT HashToAddressComplete
INVARIANT DeployFailureIsolated
