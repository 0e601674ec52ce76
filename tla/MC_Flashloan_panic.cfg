CONSTANTS
    tok = tok
    pr = pr
    lp = lp
    misc = misc
    eoa = eoa
    cc = cc
    Contracts = {tok, pr, lp, misc}
    Callers = {eoa, cc}
    ContractCallers = {cc}
    Abi <- MCAbi
    ReserveLayout <- StandardLayout
    Slots = {8, 9}
    Values = {0, 1}
    BorrowValue = 10
    HasEndpoint = TRUE
    MaxTxns = 2
    MaxSteps = 2
    NoSlot = NoSlot
SPECIFICATION Spec
INVARIANT NoOracleBorrowPanic
