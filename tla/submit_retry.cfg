\* What the retry comment of FabricService.sendTransaction says, against the code.
CONSTANTS
    Txs = {t1}
    Workers = {w1}
    NoTx = NoTx
    Orderers = 2
    AsyncSend = TRUE
    CacheCapacity = 1
    SaveFaults = {}
    CanCrash = FALSE
SPECIFICATION Spec
INVARIANT GivesUpAfterFiveSends
CHECK_DEADLOCK FALSE
