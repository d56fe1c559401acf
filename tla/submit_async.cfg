\* Asynchronous gateway; a cache too small for all transactions, every
\* database fault, restarts, and queries of the blocks.  The transactions are finite: the run may end.
CONSTANTS
    Txs = {t1, t2, t3}
    Workers = {w1, w2}
    NoTx = NoTx
    Orderers = 1
    AsyncSend = TRUE
    CacheCapacity = 1
    SaveFaults = {"refused", "ackLost"}
    CanCrash = TRUE
SPECIFICATION LookupSpec
INVARIANTS LookupTypeOK SuccessIsOnLedger NoSilentLoss SuccessFreesCache
INVARIANT SuccessesAreFound
SYMMETRY Symmetry
CHECK_DEADLOCK FALSE
