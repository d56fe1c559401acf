\* Synchronous gateway (the default of application.properties): every request
\* thread waits for its own event.  The transactions are finite: the run may end.
CONSTANTS
    Txs = {t1, t2}
    Workers = {w1}
    NoTx = NoTx
    Orderers = 2
    AsyncSend = FALSE
    CacheCapacity = 1
    SaveFaults = {"refused", "ackLost"}
    CanCrash = TRUE
SPECIFICATION Spec
INVARIANT SyncReplyIsNotarized
PROPERTY RequestIsAnswered
CHECK_DEADLOCK FALSE
