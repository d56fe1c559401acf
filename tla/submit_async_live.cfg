\* Asynchronous gateway with room in the cache and inserts that fail cleanly.
\* The transactions are finite: the run may end.
CONSTANTS
    Txs = {t1, t2}
    Workers = {w1, w2}
    NoTx = NoTx
    Orderers = 2
    AsyncSend = TRUE
    CacheCapacity = 2
    SaveFaults = {"refused"}
    CanCrash = TRUE
SPECIFICATION Spec
INVARIANTS OneOutcomePerTx SubmittedAtMostOnce PendingHaveResponses
PROPERTIES KeepsPromise AcceptedIsSettled
CHECK_DEADLOCK FALSE
