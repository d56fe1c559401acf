\* Both processes, the gateway synchronous and failing in every way: two
\* certificates over one file.  The requests are finite: the run may end.
CONSTANTS
    f1 = f1
    s1 = s1
    s2 = s2
    Files = {f1}
    Saves = {s1, s2}
    Readers = {r1}
    None = None
    FilesOf <- Shared
    FileDelete = TRUE
    Txs <- SharedTxs
    Workers = {w1}
    NoTx = NoTx
    Orderers = 2
    AsyncSend = FALSE
    CacheCapacity = 1
    SaveFaults = {"refused", "ackLost"}
    CanCrash = TRUE
SPECIFICATION BothSpec
INVARIANT TablesAgree
PROPERTY KeepsNotary
CHECK_DEADLOCK FALSE
