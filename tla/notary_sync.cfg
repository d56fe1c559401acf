\* Behind a synchronous gateway: two certificates that share a file, deletions,
\* tampering.  The requests are finite: the run may end.
CONSTANTS
    f1 = f1
    f2 = f2
    s1 = s1
    s2 = s2
    Files = {f1, f2}
    Saves = {s1, s2}
    Readers = {r1}
    None = None
    FilesOf <- Overlapping
    AsyncSend = FALSE
    FileDelete = TRUE
SPECIFICATION Spec
INVARIANTS TypeOK BoundTogether NoDanglingFile AllOrNothing SyncBoundIsOnLedger ServedIsNotarized
CHECK_DEADLOCK FALSE
