\* Behind an asynchronous gateway: two certificates over files of their own, the
\* gateway may never answer.  Downloads do not matter to it.  The requests are
\* finite: the run may end.
CONSTANTS
    f1 = f1
    f2 = f2
    s1 = s1
    s2 = s2
    Files = {f1, f2}
    Saves = {s1, s2}
    Readers = {}
    None = None
    FilesOf <- Disjoint
    AsyncSend = TRUE
    FileDelete = FALSE
SPECIFICATION Spec
INVARIANT CertificateKeepsFiles
PROPERTY SaveEnds
CHECK_DEADLOCK FALSE
