----------------------------- MODULE CertNotary -----------------------------
(***************************************************************************)
(* The certificate application (fastchaindb-cert) in front of the gateway: *)
(* a file is uploaded (CertInfoController.uploadsave), a certificate over  *)
(* some files is saved (CertInfoServiceImpl.save: one chain transaction    *)
(* per file inside one database transaction), a file is downloaded or      *)
(* refreshed after a check against the chain, certificates and files are   *)
(* deleted.  Requests interleave; the gateway is SubmitPromise, which      *)
(* FabricSubmit implements; its answer may come too late for the client.   *)
(*                                                                         *)
(* A database transaction is visible at its commit: the insert into        *)
(* cert_info and the update of cert_file are one step, when they commit.   *)
(***************************************************************************)
EXTENDS Integers, FiniteSets

CONSTANTS
    Files,      \* uploads; an upload draws a fresh file id
    Saves,      \* requests to save a certificate; each draws a fresh sign id
    Readers,    \* download and refresh requests
    None,       \* a NULL column
    FilesOf,    \* the file ids a save request names
    AsyncSend,  \* fastchaindb.async of the gateway
    FileDelete  \* whether CertFileController.delete is used

ASSUME NotaryAssumption ==
    /\ None \notin Saves
    /\ None \notin Saves \X Files
    /\ FilesOf \in [Saves -> SUBSET Files]
    /\ AsyncSend \in BOOLEAN
    /\ FileDelete \in BOOLEAN

(* A save submits each of its files at most once, as a fresh transaction. *)
SaveTxs == {t \in Saves \X Files : t[2] \in FilesOf[t[1]]}

VARIABLES
    up,         \* stage of each upload
    disk,       \* content of the stored file, as far as a hash tells
    rows,       \* files with a row in cert_file
    bound,      \* cert_file.cert_sign_id
    txOf,       \* cert_file.transaction_id
    checked,    \* the transaction behind cert_file.last_check_time
    info,       \* rows of cert_info
    pc,         \* stage of each save request
    found,      \* the rows selectByFileIds gave it
    ids,        \* its files for which a transaction id came back
    requested,  \* transactions the gateway was asked for
    rd,         \* stage of each download or refresh
    want,       \* the file and transaction id it read from cert_file
    seen,       \* the content it hashed
    rejected,   \* transactions in a block, but invalid
    status, answered, onLedger  \* the gateway: SubmitPromise

gateway == <<status, answered, onLedger>>
table == <<rows, bound, txOf, checked, info>>
saving == <<pc, found, ids>>
reading == <<rd, want, seen>>
vars == <<up, disk, table, saving, requested, reading, rejected, gateway>>

Gateway == INSTANCE SubmitPromise WITH Txs <- SaveTxs

Contents == {"none", "original", "altered"}

TypeOK ==
    /\ up \in [Files -> {"new", "stored", "ok", "error"}]
    /\ disk \in [Files -> Contents]
    /\ rows \subseteq Files
    /\ bound \in [Files -> Saves \cup {None}]
    /\ txOf \in [Files -> SaveTxs \cup {None}]
    /\ checked \in [Files -> SaveTxs \cup {None}]
    /\ info \subseteq Saves
    /\ pc \in [Saves -> {"idle", "sending", "waiting", "done", "failed"}]
    /\ found \in [Saves -> SUBSET Files]
    /\ ids \in [Saves -> SUBSET Files]
    /\ requested \subseteq SaveTxs
    /\ rd \in [Readers -> {"idle", "hashing", "querying", "verified",
                           "served", "done", "failed"}]
    /\ want \in [Readers -> (Files \X (SaveTxs \cup {None})) \cup {None}]
    /\ seen \in [Readers -> Contents]
    /\ rejected \subseteq SaveTxs
    /\ status \in [SaveTxs -> {"new", "pending", "success", "failure", "lost"}]
    /\ answered \subseteq SaveTxs
    /\ onLedger \subseteq SaveTxs

Init ==
    /\ up = [f \in Files |-> "new"]
    /\ disk = [f \in Files |-> "none"]
    /\ rows = {}
    /\ bound = [f \in Files |-> None]
    /\ txOf = [f \in Files |-> None]
    /\ checked = [f \in Files |-> None]
    /\ info = {}
    /\ pc = [s \in Saves |-> "idle"]
    /\ found = [s \in Saves |-> {}]
    /\ ids = [s \in Saves |-> {}]
    /\ requested = {}
    /\ rd = [r \in Readers |-> "idle"]
    /\ want = [r \in Readers |-> None]
    /\ seen = [r \in Readers |-> "none"]
    /\ rejected = {}
    /\ Gateway!Init

SetUp(f, from, to) == up[f] = from /\ up' = [up EXCEPT ![f] = to]
SetPc(s, from, to) == pc[s] = from /\ pc' = [pc EXCEPT ![s] = to]
SetRd(r, from, to) == rd[r] = from /\ rd' = [rd EXCEPT ![r] = to]

-----------------------------------------------------------------------------
(* Upload: the file is hashed in memory and stored, then inserted.          *)

StoreFile(f) ==
    /\ SetUp(f, "new", "stored")
    /\ disk' = [disk EXCEPT ![f] = "original"]
    /\ UNCHANGED <<table, saving, requested, reading, rejected, gateway>>

(* The IOException is swallowed: the caller gets a file id without a row. *)
StoreFileFails(f) ==
    /\ SetUp(f, "new", "ok")
    /\ UNCHANGED <<disk, table, saving, requested, reading, rejected, gateway>>

InsertFile(f) ==
    /\ SetUp(f, "stored", "ok")
    /\ rows' = rows \cup {f}
    /\ UNCHANGED <<disk, bound, txOf, checked, info, saving, requested, reading,
                   rejected, gateway>>

InsertFileFails(f) ==
    /\ SetUp(f, "stored", "error")
    /\ UNCHANGED <<disk, table, saving, requested, reading, rejected, gateway>>

-----------------------------------------------------------------------------
(* CertInfoServiceImpl.save.                                                *)

(* The files it names were uploaded, as far as the caller knows. *)
StartSave(s) ==
    /\ \A f \in FilesOf[s] : up[f] = "ok"
    /\ found' = [found EXCEPT ![s] = FilesOf[s] \cap rows]
    /\ SetPc(s, "idle", IF found'[s] = {} THEN "failed" ELSE "sending")
    /\ UNCHANGED <<up, disk, table, ids, requested, reading, rejected, gateway>>

(* One synchronous HTTP call per file. *)
Send(s, f) ==
    /\ f \in found[s] \ ids[s]
    /\ SetPc(s, "sending", "waiting")
    /\ requested' = requested \cup {<<s, f>>}
    /\ UNCHANGED <<up, disk, table, found, ids, reading, rejected, gateway>>

(* What the application does with the transaction id of an answer. *)
TakeId(s, f) ==
    /\ <<s, f>> \in requested /\ f \notin ids[s]
    /\ SetPc(s, "waiting", "sending")
    /\ ids' = [ids EXCEPT ![s] = @ \cup {f}]
    /\ UNCHANGED <<up, disk, table, found, requested, reading, rejected>>

(* Mutant: the id of the proposal is used before the gateway answered. *)
AnsweredAtOnce(s, f) == TakeId(s, f) /\ UNCHANGED gateway

(* The answer carries a transaction id. *)
Answered(s, f) == TakeId(s, f) /\ Gateway!Answer(<<s, f>>)

(* Mutant: the failed file is skipped. *)
SendFailsSkips(s) ==
    /\ SetPc(s, "waiting", "sending")
    /\ ids' = [ids EXCEPT ![s] = @ \cup {f \in found[s] : <<s, f>> \in requested}]
    /\ UNCHANGED <<up, disk, table, found, requested, reading, rejected, gateway>>

(* Mutant: no time limit, only an error answer ends the call. *)
SendFailsOnError(s) ==
    /\ SetPc(s, "waiting", "failed")
    /\ \E f \in found[s] : <<s, f>> \in rejected
    /\ UNCHANGED <<up, disk, table, found, ids, requested, reading, rejected, gateway>>

(* An error answer, or none within 30 seconds: the missing data is          *)
(* dereferenced and the database transaction rolled back; what was sent     *)
(* stays sent.                                                              *)
SendFails(s) ==
    /\ SetPc(s, "waiting", "failed")
    /\ UNCHANGED <<up, disk, table, found, ids, requested, reading, rejected, gateway>>

(* Mutant: updateByFileIds instead, which sets the certificate only. *)
BindSignOnly(s) ==
    /\ SetPc(s, "sending", "done")
    /\ ids[s] = found[s]
    /\ info' = info \cup {s}
    /\ bound' = [f \in Files |-> IF f \in ids[s] \cap rows THEN s ELSE bound[f]]
    /\ UNCHANGED <<up, disk, rows, txOf, checked, found, ids, requested, reading,
                   rejected, gateway>>

(* Mutant: the file id goes into the column of the transaction id. *)
BindFileId(s) ==
    LET mine == ids[s] \cap rows IN
    /\ SetPc(s, "sending", "done")
    /\ ids[s] = found[s]
    /\ info' = info \cup {s}
    /\ bound' = [f \in Files |-> IF f \in mine THEN s ELSE bound[f]]
    /\ txOf' = [f \in Files |-> IF f \in mine THEN f ELSE txOf[f]]
    /\ UNCHANGED <<up, disk, rows, checked, found, ids, requested, reading, rejected,
                   gateway>>

(* Mutant: the WHERE of the update is missing. *)
BindEveryRow(s) ==
    /\ SetPc(s, "sending", "done")
    /\ ids[s] = found[s]
    /\ info' = info \cup {s}
    /\ bound' = [f \in Files |-> IF f \in rows THEN s ELSE bound[f]]
    /\ txOf' = [f \in Files |-> IF f \in rows THEN <<s, f>> ELSE txOf[f]]
    /\ UNCHANGED <<up, disk, rows, checked, found, ids, requested, reading, rejected,
                   gateway>>

(* Every file was sent: updateByIds and the commit.  Rows deleted meanwhile *)
(* are not updated, and their number is not looked at; last_check_time is   *)
(* set as if the file had been checked.                                     *)
Bind(s) ==
    LET mine == ids[s] \cap rows IN
    /\ SetPc(s, "sending", "done")
    /\ ids[s] = found[s]
    /\ info' = info \cup {s}
    /\ bound' = [f \in Files |-> IF f \in mine THEN s ELSE bound[f]]
    /\ txOf' = [f \in Files |-> IF f \in mine THEN <<s, f>> ELSE txOf[f]]
    /\ checked' = [f \in Files |-> IF f \in mine THEN <<s, f>> ELSE checked[f]]
    /\ UNCHANGED <<up, disk, rows, found, ids, requested, reading, rejected, gateway>>

(* The database fails, or the application is restarted: nothing of the      *)
(* database transaction remains.                                            *)
BindFails(s) ==
    /\ SetPc(s, "sending", "failed")
    /\ UNCHANGED <<up, disk, table, found, ids, requested, reading, rejected, gateway>>

-----------------------------------------------------------------------------
(* Deletion.                                                                *)

(* The cert_file rows of S are gone, with their columns. *)
DropRows(S) ==
    /\ rows' = rows \ S
    /\ bound' = [f \in Files |-> IF f \in S THEN None ELSE bound[f]]
    /\ txOf' = [f \in Files |-> IF f \in S THEN None ELSE txOf[f]]
    /\ checked' = [f \in Files |-> IF f \in S THEN None ELSE checked[f]]

(* Mutant: the files keep their certificate. *)
DeleteCertOnly(s) ==
    /\ s \in info
    /\ info' = info \ {s}
    /\ UNCHANGED <<up, disk, rows, bound, txOf, checked, saving, requested, reading,
                   rejected, gateway>>

(* One database transaction over both tables; the sign id it reads first    *)
(* never changes.  The stored files stay.                                   *)
DeleteCert(s) ==
    /\ s \in info
    /\ info' = info \ {s}
    /\ DropRows({f \in rows : bound[f] = s})
    /\ UNCHANGED <<up, disk, saving, requested, reading, rejected, gateway>>

(* CertFileController.delete: the row only. *)
DeleteFile(f) ==
    /\ FileDelete
    /\ f \in rows
    /\ DropRows({f})
    /\ UNCHANGED <<up, disk, info, saving, requested, reading, rejected, gateway>>

-----------------------------------------------------------------------------
(* Download and refresh.                                                    *)

ReadRow(r, f) ==
    /\ SetRd(r, "idle", "hashing")
    /\ f \in rows
    /\ want' = [want EXCEPT ![r] = <<f, txOf[f]>>]
    /\ UNCHANGED <<up, disk, table, saving, requested, seen, rejected, gateway>>

(* The stored file is hashed; a missing file hashes as an empty one. *)
HashFile(r) ==
    /\ SetRd(r, "hashing", "querying")
    /\ seen' = [seen EXCEPT ![r] = disk[want[r][1]]]
    /\ UNCHANGED <<up, disk, table, saving, requested, want, rejected, gateway>>

(* The block of the transaction is read: it also holds invalid ones. *)
InBlock(t) == t \in onLedger \cup rejected

(* Mutant: finding the transaction is enough. *)
CheckFindsTx(r) ==
    /\ SetRd(r, "querying", "verified")
    /\ InBlock(want[r][2])
    /\ UNCHANGED <<up, disk, table, saving, requested, want, seen, rejected, gateway>>

(* The chain has the transaction and its hash is that of the stored file:   *)
(* last_check_time is updated on the row, if it is still there.             *)
CheckAgrees(r) ==
    LET f == want[r][1] IN
    /\ SetRd(r, "querying", "verified")
    /\ InBlock(want[r][2])
    /\ seen[r] = "original"
    /\ checked' = IF f \in rows THEN [checked EXCEPT ![f] = want[r][2]] ELSE checked
    /\ UNCHANGED <<up, disk, rows, bound, txOf, info, saving, requested, want, seen,
                   rejected, gateway>>

(* No transaction id, not on the chain yet, another hash, or no answer. *)
CheckFails(r) ==
    /\ SetRd(r, "querying", "failed")
    /\ UNCHANGED <<up, disk, table, saving, requested, want, seen, rejected, gateway>>

(* The file is read a second time for the response, and may be gone. *)
Serve(r) ==
    /\ SetRd(r, "verified", IF disk[want[r][1]] = "none" THEN "failed" ELSE "served")
    /\ UNCHANGED <<up, disk, table, saving, requested, want, seen, rejected, gateway>>

(* The download is recorded, or the time of the refresh returned. *)
Finish(r) ==
    /\ SetRd(r, "verified", "done") \/ SetRd(r, "served", "done")
    /\ UNCHANGED <<up, disk, table, saving, requested, want, seen, rejected, gateway>>

-----------------------------------------------------------------------------
(* The gateway works on what it was asked for; a block may also carry the   *)
(* transaction as invalid.                                                  *)
GatewayStep(t) ==
    /\ t \in requested
    /\ \/ /\ \/ Gateway!Enqueue(t) \/ Gateway!Succeed(t) \/ Gateway!Fail(t)
             \/ t \notin rejected /\ Gateway!Land(t)
          /\ UNCHANGED rejected
       \/ /\ t \notin onLedger
          /\ rejected' = rejected \cup {t}
          /\ UNCHANGED gateway
    /\ UNCHANGED <<up, disk, table, saving, requested, reading>>

(* It gives up one transaction it cannot record, or all that are pending    *)
(* when it is restarted.                                                    *)
GatewayLoses(S) ==
    /\ Gateway!Lose(S)
    /\ UNCHANGED <<up, disk, table, saving, requested, reading, rejected>>

(* Somebody changes or removes a stored file behind the application. *)
Tamper(f) ==
    /\ disk[f] # "none"
    /\ \E c \in {"none", "altered"} : disk' = [disk EXCEPT ![f] = c]
    /\ UNCHANGED <<up, table, saving, requested, reading, rejected, gateway>>

-----------------------------------------------------------------------------
FileStep(f) ==
    \/ StoreFile(f) \/ StoreFileFails(f) \/ InsertFile(f) \/ InsertFileFails(f)
    \/ DeleteFile(f) \/ Tamper(f)

(* The steps of a save that need no answer. *)
OwnStep(s) ==
    \/ StartSave(s) \/ SendFails(s) \/ Bind(s) \/ BindFails(s)
    \/ \E f \in Files : Send(s, f)

SaveStep(s) == OwnStep(s) \/ \E f \in Files : Answered(s, f)

ReadStep(r) ==
    \/ \E f \in Files : ReadRow(r, f)
    \/ HashFile(r) \/ CheckAgrees(r) \/ CheckFails(r) \/ Serve(r) \/ Finish(r)

Next ==
    \/ \E f \in Files : FileStep(f)
    \/ \E s \in Saves : SaveStep(s) \/ DeleteCert(s)
    \/ \E r \in Readers : ReadStep(r)
    \/ \E t \in SaveTxs : GatewayStep(t)
    \/ \E S \in SUBSET requested : GatewayLoses(S)

(* Every wait of a save request ends with an answer or the client's time    *)
(* limit of 30 seconds.  Nothing is assumed of the gateway.                 *)
Fairness == \A s \in Saves : WF_vars(SaveStep(s))

Safety == Init /\ [][Next]_vars

Spec == Safety /\ Fairness
-----------------------------------------------------------------------------
(* A row of cert_file names a certificate exactly when it names a           *)
(* transaction, and the transaction is the one that very certificate's save *)
(* submitted: two saves over the same file never mix, whoever commits last. *)
BoundTogether ==
    \A f \in Files : IF bound[f] = None THEN txOf[f] = None
                     ELSE txOf[f] = <<bound[f], f>>

(* A row never names a certificate that does not exist, although saves and  *)
(* deletions of certificates over the same files interleave.                *)
NoDanglingFile ==
    \A f \in rows : bound[f] # None => bound[f] \in info

(* A certificate exists only if the gateway gave an id for every file its   *)
(* save found: one failed file rolls the whole certificate back.            *)
AllOrNothing ==
    \A s \in info : found[s] # {} /\ \A f \in found[s] : <<s, f>> \in answered

(* In front of a synchronous gateway every transaction id in cert_file, and *)
(* every last_check_time, is about a transaction on the ledger, although    *)
(* the client gives up 20 seconds before the gateway does.                  *)
SyncBoundIsOnLedger ==
    ~AsyncSend => \A f \in Files : /\ txOf[f] \in onLedger \cup {None}
                                   /\ checked[f] \in onLedger \cup {None}

(* A file is only served after the chain was found to hold the hash of the  *)
(* content read then; behind a synchronous gateway, in a valid transaction. *)
ServedIsNotarized ==
    \A r \in Readers : rd[r] \in {"verified", "served", "done"} =>
        /\ seen[r] = "original"
        /\ want[r][2] \in (IF AsyncSend THEN onLedger \cup rejected ELSE onLedger)

(* Every upload is named by one certificate, and none is deleted alone. *)
OwnFiles ==
    /\ \A s, o \in Saves : s # o => FilesOf[s] \cap FilesOf[o] = {}
    /\ ~FileDelete

(* While nobody shares its files, a certificate keeps every file its save   *)
(* found, with the transaction the save got for it.                         *)
CertificateKeepsFiles ==
    OwnFiles => \A s \in info : \A f \in found[s] : f \in rows /\ txOf[f] = <<s, f>>

(* A save request that has started ends, whatever the gateway does. *)
SaveEnds == \A s \in Saves : (pc[s] = "sending") ~> (pc[s] \in {"done", "failed"})
=============================================================================
