----------------------------- MODULE Notarization -----------------------------
(***************************************************************************)
(* The two processes together: the certificate application (CertNotary)    *)
(* in front of the gateway itself (FabricSubmit), each with a database of  *)
(* its own (cert_file and cert_info here, cert_block there) and a restart  *)
(* of its own.  They share nothing but the HTTP calls: one request thread  *)
(* of the gateway for every file a save sends, whose answer the            *)
(* application may have stopped waiting for.                               *)
(***************************************************************************)
EXTENDS FabricSubmit

CONSTANTS Files, Saves, Readers, None, FilesOf, FileDelete  \* see CertNotary

VARIABLES
    up, disk, rows, bound, txOf, checked, info,     \* as in CertNotary, where
    stage, matched, ids, requested, rd, want, seen  \* stage: pc, matched: found

appVars == <<up, disk, rows, bound, txOf, checked, info,
             stage, matched, ids, requested, rd, want, seen>>

allVars == <<vars, appVars>>

(* The application sees of the gateway what SubmitPromise has of it; an     *)
(* answer counts for it when it has the transaction id.                     *)
App == INSTANCE CertNotary WITH
           pc       <- stage,
           found    <- matched,
           status   <- [t \in Txs |-> Status(t)],
           answered <- {t \in Txs : t[2] \in ids[t[1]]},
           onLedger <- {t \in Txs : ledger[t] = "valid"},
           rejected <- {t \in Txs : ledger[t] = "invalid"}

ASSUME NotarizationAssumption ==
    /\ None \notin Saves
    /\ None \notin Saves \X Files
    /\ FilesOf \in [Saves -> SUBSET Files]
    /\ FileDelete \in BOOLEAN
    /\ Txs = App!SaveTxs

BothInit == Init /\ App!Init

(* Mutant: the application takes the id for an answer it has not got. *)
TakeAnyId(s, f) == UNCHANGED vars /\ App!TakeId(s, f)

(* FastChainDBClient has the answer of the request thread. *)
Receive(s, f) ==
    /\ <<s, f>> \in requested /\ req[<<s, f>>] = "replied"
    /\ UNCHANGED vars
    /\ App!TakeId(s, f)

ApplicationStep ==
    \/ /\ UNCHANGED vars
       /\ \/ \E f \in Files : App!FileStep(f)
          \/ \E s \in Saves : App!OwnStep(s) \/ App!DeleteCert(s)
          \/ \E r \in Readers : App!ReadStep(r)
    \/ \E s \in Saves, f \in Files : Receive(s, f)

(* A request thread starts only for a call that was made. *)
GatewayStep ==
    /\ Next
    /\ \A t \in Txs \ requested : req'[t] = "idle"
    /\ UNCHANGED appVars

BothNext == ApplicationStep \/ GatewayStep

BothSpec == BothInit /\ [][BothNext]_allVars /\ Fairness
-----------------------------------------------------------------------------
(* The application in front of the real gateway does what it does in front  *)
(* of the promised one: no answer, restart or lost row of the gateway gives *)
(* it anything that SubmitPromise does not allow.                           *)
KeepsNotary == App!Safety

(* The tables of the two databases agree: a transaction named in cert_file  *)
(* is valid on the ledger and has its one row in cert_block (synchronous    *)
(* gateway), or the gateway still has it, has a row for it, or lost it for  *)
(* a named cause (asynchronous), whichever of the two processes was         *)
(* restarted, gave up or failed to write meanwhile.                         *)
TablesAgree ==
    \A f \in Files : LET t == txOf[f] IN t # None =>
        IF AsyncSend
        THEN InQueue(t) \/ IsHeld(t) \/ certBlock[t] # <<>> \/ t \in lost
        ELSE ledger[t] = "valid" /\ certBlock[t] = <<1>>
=============================================================================
