-------------------------- MODULE NotarizationProofs --------------------------
(***************************************************************************)
(* The application in front of the real gateway, for any files,            *)
(* certificates, downloads and workers, in either mode.                    *)
(*                                                                         *)
(* What was proved of the two processes apart is used here: the gateway    *)
(* makes a step of SubmitPromise whatever it does (FabricPromiseProofs),   *)
(* the application keeps its invariant in front of any gateway that does   *)
(* so (CertNotaryProofs, instantiated).  Between them stands what the HTTP *)
(* calls guarantee: the gateway works only on calls that were made, and an *)
(* id the application has was replied.                                     *)
(***************************************************************************)
EXTENDS FabricPromiseProofs, Notarization

(* CertNotary with its theorems, under the mapping of App. *)
Notary == INSTANCE CertNotaryProofs WITH
              pc       <- stage,
              found    <- matched,
              status   <- [t \in Txs |-> Status(t)],
              answered <- {t \in Txs : t[2] \in ids[t[1]]},
              onLedger <- {t \in Txs : ledger[t] = "valid"},
              rejected <- {t \in Txs : ledger[t] = "invalid"}

Rejected == {t \in Txs : ledger[t] = "invalid"}

CallsInv ==
    /\ \A t \in Txs \ requested : req[t] = "idle"
    /\ \A t \in Txs : t[2] \in ids[t[1]] => req[t] = "replied"

BothInv == IInv /\ CallsInv /\ Notary!IInv

-----------------------------------------------------------------------------
(* App and Notary are one specification.                                    *)

LEMMA NotaryAssumed == Notary!NotaryAssumption
  BY NotarizationAssumption, SubmitAssumption DEF Notary!NotaryAssumption

LEMMA SameTxs == Txs = Notary!SaveTxs /\ Txs = App!SaveTxs
  BY NotarizationAssumption DEF Notary!SaveTxs, App!SaveTxs

LEMMA SameFileSteps == \A f : App!FileStep(f) <=> Notary!FileStep(f)
  BY DEF App!FileStep, App!StoreFile, App!StoreFileFails, App!InsertFile,
         App!InsertFileFails, App!DeleteFile, App!Tamper, App!SetUp, App!DropRows,
         App!table, App!saving, App!reading, App!gateway,
         Notary!FileStep, Notary!StoreFile, Notary!StoreFileFails, Notary!InsertFile,
         Notary!InsertFileFails, Notary!DeleteFile, Notary!Tamper, Notary!SetUp,
         Notary!DropRows, Notary!table, Notary!saving, Notary!reading, Notary!gateway

LEMMA SameSaveSteps ==
  \A s : /\ App!OwnStep(s) <=> Notary!OwnStep(s)
         /\ App!DeleteCert(s) <=> Notary!DeleteCert(s)
         /\ \A f : App!TakeId(s, f) <=> Notary!TakeId(s, f)
  BY DEF App!OwnStep, App!StartSave, App!Send, App!SendFails, App!Bind, App!BindFails,
         App!TakeId, App!DeleteCert, App!SetPc, App!DropRows,
         App!table, App!saving, App!reading, App!gateway,
         Notary!OwnStep, Notary!StartSave, Notary!Send, Notary!SendFails, Notary!Bind,
         Notary!BindFails, Notary!TakeId, Notary!DeleteCert, Notary!SetPc,
         Notary!DropRows, Notary!table, Notary!saving, Notary!reading, Notary!gateway

LEMMA SameReadSteps == \A r : App!ReadStep(r) <=> Notary!ReadStep(r)
  BY DEF App!ReadStep, App!ReadRow, App!HashFile, App!CheckAgrees, App!CheckFails,
         App!Serve, App!Finish, App!InBlock, App!SetRd,
         App!table, App!saving, App!reading, App!gateway,
         Notary!ReadStep, Notary!ReadRow, Notary!HashFile, Notary!CheckAgrees,
         Notary!CheckFails, Notary!Serve, Notary!Finish, Notary!InBlock, Notary!SetRd,
         Notary!table, Notary!saving, Notary!reading, Notary!gateway

LEMMA SameAnsweredSteps == \A s, f : App!Answered(s, f) <=> Notary!Answered(s, f)
  BY SameSaveSteps DEF App!Answered, Notary!Answered, App!Gateway!Answer,
     Notary!Gateway!Answer

LEMMA SameGatewaySteps ==
  /\ \A t : App!GatewayStep(t) <=> Notary!GatewayStep(t)
  /\ \A S : App!GatewayLoses(S) <=> Notary!GatewayLoses(S)
  BY SameTxs DEF App!GatewayStep, App!GatewayLoses, App!Gateway!Enqueue, App!Gateway!Succeed,
         App!Gateway!Fail, App!Gateway!Land, App!Gateway!Lose,
         App!table, App!saving, App!reading, App!gateway,
         Notary!GatewayStep, Notary!GatewayLoses, Notary!Gateway!Enqueue,
         Notary!Gateway!Succeed, Notary!Gateway!Fail, Notary!Gateway!Land,
         Notary!Gateway!Lose, Notary!table, Notary!saving, Notary!reading,
         Notary!gateway

LEMMA SameSafety ==
  /\ App!Init <=> Notary!Init
  /\ App!Next <=> Notary!Next
  /\ UNCHANGED App!vars <=> UNCHANGED Notary!vars
<1>1. App!Init <=> Notary!Init
  BY SameTxs DEF App!Init, Notary!Init, App!Gateway!Init, Notary!Gateway!Init
<1>2. App!Next <=> Notary!Next
  BY SameFileSteps, SameSaveSteps, SameReadSteps, SameAnsweredSteps, SameGatewaySteps, SameTxs
  DEF App!Next, Notary!Next, App!SaveStep, Notary!SaveStep
<1>3. UNCHANGED App!vars <=> UNCHANGED Notary!vars
  BY DEF App!vars, Notary!vars, App!table, App!saving, App!reading, App!gateway,
         Notary!table, Notary!saving, Notary!reading, Notary!gateway
<1> QED BY <1>1, <1>2, <1>3

-----------------------------------------------------------------------------
(* The gateway works for calls that were made.                              *)

WorkedOnWasCalled ==
    \A t \in Txs : Status(t) # "new" \/ ledger[t] # "none" => t \in requested

LEMMA CalledFirst == IInv /\ CallsInv => WorkedOnWasCalled
<1> SUFFICES ASSUME IInv, CallsInv, NEW t \in Txs, t \notin requested
             PROVE  Status(t) = "new" /\ ledger[t] = "none"
  BY DEF WorkedOnWasCalled
<1>1. req[t] = "idle"
  BY DEF CallsInv
<1>2. Untouched(t)
  BY <1>1 DEF IInv, RequestInv
<1> QED BY <1>1, <1>2, RequestStatus DEF Untouched

(* Only the commit of a block decides about a transaction.                  *)
LEMMA RejectedByCommit ==
  ASSUME IInv, [Next]_vars, ~ \E t \in Txs : Commit(t)
  PROVE  Rejected' = Rejected
<1>1. CASE UNCHANGED ledger
  BY <1>1 DEF Rejected
<1>2. ASSUME NEW t \in Txs, SyncSubmit(t)
      PROVE  Rejected' = Rejected
  <2>1. ledger[t] = "none" /\ \E v \in {"none", "ordered"} : ledger' = [ledger EXCEPT ![t] = v]
    BY <1>2 DEF SyncSubmit, SetReq, OrdererAccepts, BroadcastThrows, IInv, TypeOK,
                RequestInv, Untouched
  <2> QED BY <2>1 DEF Rejected, IInv, TypeOK
<1>3. ASSUME NEW w \in Workers, Submit(w)
      PROVE  Rejected' = Rejected
  <2> DEFINE t == held[w]
  <2>1. t \in Txs
    BY <1>3, HeldStatus DEF Submit, SetPc, IInv
  <2>2. ledger[t] = "none" /\ \E v \in {"none", "ordered"} : ledger' = [ledger EXCEPT ![t] = v]
    BY <1>3, <2>1 DEF Submit, SetPc, OrdererAccepts, BroadcastThrows, IInv, TypeOK,
                      WorkerInv, Untouched
  <2> QED BY <2>1, <2>2 DEF Rejected, IInv, TypeOK
<1>4. UNCHANGED ledger \/ (\E t \in Txs : SyncSubmit(t)) \/ (\E w \in Workers : Submit(w))
  BY DEF Next, RequestStep, WorkerStep, vars, Propose, ProposeFails, CacheResponses, Offer,
         Reply, SyncCheckFails, SyncEvent, SyncAwaitFails, SyncSave, SyncSaveFails,
         Poll, CheckFails, Event, AwaitFails, RecordSuccess, RecordSuccessFails,
         RecordFailure, RecordFailureFails, Crash
<1> QED BY <1>1, <1>2, <1>3, <1>4

(* A request thread that has replied is done; a restart does not undo it.   *)
LEMMA RepliedStays ==
  ASSUME TypeOK, [Next]_vars, NEW t \in Txs, req[t] = "replied"
  PROVE  req'[t] = "replied"
<1>1. CASE UNCHANGED req
  BY <1>1
<1>2. ASSUME NEW u \in Txs, Propose(u) \/ ProposeFails(u) \/ RequestStep(u)
      PROVE  req'[t] = "replied"
  BY <1>2 DEF TypeOK, RequestStep, Propose, ProposeFails, CacheResponses, Offer, Reply,
              SyncCheckFails, SyncSubmit, SyncEvent, SyncAwaitFails, SyncSave,
              SyncSaveFails, SetReq
<1>3. CASE Crash
  BY <1>3 DEF Crash
<1> QED BY <1>1, <1>2, <1>3
        DEF Next, vars, Commit, WorkerStep, Poll, CheckFails, Submit, Event, AwaitFails,
            RecordSuccess, RecordSuccessFails, RecordFailure, RecordFailureFails

(* What the application does not see of a gateway step. *)
LEMMA AppFrame ==
  ASSUME UNCHANGED appVars
  PROVE  /\ UNCHANGED <<up, disk, Notary!table, Notary!saving, requested, Notary!reading>>
         /\ {t \in Txs : t[2] \in ids[t[1]]}' = {t \in Txs : t[2] \in ids[t[1]]}
  BY DEF appVars, Notary!table, Notary!saving, Notary!reading

LEMMA BlockMaps ==
  ASSUME IInv, CallsInv, UNCHANGED appVars, NEW t \in Txs, Commit(t),
         Rejected' # Rejected
  PROVE  Notary!GatewayStep(t)
<1>1. t \in requested /\ t \notin OnLedger
  BY CalledFirst DEF Commit, OnLedger, WorkedOnWasCalled
<1>2. Rejected' = Rejected \cup {t} /\ SameLedger
  BY DEF Commit, Rejected, SameLedger, OnLedger, IInv, TypeOK
<1>3. [u \in Txs |-> Status(u)]' = [u \in Txs |-> Status(u)]
  <2>1. \A u \in Txs : SameStatus(u)
    BY StatusFrame DEF Commit
  <2> QED BY <2>1 DEF SameStatus
<1> QED BY <1>1, <1>2, <1>3, AppFrame
        DEF Notary!GatewayStep, Notary!gateway, Rejected, SameLedger, OnLedger

LEMMA PromiseMaps ==
  ASSUME UNCHANGED appVars, Rejected' = Rejected,
         WorkedOnWasCalled', Promise!Next \/ UNCHANGED Promise!vars
  PROVE  Notary!Next \/ UNCHANGED Notary!vars
<1> USE DEF WorkedOnWasCalled, appVars
<1> DEFINE Stays == /\ [u \in Txs |-> Status(u)]' = [u \in Txs |-> Status(u)]
                    /\ OnLedger' = OnLedger
<1>1. ASSUME Stays PROVE UNCHANGED Notary!vars
  BY <1>1, AppFrame DEF Notary!vars, Notary!gateway, Rejected, OnLedger
<1>2. ASSUME NEW t \in Txs, Promise!Answer(t) \/ UNCHANGED Promise!vars
      PROVE  UNCHANGED Notary!vars
  BY <1>1, <1>2 DEF Promise!Answer, Promise!vars, OnLedger
<1>3. ASSUME NEW t \in Txs,
             Promise!Enqueue(t) \/ Promise!Succeed(t) \/ Promise!Fail(t)
      PROVE  Notary!GatewayStep(t)
  <2>1. [u \in Txs |-> Status(u)]'[t] # "new"
    BY <1>3 DEF Promise!Enqueue, Promise!Succeed, Promise!Fail
  <2>2. t \in requested
    BY <2>1
  <2> QED BY <1>3, <2>2, AppFrame
          DEF Promise!Enqueue, Promise!Succeed, Promise!Fail, Notary!GatewayStep,
              Notary!Gateway!Enqueue, Notary!Gateway!Succeed, Notary!Gateway!Fail, Rejected
<1>4. ASSUME NEW t \in Txs, Promise!Land(t)
      PROVE  Notary!GatewayStep(t)
  <2>1. t \in OnLedger'
    BY <1>4 DEF Promise!Land, OnLedger
  <2>2. t \in requested /\ t \notin Rejected
    BY <2>1 DEF OnLedger, Rejected
  <2> QED BY <1>4, <2>2, AppFrame
          DEF Promise!Land, Notary!GatewayStep, Notary!Gateway!Land, Rejected
<1>5. ASSUME NEW S \in SUBSET Txs, Promise!Lose(S)
      PROVE  S \in SUBSET requested /\ Notary!GatewayLoses(S)
  <2>1. \A t \in S : [u \in Txs |-> Status(u)]'[t] = "lost"
    BY <1>5 DEF Promise!Lose
  <2>2. S \in SUBSET requested
    BY <2>1
  <2> QED BY <1>5, <2>2, SameTxs, AppFrame
          DEF Promise!Lose, Notary!GatewayLoses, Notary!Gateway!Lose, Rejected
<1> QED BY <1>1, <1>2, <1>3, <1>4, <1>5, SameTxs DEF Promise!Next, Promise!vars, Notary!Next, OnLedger

LEMMA GatewayMaps ==
  ASSUME IInv, IInv', CallsInv, CallsInv', GatewayStep
  PROVE  Notary!Next \/ UNCHANGED Notary!vars
<1>1. Next /\ UNCHANGED appVars
  BY DEF GatewayStep
<1>2. CASE Rejected' # Rejected
  <2>1. PICK t \in Txs : Commit(t)
    BY <1>1, <1>2, RejectedByCommit
  <2>2. Notary!GatewayStep(t)
    BY <1>1, <1>2, <2>1, BlockMaps
  <2> QED BY <2>2, SameTxs DEF Notary!Next
<1>3. CASE Rejected' = Rejected
  <2>1. WorkedOnWasCalled'
    BY CalledFirst, PTL
  <2>2. Promise!Next \/ UNCHANGED Promise!vars
    BY <1>1, StepMaps
  <2> QED BY <1>1, <1>3, <2>1, <2>2, PromiseMaps
<1> QED BY <1>2, <1>3

-----------------------------------------------------------------------------
(* The steps of the application.                                            *)

(* What a replied transaction is for the application. *)
LEMMA RepliedIsAnswerable ==
  ASSUME IInv, NEW t \in Txs, req[t] = "replied"
  PROVE  IF AsyncSend THEN Status(t) # "new" ELSE Status(t) = "success"
<1>1. CASE AsyncSend
  BY <1>1, StatusOf DEF IInv, NoSilentLoss, RowInv, Row, StatusMeans
<1>2. CASE ~AsyncSend
  <2>1. certBlock[t] = <<1>>
    BY <1>2 DEF IInv, RequestInv
  <2> QED BY <1>2, <2>1, StatusOf DEF StatusMeans
<1> QED BY <1>1, <1>2

LEMMA ReceiveMaps ==
  ASSUME BothInv, NEW s \in Saves, NEW f \in Files, Receive(s, f)
  PROVE  Notary!Answered(s, f)
<1> DEFINE t == <<s, f>>
<1>1. t \in Txs /\ req[t] = "replied" /\ UNCHANGED vars /\ Notary!TakeId(s, f)
  BY SameSaveSteps, SameTxs DEF Receive, BothInv, Notary!IInv, Notary!TypeOK
<1>2. [u \in Txs |-> Status(u)]' = [u \in Txs |-> Status(u)] /\ OnLedger' = OnLedger
  <2>1. \A u \in Txs : SameStatus(u)
    BY <1>1, StatusFrame DEF vars
  <2> QED BY <1>1, <2>1 DEF SameStatus, OnLedger, vars
<1>3. {u \in Txs : u[2] \in ids[u[1]]}' = {u \in Txs : u[2] \in ids[u[1]]} \cup {t}
  <2>1. ids \in [Saves -> SUBSET Files] /\ ids' = [ids EXCEPT ![s] = @ \cup {f}]
    BY <1>1 DEF Notary!TakeId, BothInv, Notary!IInv, Notary!TypeOK
  <2>2. \A u \in Txs : u = <<u[1], u[2]>> /\ u[1] \in Saves
    BY SameTxs DEF Notary!SaveTxs
  <2>3. ASSUME NEW u \in Txs
        PROVE  u[2] \in ids'[u[1]] <=> u[2] \in ids[u[1]] \/ u = t
    BY <2>1, <2>2
  <2> QED BY <1>1, <2>3
<1>4. Notary!Gateway!Answer(t)
  BY <1>1, <1>2, <1>3, RepliedIsAnswerable DEF BothInv, Notary!Gateway!Answer, OnLedger
<1> QED BY <1>1, <1>4 DEF Notary!Answered

LEMMA ApplicationMaps ==
  ASSUME BothInv, ApplicationStep
  PROVE  Notary!Next
  BY SameFileSteps, SameSaveSteps, SameReadSteps, ReceiveMaps
  DEF ApplicationStep, Notary!Next, Notary!SaveStep

LEMMA ApplicationKeepsCalls ==
  ASSUME BothInv, ApplicationStep
  PROVE  CallsInv'
<1>1. req' = req
  BY DEF ApplicationStep, Receive, vars
<1>2. requested \subseteq requested'
  BY DEF ApplicationStep, Receive, App!TakeId, App!reading, App!FileStep, App!StoreFile,
         App!StoreFileFails, App!InsertFile, App!InsertFileFails, App!DeleteFile,
         App!Tamper, App!OwnStep, App!StartSave, App!Send, App!SendFails, App!Bind,
         App!BindFails, App!DeleteCert, App!ReadStep, App!ReadRow, App!HashFile,
         App!CheckAgrees, App!CheckFails, App!Serve, App!Finish
<1>3. ids' = ids \/ \E s \in Saves, f \in Files : Receive(s, f)
  BY DEF ApplicationStep, App!saving, App!FileStep, App!StoreFile,
         App!StoreFileFails, App!InsertFile, App!InsertFileFails, App!DeleteFile,
         App!Tamper, App!OwnStep, App!StartSave, App!Send, App!SendFails, App!Bind,
         App!BindFails, App!DeleteCert, App!ReadStep, App!ReadRow, App!HashFile,
         App!CheckAgrees, App!CheckFails, App!Serve, App!Finish
<1>4. ASSUME NEW s \in Saves, NEW f \in Files, Receive(s, f), NEW t \in Txs,
             t[2] \in ids'[t[1]]
      PROVE  req[t] = "replied"
  <2>1. ids \in [Saves -> SUBSET Files] /\ ids' = [ids EXCEPT ![s] = @ \cup {f}]
    BY <1>4 DEF Receive, App!TakeId, BothInv, Notary!IInv, Notary!TypeOK
  <2>2. t = <<t[1], t[2]>> /\ t[1] \in Saves
    BY SameTxs DEF Notary!SaveTxs
  <2>3. t[2] \in ids[t[1]] \/ t = <<s, f>>
    BY <1>4, <2>1, <2>2
  <2> QED BY <1>4, <2>3 DEF Receive, BothInv, CallsInv
<1> QED BY <1>1, <1>2, <1>3, <1>4 DEF CallsInv, BothInv

-----------------------------------------------------------------------------
LEMMA InitBoth == BothInit => BothInv
<1> SUFFICES ASSUME BothInit PROVE BothInv
  OBVIOUS
<1>1. IInv
  BY InitIInv DEF BothInit
<1>2. Notary!IInv
  BY SameSafety, NotaryAssumed, Notary!InitIInv DEF BothInit
<1>3. CallsInv
  <2>1. \A t \in Txs : req[t] = "idle" /\ t[1] \in Saves
    BY SameTxs DEF BothInit, Init, Notary!SaveTxs
  <2>2. \A s \in Saves : ids[s] = {}
    BY DEF BothInit, App!Init
  <2> QED BY <2>1, <2>2 DEF CallsInv
<1> QED BY <1>1, <1>2, <1>3 DEF BothInv

LEMMA GatewayKeepsCalls ==
  ASSUME BothInv, GatewayStep
  PROVE  CallsInv'
  BY RepliedStays DEF BothInv, IInv, CallsInv, GatewayStep, appVars

(* Seen from the gateway every step is one of its own, or none; seen from   *)
(* the application as well.                                                 *)
LEMMA StepsAsGateway == [BothNext]_allVars => [Next]_vars
  BY DEF BothNext, allVars, ApplicationStep, Receive, GatewayStep

LEMMA StepsOfBoth ==
  BothInv /\ [BothNext]_allVars => BothInv' /\ [Notary!Next]_(Notary!vars)
<1> SUFFICES ASSUME BothInv, [BothNext]_allVars
             PROVE  BothInv' /\ (Notary!Next \/ UNCHANGED Notary!vars)
  OBVIOUS
<1>1. IInv'
  BY StepsAsGateway, StepKeepsIInv DEF BothInv
<1>2. CASE UNCHANGED allVars
  <2>1. CallsInv'
    BY <1>2 DEF allVars, vars, appVars, CallsInv, BothInv
  <2>2. UNCHANGED Notary!vars
    <3>1. \A u \in Txs : SameStatus(u)
      BY <1>2, StatusFrame DEF allVars, vars
    <3> QED BY <1>2, <3>1, AppFrame
            DEF allVars, vars, SameStatus, Notary!vars, Notary!gateway
  <2>3. Notary!IInv'
    BY <2>2, NotaryAssumed, Notary!StepKeepsIInv DEF BothInv
  <2> QED BY <1>1, <2>1, <2>2, <2>3 DEF BothInv
<1>3. CASE BothNext
  <2>1. CallsInv'
    BY <1>3, ApplicationKeepsCalls, GatewayKeepsCalls DEF BothNext
  <2>2. Notary!Next \/ UNCHANGED Notary!vars
    BY <1>1, <1>3, <2>1, ApplicationMaps, GatewayMaps DEF BothNext, BothInv
  <2>3. Notary!IInv'
    BY <2>2, NotaryAssumed, Notary!StepKeepsIInv DEF BothInv
  <2> QED BY <1>1, <2>1, <2>2, <2>3 DEF BothInv
<1> QED BY <1>2, <1>3

(* The gateway works only on calls that were made, the application has only *)
(* ids that were replied, and both keep their own invariants.               *)
THEOREM BothInvariant == BothSpec => []BothInv
  BY InitBoth, StepsOfBoth, PTL DEF BothSpec

(* The gateway behind the application is FabricSubmit: what is proved and   *)
(* checked of it alone holds there.                                         *)
THEOREM GatewayIsFabricSubmit == BothSpec => Spec
<1>1. BothInit => Init
  BY DEF BothInit
<1> QED BY <1>1, StepsAsGateway, PTL DEF BothSpec, Spec

(* CertNotary in front of SubmitPromise stands for the application in front *)
(* of the real gateway.                                                     *)
THEOREM NotaryImplemented == BothSpec => KeepsNotary
<1>1. BothInit => App!Init
  BY DEF BothInit
<1>2. BothInv /\ [BothNext]_allVars => [App!Next]_(App!vars)
  BY StepsOfBoth, SameSafety
<1> QED BY <1>1, <1>2, BothInvariant, PTL DEF BothSpec, KeepsNotary, App!Safety

(* CertInfoServiceImpl.save and FabricService, end to end: the tables of    *)
(* the two databases and the ledger agree on every certified file.          *)
THEOREM TablesOfBothAgree == BothSpec => []TablesAgree
<1>1. BothInv => TablesAgree
  <2> SUFFICES ASSUME BothInv, NEW f \in Files, txOf[f] # None
               PROVE  IF AsyncSend
                      THEN \/ InQueue(txOf[f]) \/ IsHeld(txOf[f])
                           \/ certBlock[txOf[f]] # <<>> \/ txOf[f] \in lost
                      ELSE ledger[txOf[f]] = "valid" /\ certBlock[txOf[f]] = <<1>>
    BY DEF TablesAgree
  <2>1. txOf[f] \in Txs /\ req[txOf[f]] = "replied"
    BY DEF BothInv, CallsInv, Notary!IInv, Notary!RowsInv
  <2>2. AsyncSend => \/ InQueue(txOf[f]) \/ IsHeld(txOf[f])
                     \/ certBlock[txOf[f]] # <<>> \/ txOf[f] \in lost
    BY <2>1 DEF BothInv, IInv, NoSilentLoss
  <2>3. ~AsyncSend => certBlock[txOf[f]] = <<1>> /\ ledger[txOf[f]] = "valid"
    BY <2>1 DEF BothInv, IInv, RequestInv, RowInv, Row
  <2> QED BY <2>2, <2>3
<1> QED BY <1>1, BothInvariant, PTL

(* In front of the real gateway the certificates are what they are in front *)
(* of the promised one.                                                     *)
THEOREM CertificatesHold ==
    BothSpec =>
        /\ [](App!BoundTogether /\ App!NoDanglingFile /\ App!AllOrNothing)
        /\ [](App!SyncBoundIsOnLedger /\ App!ServedIsNotarized)
        /\ []App!CertificateKeepsFiles
<1>1. BothSpec => Notary!Safety
  <2>1. BothInit => Notary!Init
    BY SameSafety DEF BothInit
  <2> QED BY <2>1, StepsOfBoth, BothInvariant, PTL DEF BothSpec, Notary!Safety
<1>2. /\ Notary!BoundTogether => App!BoundTogether
      /\ Notary!NoDanglingFile => App!NoDanglingFile
      /\ Notary!AllOrNothing => App!AllOrNothing
      /\ Notary!SyncBoundIsOnLedger => App!SyncBoundIsOnLedger
      /\ Notary!ServedIsNotarized => App!ServedIsNotarized
      /\ Notary!CertificateKeepsFiles => App!CertificateKeepsFiles
  BY DEF Notary!BoundTogether, App!BoundTogether, Notary!NoDanglingFile,
         App!NoDanglingFile, Notary!AllOrNothing, App!AllOrNothing,
         Notary!SyncBoundIsOnLedger, App!SyncBoundIsOnLedger, Notary!ServedIsNotarized,
         App!ServedIsNotarized, Notary!CertificateKeepsFiles, App!CertificateKeepsFiles,
         Notary!OwnFiles, App!OwnFiles
<1>3. Notary!Safety =>
        /\ []Notary!BoundTogether /\ []Notary!NoDanglingFile /\ []Notary!AllOrNothing
        /\ []Notary!SyncBoundIsOnLedger /\ []Notary!ServedIsNotarized
        /\ []Notary!CertificateKeepsFiles
  BY NotaryAssumed, Notary!RowsBoundTogether, Notary!NothingDangles,
     Notary!SaveIsAllOrNothing, Notary!BoundIsOnLedger, Notary!ServedNotarized,
     Notary!FilesAreKept
<1> QED BY <1>1, <1>2, <1>3, PTL
=============================================================================
