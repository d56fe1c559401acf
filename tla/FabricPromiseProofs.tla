------------------------- MODULE FabricPromiseProofs -------------------------
(***************************************************************************)
(* FabricSubmit implements SubmitPromise, for every set of transactions    *)
(* and workers: the initial states agree, and every step of the gateway is *)
(* a step of the promise or leaves the mapped state alone.  Most steps do  *)
(* the latter, so the lemmas are about what disturbs a status.             *)
(*                                                                         *)
(* At the end what a query beside the pipeline may rely on (ChainLookup):  *)
(* rows with status 1, because the promise never takes a transaction off   *)
(* the ledger.                                                             *)
(***************************************************************************)
EXTENDS FabricSubmitProofs, ChainLookup

(* The mapped state, by name. *)
Answered == {t \in Txs : req[t] = "replied"}
OnLedger == {t \in Txs : ledger[t] = "valid"}
SameStatus(u) == Status(u)' = Status(u)
SameAnswers == Answered' = Answered
SameLedger == OnLedger' = OnLedger

(* Status reads nothing but these four variables. *)
LEMMA StatusFrame ==
  ASSUME UNCHANGED <<queue, held, certBlock, lost>>
  PROVE  \A u \in Txs : SameStatus(u)
  BY DEF SameStatus, Status, InQueue, IsHeld

LEMMA MappedStutter ==
  ASSUME \A u \in Txs : SameStatus(u), SameAnswers, SameLedger
  PROVE  UNCHANGED Promise!vars
<1>1. [u \in Txs |-> Status(u)]' = [u \in Txs |-> Status(u)]
  BY DEF SameStatus
<1> QED BY <1>1 DEF Promise!vars, SameAnswers, SameLedger, Answered, OnLedger

(* One transaction goes from one status to another. *)
LEMMA MappedMove ==
  ASSUME NEW t \in Txs, NEW s, Status(t)' = s,
         \A u \in Txs \ {t} : SameStatus(u)
  PROVE  [u \in Txs |-> Status(u)]' = [[u \in Txs |-> Status(u)] EXCEPT ![t] = s]
  BY DEF SameStatus

LEMMA MapsSucceed ==
  ASSUME NEW t \in Txs, Status(t) = (IF AsyncSend THEN "pending" ELSE "new"),
         ledger[t] = "valid", Status(t)' = "success",
         \A u \in Txs \ {t} : SameStatus(u), SameAnswers, SameLedger
  PROVE  Promise!Succeed(t)
  BY MappedMove DEF Promise!Succeed, SameAnswers, SameLedger, Answered, OnLedger

LEMMA MapsFail ==
  ASSUME NEW t \in Txs, Status(t) = "pending", Status(t)' = "failure",
         \A u \in Txs \ {t} : SameStatus(u), SameAnswers, SameLedger
  PROVE  Promise!Fail(t)
  BY MappedMove DEF Promise!Fail, SameAnswers, SameLedger, Answered, OnLedger

LEMMA MapsEnqueue ==
  ASSUME NEW t \in Txs, AsyncSend, Status(t) = "new", Status(t)' = "pending",
         \A u \in Txs \ {t} : SameStatus(u), SameAnswers, SameLedger
  PROVE  Promise!Enqueue(t)
  BY MappedMove DEF Promise!Enqueue, SameAnswers, SameLedger, Answered, OnLedger

LEMMA MapsAnswer ==
  ASSUME NEW t \in Txs,
         IF AsyncSend THEN Status(t) # "new" ELSE Status(t) = "success",
         Answered' = Answered \cup {t},
         \A u \in Txs : SameStatus(u), SameLedger
  PROVE  Promise!Answer(t)
<1>1. [u \in Txs |-> Status(u)]' = [u \in Txs |-> Status(u)]
  BY DEF SameStatus
<1> QED BY <1>1 DEF Promise!Answer, SameLedger, Answered, OnLedger

LEMMA MapsLand ==
  ASSUME NEW t \in Txs, OnLedger' = OnLedger \cup {t},
         \A u \in Txs : SameStatus(u), SameAnswers
  PROVE  Promise!Land(t)
<1>1. [u \in Txs |-> Status(u)]' = [u \in Txs |-> Status(u)]
  BY DEF SameStatus
<1> QED BY <1>1 DEF Promise!Land, SameAnswers, Answered, OnLedger

LEMMA MapsLose ==
  ASSUME NEW S \in SUBSET Txs, \A u \in S : Status(u) = "pending",
         \A u \in Txs : Status(u)' = (IF u \in S THEN "lost" ELSE Status(u)),
         SameAnswers, SameLedger
  PROVE  Promise!Lose(S)
  BY DEF Promise!Lose, SameAnswers, SameLedger, Answered, OnLedger
-----------------------------------------------------------------------------
(* The status, by the row and the whereabouts of the transaction. *)
StatusMeans(t) ==
    /\ certBlock[t] \in {<<1>>, <<1, -1>>} => Status(t) = "success"
    /\ certBlock[t] = <<-1>> => Status(t) = "failure"
    /\ certBlock[t] = <<>> /\ t \in lost => Status(t) = "lost"
    /\ certBlock[t] = <<>> /\ t \notin lost =>
         Status(t) = IF InQueue(t) \/ IsHeld(t) THEN "pending" ELSE "new"

LEMMA StatusOf == \A t : StatusMeans(t) /\ StatusMeans(t)'
<1>1. /\ <<1>>[1] = 1 /\ <<1, -1>>[1] = 1 /\ <<-1>>[1] # 1
      /\ <<1>> # <<>> /\ <<1, -1>> # <<>> /\ <<-1>> # <<>>
  OBVIOUS
<1> QED BY <1>1 DEF StatusMeans, Status

(* The status of the transaction a worker holds. *)
LEMMA HeldStatus ==
  ASSUME IInv, NEW w \in Workers, pc[w] # "idle"
  PROVE  /\ held[w] \in Txs /\ AsyncSend /\ held[w] \notin lost
         /\ certBlock[held[w]] = <<>> => Status(held[w]) = "pending"
         /\ req[held[w]] \in {"offered", "replied"}
<1>1. /\ held[w] \in Txs /\ AsyncSend /\ held[w] \notin lost
      /\ req[held[w]] \in {"offered", "replied"}
  BY DEF IInv, TypeOK, WorkerInv, HandedOver
<1>2. IsHeld(held[w])
  BY DEF IsHeld
<1> QED BY <1>1, <1>2, StatusOf DEF StatusMeans

(* A transaction whose request thread still has it is new. *)
LEMMA RequestStatus ==
  ASSUME IInv, NEW t \in Txs, req[t] \notin {"offered", "replied"},
         certBlock[t] = <<>>, t \notin lost
  PROVE  Status(t) = "new" /\ ~InQueue(t) /\ ~IsHeld(t)
<1>1. ~InQueue(t)
  BY DEF IInv, QueueInv, InQueue, HandedOver
<1>2. ~IsHeld(t)
  <2> SUFFICES ASSUME NEW v \in Workers, held[v] = t PROVE FALSE
    BY DEF IsHeld
  <2>1. pc[v] # "idle"
    BY SubmitAssumption DEF IInv, WorkerInv
  <2> QED BY <2>1, HeldStatus
<1> QED BY <1>1, <1>2, StatusOf DEF StatusMeans

(* A worker that lets go of its transaction changes no other status. *)
LEMMA OthersUntouched ==
  ASSUME IInv, NEW w \in Workers,
         UNCHANGED queue, held' \in {held, [held EXCEPT ![w] = NoTx]},
         \A u \in Txs : u # held[w] => /\ certBlock'[u] = certBlock[u]
                                       /\ u \in lost' <=> u \in lost
  PROVE  \A u \in Txs \ {held[w]} : SameStatus(u)
<1> SUFFICES ASSUME NEW u \in Txs, u # held[w]
             PROVE  SameStatus(u)
  OBVIOUS
<1>1. InQueue(u)' <=> InQueue(u)
  BY DEF InQueue
<1>2. IsHeld(u)' <=> IsHeld(u)
  BY SubmitAssumption DEF IsHeld, IInv, TypeOK
<1> QED BY <1>1, <1>2 DEF SameStatus, Status

-----------------------------------------------------------------------------
(* The steps of the gateway. *)

LEMMA MapsRequest ==
  ASSUME IInv, NEW t \in Txs,
         Propose(t) \/ ProposeFails(t) \/ CacheResponses(t) \/ SyncCheckFails(t)
           \/ SyncSubmit(t) \/ SyncEvent(t) \/ SyncAwaitFails(t)
  PROVE  UNCHANGED Promise!vars
<1>1. UNCHANGED <<queue, held, certBlock, lost>>
  BY DEF Propose, ProposeFails, CacheResponses, SyncCheckFails, SyncSubmit,
         SyncEvent, SyncAwaitFails
<1>2. SameAnswers
  BY DEF Propose, ProposeFails, CacheResponses, SyncCheckFails, SyncSubmit,
         SyncEvent, SyncAwaitFails, SetReq, SameAnswers, Answered, IInv, TypeOK
<1>3. SameLedger
  <2>1. ASSUME SyncSubmit(t)
        PROVE  SameLedger
    <3>1. ledger[t] # "valid"
      BY <2>1 DEF SyncSubmit, SetReq, IInv, RequestInv, Untouched
    <3> QED BY <2>1, <3>1
            DEF SyncSubmit, OrdererAccepts, BroadcastThrows, SameLedger, OnLedger,
                IInv, TypeOK
  <2> QED BY <2>1
          DEF Propose, ProposeFails, CacheResponses, SyncCheckFails, SyncEvent,
              SyncAwaitFails, SameLedger, OnLedger
<1> QED BY <1>1, <1>2, <1>3, StatusFrame, MappedStutter

LEMMA MapsOffer ==
  ASSUME IInv, NEW t \in Txs, Offer(t)
  PROVE  Promise!Enqueue(t)
<1>1. AsyncSend /\ Untouched(t)
  BY DEF Offer, SetReq, IInv, RequestInv
<1>2. Status(t) = "new"
  BY <1>1, RequestStatus DEF Offer, SetReq, Untouched
<1>3. /\ Len(queue') = Len(queue) + 1 /\ Len(queue) \in Nat
      /\ queue'[Len(queue) + 1] = t
      /\ \A i \in 1..Len(queue) : queue'[i] = queue[i]
  BY DEF Offer, IInv, TypeOK
<1>4. InQueue(t)'
  BY <1>3 DEF InQueue
<1>5. Status(t)' = "pending"
  BY <1>1, <1>4, StatusOf DEF StatusMeans, Untouched, Offer
<1>6. ASSUME NEW u \in Txs, u # t
      PROVE  SameStatus(u)
  <2>1. InQueue(u)' <=> InQueue(u)
    BY <1>3, <1>6 DEF InQueue
  <2>2. IsHeld(u)' <=> IsHeld(u)
    BY DEF Offer, IsHeld
  <2> QED BY <2>1, <2>2 DEF SameStatus, Status, Offer
<1>7. SameAnswers /\ SameLedger
  BY DEF Offer, SetReq, SameAnswers, SameLedger, Answered, OnLedger, IInv, TypeOK
<1> QED BY <1>1, <1>2, <1>5, <1>6, <1>7, MapsEnqueue

LEMMA MapsReply ==
  ASSUME IInv, NEW t \in Txs, Reply(t)
  PROVE  Promise!Answer(t)
<1>1. \A u \in Txs : SameStatus(u)
  BY StatusFrame DEF Reply
<1>2. Answered' = Answered \cup {t} /\ SameLedger
  BY DEF Reply, SetReq, SameLedger, Answered, OnLedger, IInv, TypeOK
<1>3. CASE AsyncSend
  <2>1. \/ certBlock[t] \in {<<1>>, <<1, -1>>} \/ certBlock[t] = <<-1>>
        \/ certBlock[t] = <<>> /\ t \in lost
        \/ certBlock[t] = <<>> /\ t \notin lost /\ (InQueue(t) \/ IsHeld(t))
    BY <1>3 DEF Reply, SetReq, IInv, RowInv, Row, NoSilentLoss
  <2>2. Status(t) # "new"
    BY <2>1, StatusOf DEF StatusMeans
  <2> QED BY <1>1, <1>2, <1>3, <2>2, MapsAnswer
<1>4. CASE ~AsyncSend
  <2>1. Status(t) = "success"
    BY <1>4, StatusOf DEF StatusMeans, Reply, SetReq, IInv, RequestInv
  <2> QED BY <1>1, <1>2, <1>4, <2>1, MapsAnswer
<1> QED BY <1>3, <1>4

LEMMA MapsCommit ==
  ASSUME IInv, NEW t \in Txs, Commit(t)
  PROVE  Promise!Land(t) \/ UNCHANGED Promise!vars
<1>1. (\A u \in Txs : SameStatus(u)) /\ SameAnswers
  BY StatusFrame DEF Commit, SameAnswers, Answered
<1>2. OnLedger' = OnLedger \cup {t} \/ SameLedger
  BY DEF Commit, OnLedger, SameLedger, IInv, TypeOK
<1> QED BY <1>1, <1>2, MapsLand, MappedStutter

(* The synchronous insert, whatever becomes of its acknowledgement. *)
LEMMA MapsSyncSave ==
  ASSUME IInv, NEW t \in Txs, SyncSave(t) \/ SyncSaveFails(t)
  PROVE  Promise!Succeed(t) \/ UNCHANGED Promise!vars
<1>1. /\ req[t] = "recording" /\ ~AsyncSend /\ certBlock[t] = <<>>
      /\ ledger[t] = "valid" /\ t \notin lost
  BY DEF SyncSave, SyncSaveFails, SetReq, IInv, RequestInv, RowInv, Row
<1>2. Status(t) = "new"
  BY <1>1, RequestStatus
<1>3. /\ UNCHANGED <<queue, held, lost>>
      /\ SameAnswers /\ SameLedger
  BY <1>1 DEF SyncSave, SyncSaveFails, SetReq, SameAnswers, SameLedger, Answered,
          OnLedger, IInv, TypeOK
<1>4. CASE UNCHANGED certBlock
  BY <1>3, <1>4, StatusFrame, MappedStutter
<1>5. CASE Saved(t, 1)
  <2>1. certBlock'[t] = <<1>> /\ \A u \in Txs \ {t} : certBlock'[u] = certBlock[u]
    BY <1>1, <1>5, Rows DEF Saved, IInv, TypeOK
  <2>2. Status(t)' = "success"
    BY <2>1, StatusOf DEF StatusMeans
  <2>3. \A u \in Txs \ {t} : SameStatus(u)
    BY <1>3, <2>1 DEF SameStatus, Status, InQueue, IsHeld
  <2> QED BY <1>1, <1>2, <1>3, <2>2, <2>3, MapsSucceed
<1> QED BY <1>4, <1>5 DEF SyncSave, SyncSaveFails, SaveThrows

(* poll() moves a transaction from the queue into a worker's hands. *)
LEMMA MapsPoll ==
  ASSUME IInv, NEW w \in Workers, Poll(w)
  PROVE  UNCHANGED Promise!vars
<1>1. /\ Len(queue') = Len(queue) - 1 /\ Len(queue) \in Nat \ {0}
      /\ \A i \in 1..Len(queue') : queue'[i] = queue[i + 1]
      /\ Head(queue) = queue[1]
  BY DEF Poll, IInv, TypeOK
<1>2. held[w] = NoTx /\ held' = [held EXCEPT ![w] = queue[1]]
  BY <1>1 DEF Poll, SetPc, IInv, WorkerInv
<1>3. ASSUME NEW u \in Txs
      PROVE  (InQueue(u) \/ IsHeld(u)) <=> (InQueue(u)' \/ IsHeld(u)')
  <2>1. ASSUME InQueue(u) PROVE InQueue(u)' \/ IsHeld(u)'
    <3>1. PICK i \in 1..Len(queue) : queue[i] = u
      BY <2>1 DEF InQueue
    <3>2. CASE i = 1
      BY <1>2, <3>1, <3>2 DEF IsHeld, IInv, TypeOK
    <3>3. CASE i # 1
      <4>1. i - 1 \in 1..Len(queue') /\ queue'[i - 1] = u
        BY <1>1, <3>1, <3>3
      <4> QED BY <4>1 DEF InQueue
    <3> QED BY <3>2, <3>3
  <2>2. ASSUME IsHeld(u) PROVE IsHeld(u)'
    BY <1>2, <2>2, SubmitAssumption DEF IsHeld, IInv, TypeOK
  <2>3. ASSUME InQueue(u)' PROVE InQueue(u)
    <3>1. PICK i \in 1..Len(queue') : queue'[i] = u
      BY <2>3 DEF InQueue
    <3>2. i + 1 \in 1..Len(queue) /\ queue[i + 1] = u
      BY <1>1, <3>1
    <3> QED BY <3>2 DEF InQueue
  <2>4. ASSUME IsHeld(u)' PROVE IsHeld(u) \/ InQueue(u)
    <3>1. PICK v \in Workers : held'[v] = u
      BY <2>4 DEF IsHeld
    <3>2. CASE v = w
      BY <1>1, <1>2, <3>1, <3>2 DEF InQueue, IInv, TypeOK
    <3>3. CASE v # w
      BY <1>2, <3>1, <3>3 DEF IsHeld, IInv, TypeOK
    <3> QED BY <3>2, <3>3
  <2> QED BY <2>1, <2>2, <2>3, <2>4
<1>4. \A u \in Txs : SameStatus(u)
  BY <1>3 DEF Poll, SameStatus, Status
<1>5. SameAnswers /\ SameLedger
  BY DEF Poll, SameAnswers, SameLedger, Answered, OnLedger
<1> QED BY <1>4, <1>5, MappedStutter

(* Between poll() and the insert nothing is settled. *)
LEMMA MapsWorkerMove ==
  ASSUME IInv, NEW w \in Workers,
         CheckFails(w) \/ Submit(w) \/ Event(w) \/ AwaitFails(w)
  PROVE  UNCHANGED Promise!vars
<1>1. UNCHANGED <<queue, held, certBlock, lost>> /\ SameAnswers
  BY DEF CheckFails, Submit, Event, AwaitFails, SameAnswers, Answered
<1>2. ASSUME Submit(w)
      PROVE  SameLedger
  <2>1. held[w] \in Txs /\ ledger[held[w]] # "valid"
    BY <1>2 DEF Submit, SetPc, IInv, TypeOK, WorkerInv, Untouched
  <2> QED BY <1>2, <2>1
          DEF Submit, OrdererAccepts, BroadcastThrows, SameLedger, OnLedger,
              IInv, TypeOK
<1>3. SameLedger
  BY <1>2 DEF CheckFails, Event, AwaitFails, SameLedger, OnLedger
<1> QED BY <1>1, <1>3, StatusFrame, MappedStutter

(* A row with status 1, whatever becomes of its acknowledgement. *)
LEMMA MapsRecordSuccess ==
  ASSUME IInv, NEW w \in Workers, RecordSuccess(w) \/ RecordSuccessFails(w)
  PROVE  Promise!Succeed(held[w]) \/ UNCHANGED Promise!vars
<1> DEFINE t == held[w]
<1>1. /\ pc[w] = "recording" /\ certBlock[t] = <<>> /\ ledger[t] = "valid"
  BY DEF RecordSuccess, RecordSuccessFails, Release, SetPc, IInv, WorkerInv
<1>2. t \in Txs /\ AsyncSend /\ Status(t) = "pending" /\ t \notin lost
  BY <1>1, HeldStatus
<1>3. /\ UNCHANGED <<queue, lost>> /\ held' \in {held, [held EXCEPT ![w] = NoTx]}
      /\ SameAnswers /\ SameLedger
  BY DEF RecordSuccess, RecordSuccessFails, Release, SameAnswers, SameLedger,
         Answered, OnLedger
<1>4. CASE RecordSuccessFails(w) /\ UNCHANGED certBlock
  BY <1>3, <1>4, StatusFrame, MappedStutter DEF RecordSuccessFails
<1>5. CASE Saved(t, 1)
  <2>1. certBlock'[t] = <<1>> /\ \A u \in Txs : u # t => certBlock'[u] = certBlock[u]
    BY <1>1, <1>2, <1>5, Rows DEF Saved, IInv, TypeOK
  <2>2. \A u \in Txs \ {t} : SameStatus(u)
    BY <1>3, <2>1, OthersUntouched
  <2>3. ASSUME NEW u, u = t
        PROVE  Status(u)' = "success"
    BY <2>1, <2>3, StatusOf DEF StatusMeans
  <2> HIDE DEF t
  <2>4. Promise!Succeed(t)
    BY <1>1, <1>2, <1>3, <2>2, <2>3, MapsSucceed
  <2> QED BY <2>4 DEF t
<1> QED BY <1>4, <1>5 DEF RecordSuccess, RecordSuccessFails, SaveThrows
(* A row with status -1: the failure of a pending transaction, or a second  *)
(* row behind a success, which changes nothing of the promise; or the loss  *)
(* of the transaction.                                                      *)
LEMMA MapsRecordFailure ==
  ASSUME IInv, NEW w \in Workers, RecordFailure(w) \/ RecordFailureFails(w)
  PROVE  \/ Promise!Fail(held[w])
         \/ Promise!Lose({held[w]})
         \/ UNCHANGED Promise!vars
<1> DEFINE t == held[w]
<1>1. pc[w] = "failing" /\ (certBlock[t] = <<>> \/ certBlock[t] = <<1>>)
  BY DEF RecordFailure, RecordFailureFails, Release, SetPc, IInv, WorkerInv
<1>2. t \in Txs /\ t \notin lost /\ (certBlock[t] = <<>> => Status(t) = "pending")
  BY <1>1, HeldStatus
<1>3. /\ UNCHANGED queue /\ held' \in {held, [held EXCEPT ![w] = NoTx]}
      /\ \A u : u # t => (u \in lost' <=> u \in lost)
      /\ SameAnswers /\ SameLedger
  BY DEF RecordFailure, RecordFailureFails, Release, SameAnswers, SameLedger,
         Answered, OnLedger
<1>4. CASE Saved(t, -1)
  <2>1. /\ certBlock[t] = <<>> => certBlock'[t] = <<-1>>
        /\ certBlock[t] = <<1>> => certBlock'[t] = <<1, -1>>
        /\ \A u \in Txs : u # t => certBlock'[u] = certBlock[u]
    BY <1>2, <1>4, Rows DEF Saved, IInv, TypeOK
  <2>2. \A u \in Txs \ {t} : SameStatus(u)
    BY <1>3, <2>1, OthersUntouched
  <2>3. CASE certBlock[t] = <<>>
    <3>1. ASSUME NEW u, u = t
          PROVE  Status(u)' = "failure"
      BY <2>1, <2>3, <3>1, StatusOf DEF StatusMeans
    <3> HIDE DEF t
    <3>2. Promise!Fail(t)
      BY <1>2, <1>3, <2>2, <2>3, <3>1, MapsFail
    <3> QED BY <3>2 DEF t
  <2>4. CASE certBlock[t] = <<1>>
    <3>1. ASSUME NEW u, u = t
          PROVE  Status(u)' = "success" /\ Status(u) = "success"
      BY <2>1, <2>4, <3>1, StatusOf DEF StatusMeans
    <3>2. \A u \in Txs : SameStatus(u)
      BY <2>2, <3>1 DEF SameStatus
    <3> QED BY <1>3, <3>2, MappedStutter
  <2> QED BY <1>1, <2>3, <2>4
<1>5. CASE RecordFailureFails(w) /\ UNCHANGED certBlock
  <2>1. \A u \in Txs \ {t} : SameStatus(u)
    BY <1>3, <1>5, OthersUntouched
  <2>2. CASE certBlock[t] = <<>>
    <3>1. t \in lost' /\ certBlock'[t] = <<>>
      BY <1>5, <2>2 DEF RecordFailureFails
    <3>2. ASSUME NEW u, u = t
          PROVE  Status(u)' = "lost"
      BY <3>1, <3>2, StatusOf DEF StatusMeans
    <3>3. \A u \in Txs : Status(u)' = (IF u \in {t} THEN "lost" ELSE Status(u))
      BY <2>1, <3>2 DEF SameStatus
    <3>4. {t} \in SUBSET Txs /\ \A u \in {t} : Status(u) = "pending"
      BY <1>2, <2>2
    <3> HIDE DEF t
    <3>5. Promise!Lose({t})
      BY <1>3, <3>3, <3>4, MapsLose
    <3> QED BY <3>5 DEF t
  <2>3. CASE certBlock[t] = <<1>>
    <3>1. ASSUME NEW u, u = t
          PROVE  Status(u)' = "success" /\ Status(u) = "success"
      BY <1>5, <2>3, <3>1, StatusOf DEF StatusMeans
    <3>2. \A u \in Txs : SameStatus(u)
      BY <2>1, <3>1 DEF SameStatus
    <3> QED BY <1>3, <3>2, MappedStutter
  <2> QED BY <1>1, <2>2, <2>3
<1> QED BY <1>4, <1>5 DEF RecordFailure, RecordFailureFails, SaveThrows

(* A restart loses every pending transaction, and nothing else. *)
LEMMA MapsCrash ==
  ASSUME IInv, Crash
  PROVE  \E S \in SUBSET Txs : Promise!Lose(S)
<1> DEFINE S == {t \in Txs : (InQueue(t) \/ IsHeld(t)) /\ certBlock[t] = <<>>}
<1>1. lost' = lost \cup S /\ certBlock' = certBlock
  BY DEF Crash
<1>2. ASSUME NEW t \in S
      PROVE  Status(t) = "pending"
  <2>1. t \notin lost
    <3>1. CASE InQueue(t)
      BY <3>1 DEF IInv, QueueInv, InQueue, Untouched
    <3>2. CASE IsHeld(t)
      <4>1. PICK v \in Workers : held[v] = t
        BY <3>2 DEF IsHeld
      <4>2. pc[v] # "idle"
        BY <4>1, SubmitAssumption DEF IInv, WorkerInv
      <4> QED BY <4>1, <4>2, HeldStatus
    <3> QED BY <3>1, <3>2
  <2> QED BY <2>1, StatusOf DEF StatusMeans
<1>3. ASSUME NEW t \in Txs
      PROVE  Status(t)' = (IF t \in S THEN "lost" ELSE Status(t))
  <2>1. ~InQueue(t)'
    <3>1. Len(queue') = 0
      BY DEF Crash
    <3> QED BY <3>1 DEF InQueue
  <2>2. ~IsHeld(t)'
    BY SubmitAssumption DEF Crash, IsHeld
  <2>3. CASE t \in S
    BY <1>1, <2>3, StatusOf DEF StatusMeans
  <2>4. CASE t \notin S /\ certBlock[t] # <<>>
    BY <1>1, <2>4 DEF Status
  <2>5. CASE t \notin S /\ certBlock[t] = <<>>
    <3>1. ~InQueue(t) /\ ~IsHeld(t) /\ (t \in lost' <=> t \in lost)
      BY <1>1, <2>5
    <3> QED BY <1>1, <2>1, <2>2, <2>5, <3>1 DEF Status
  <2> QED BY <2>3, <2>4, <2>5
<1>4. SameAnswers /\ SameLedger
  BY DEF Crash, SameAnswers, SameLedger, Answered, OnLedger, IInv, TypeOK
<1>5. S \in SUBSET Txs
  OBVIOUS
<1> HIDE DEF S
<1>6. Promise!Lose(S)
  BY <1>2, <1>3, <1>4, <1>5, MapsLose
<1> QED BY <1>5, <1>6

-----------------------------------------------------------------------------
LEMMA InitMaps == Init => Promise!Init
<1> SUFFICES ASSUME Init PROVE Promise!Init
  OBVIOUS
<1>1. ASSUME NEW t \in Txs
      PROVE  Status(t) = "new"
  <2>1. ~InQueue(t)
    <3>1. Len(queue) = 0
      BY DEF Init
    <3> QED BY <3>1 DEF InQueue
  <2>2. ~IsHeld(t)
    BY SubmitAssumption DEF Init, IsHeld
  <2> QED BY <2>1, <2>2 DEF Init, Status
<1> QED BY <1>1 DEF Init, Promise!Init

LEMMA StepMaps == IInv /\ [Next]_vars => [Promise!Next]_(Promise!vars)
<1> SUFFICES ASSUME IInv, [Next]_vars
             PROVE  Promise!Next \/ UNCHANGED Promise!vars
  OBVIOUS
<1>1. ASSUME NEW t \in Txs, Propose(t) \/ ProposeFails(t) \/ RequestStep(t) \/ Commit(t)
      PROVE  Promise!Next \/ UNCHANGED Promise!vars
  BY <1>1, MapsRequest, MapsOffer, MapsReply, MapsSyncSave, MapsCommit
     DEF RequestStep, Promise!Next
<1>2. ASSUME NEW w \in Workers, WorkerStep(w)
      PROVE  Promise!Next \/ UNCHANGED Promise!vars
  <2>1. CASE Poll(w)
    BY <2>1, MapsPoll
  <2>2. CASE CheckFails(w) \/ Submit(w) \/ Event(w) \/ AwaitFails(w)
    BY <2>2, MapsWorkerMove
  <2>3. CASE RecordSuccess(w) \/ RecordSuccessFails(w)
    <3>1. held[w] \in Txs
      BY <2>3, HeldStatus DEF RecordSuccess, RecordSuccessFails, Release, SetPc
    <3> QED BY <2>3, <3>1, MapsRecordSuccess DEF Promise!Next
  <2>4. CASE RecordFailure(w) \/ RecordFailureFails(w)
    <3>1. held[w] \in Txs
      BY <2>4, HeldStatus DEF RecordFailure, RecordFailureFails, Release, SetPc
    <3> QED BY <2>4, <3>1, MapsRecordFailure DEF Promise!Next
  <2> QED BY <1>2, <2>1, <2>2, <2>3, <2>4 DEF WorkerStep
<1>3. CASE Crash
  BY <1>3, MapsCrash DEF Promise!Next
<1>4. CASE UNCHANGED vars
  BY <1>4, StatusFrame, MappedStutter
     DEF vars, SameAnswers, SameLedger, Answered, OnLedger
<1> QED BY <1>1, <1>2, <1>3, <1>4 DEF Next

(* The gateway keeps its promise: FabricService, FabricHandler, the cache,  *)
(* the queue and the worker threads implement SubmitPromise.                *)
THEOREM Refinement == Spec => KeepsPromise
  BY InitMaps, StepMaps, Ownership, PTL DEF Spec, KeepsPromise, Promise!Spec

Settled(t) == Status(t) \in {"success", "failure", "lost"}

(* What cert_block says first of a transaction is final: no second insert,  *)
(* late event or restart turns a success into a failure or back, and what   *)
(* was lost gets no row any more.                                           *)
THEOREM OutcomeIsFinal ==
    Spec => [][\A t \in Txs : Settled(t) => SameStatus(t)]_vars
<1>1. IInv /\ [Next]_vars => \A t \in Txs : Settled(t) => SameStatus(t)
  <2> SUFFICES ASSUME IInv, [Next]_vars, NEW t \in Txs, Settled(t)
               PROVE  SameStatus(t)
    OBVIOUS
  <2> DEFINE status == [u \in Txs |-> Status(u)]
  <2>1. Promise!Next \/ UNCHANGED Promise!vars
    BY StepMaps
  <2>2. status[t] \in {"success", "failure", "lost"}
    BY DEF Settled
  <2>3. status'[t] = status[t]
    <3>1. CASE UNCHANGED Promise!vars
      BY <3>1 DEF Promise!vars
    <3>2. ASSUME NEW u \in Txs,
                 \/ Promise!Enqueue(u) \/ Promise!Land(u) \/ Promise!Succeed(u)
                 \/ Promise!Fail(u) \/ Promise!Answer(u)
          PROVE  status'[t] = status[t]
      <4>1. u # t \/ status' = status
        BY <2>2, <3>2 DEF Promise!Enqueue, Promise!Land, Promise!Succeed,
           Promise!Fail, Promise!Answer
      <4>2. status' = status \/ \E s : status' = [status EXCEPT ![u] = s]
        BY <3>2 DEF Promise!Enqueue, Promise!Land, Promise!Succeed,
           Promise!Fail, Promise!Answer
      <4> QED BY <4>1, <4>2
    <3>3. ASSUME NEW S \in SUBSET Txs, Promise!Lose(S)
          PROVE  status'[t] = status[t]
      <4>1. t \notin S
        BY <2>2, <3>3 DEF Promise!Lose
      <4>2. status' = [u \in Txs |-> IF u \in S THEN "lost" ELSE status[u]]
        BY <3>3 DEF Promise!Lose
      <4> QED BY <4>1, <4>2
    <3> QED BY <2>1, <3>1, <3>2, <3>3 DEF Promise!Next
  <2>4. status'[t] = Status(t)' /\ status[t] = Status(t)
    OBVIOUS
  <2> QED BY <2>3, <2>4 DEF SameStatus
<1> QED BY <1>1, Ownership, PTL DEF Spec

-----------------------------------------------------------------------------
(* The ledger keeps what it holds: no step of the promise takes a           *)
(* transaction back.                                                        *)
LEMMA LedgerKeepsValid ==
  ASSUME IInv, [Next]_vars
  PROVE  \A t \in Txs : ledger[t] = "valid" => ledger'[t] = "valid"
<1>1. Promise!Next \/ UNCHANGED Promise!vars
  BY StepMaps
<1>2. OnLedger \subseteq OnLedger'
  BY <1>1 DEF Promise!Next, Promise!vars, Promise!Enqueue, Promise!Land, Promise!Succeed,
     Promise!Fail, Promise!Lose, Promise!Answer, OnLedger
<1> QED BY <1>2 DEF OnLedger

(* Without doubtful rows, what is still asked for and what was found is     *)
(* valid on the ledger.                                                     *)
LookupInv ==
    /\ IInv
    /\ LookupTypeOK
    /\ ~doubtful => /\ lookup # "missing"
                    /\ \A t \in todo \cup found : ledger[t] = "valid"

LEMMA AskKeeps ==
  ASSUME LookupInv, NEW S \in SUBSET Txs, Ask(S)
  PROVE  LookupInv'
<1>1. IInv' /\ TypeOK' /\ ledger' = ledger
  BY StutterKeepsIInv DEF LookupInv, Ask, IInv, vars
<1>2. S \subseteq Successes => \A t \in S : ledger[t] = "valid"
  BY SuccessRowIsOnLedger DEF LookupInv, SuccessIsOnLedger, Successes
<1> QED BY <1>1, <1>2 DEF LookupInv, LookupTypeOK, Ask

LEMMA LookupStepKeeps ==
  ASSUME LookupInv, UNCHANGED vars,
         \/ \E t \in Txs : QueryBlock(t) \/ QueryMissing(t)
         \/ Answer \/ LookupBroken \/ UNCHANGED lookupVars
  PROVE  LookupInv'
<1>1. IInv' /\ TypeOK' /\ ledger' = ledger
  BY StutterKeepsIInv DEF LookupInv, IInv, vars
<1>2. ASSUME NEW t \in Txs, QueryBlock(t) PROVE LookupInv'
  BY <1>1, <1>2 DEF LookupInv, LookupTypeOK, QueryBlock
<1>3. ASSUME NEW t \in Txs, QueryMissing(t) PROVE LookupInv'
  BY <1>1, <1>3 DEF LookupInv, LookupTypeOK, QueryMissing, InBlock
<1>4. CASE Answer \/ LookupBroken \/ UNCHANGED lookupVars
  BY <1>1, <1>4 DEF LookupInv, LookupTypeOK, Answer, LookupBroken, Abandon, lookupVars
<1> QED BY <1>2, <1>3, <1>4

LEMMA PipelineStepKeeps ==
  ASSUME LookupInv, PipelineStep
  PROVE  LookupInv'
<1>1. IInv' /\ TypeOK'
  BY StepKeepsIInv DEF LookupInv, PipelineStep, IInv
<1>2. \A t \in Txs : ledger[t] = "valid" => ledger'[t] = "valid"
  BY LedgerKeepsValid DEF LookupInv, PipelineStep
<1>3. Abandon \/ UNCHANGED lookupVars
  BY DEF PipelineStep
<1> QED BY <1>1, <1>2, <1>3 DEF LookupInv, LookupTypeOK, Abandon, lookupVars

LEMMA LookupInvariant == LookupSpec => []LookupInv
<1>1. LookupInit => LookupInv
  BY InitIInv DEF LookupInit, LookupInv, LookupTypeOK, IInv
<1>2. LookupInv /\ [LookupNext]_<<vars, lookupVars>> => LookupInv'
  <2> SUFFICES ASSUME LookupInv, [LookupNext]_<<vars, lookupVars>>
               PROVE  LookupInv'
    OBVIOUS
  <2>1. CASE PipelineStep
    BY <2>1, PipelineStepKeeps
  <2>2. CASE AskById \/ AskByData
    BY <2>2, AskKeeps DEF AskById, AskByData
  <2>3. CASE \/ \E t \in Txs : QueryBlock(t) \/ QueryMissing(t)
             \/ Answer \/ LookupBroken \/ UNCHANGED <<vars, lookupVars>>
    BY <2>3, LookupStepKeeps DEF QueryBlock, QueryMissing, Answer, LookupBroken
  <2> QED BY <2>1, <2>2, <2>3 DEF LookupNext
<1> QED BY <1>1, <1>2, PTL DEF LookupSpec

(* A query beside the pipeline leaves the types of the pipeline and its own *)
(* alone.                                                                   *)
THEOREM LookupTypeCorrect == LookupSpec => []LookupTypeOK
<1>1. LookupInv => LookupTypeOK
  BY DEF LookupInv
<1> QED BY <1>1, LookupInvariant, PTL

(* FabricService.getXChainByTransactionData over rows with status 1 finds   *)
(* the block of each, and only valid transactions.                          *)
THEOREM LookupFindsSuccesses == LookupSpec => []SuccessesAreFound
<1>1. LookupInv => SuccessesAreFound
  BY DEF LookupInv, SuccessesAreFound
<1> QED BY <1>1, LookupInvariant, PTL

(* FabricService under load, workers and queries together: what is proved   *)
(* of the pipeline alone holds beside any query.                            *)
THEOREM PipelineHoldsBesideQueries ==
    LookupSpec => [](/\ SuccessIsOnLedger /\ SubmittedAtMostOnce
                     /\ NoSilentLoss /\ SuccessFreesCache)
<1>1. LookupInv => SuccessIsOnLedger
  BY SuccessRowIsOnLedger DEF LookupInv
<1>2. LookupInv => SubmittedAtMostOnce
  BY DEF LookupInv, IInv, RowInv, Row, SubmittedAtMostOnce
<1>3. LookupInv => NoSilentLoss
  BY DEF LookupInv, IInv
<1>4. LookupInv => SuccessFreesCache
  BY DEF LookupInv, IInv, TypeOK, RowInv, Row, SuccessFreesCache
<1> QED BY <1>1, <1>2, <1>3, <1>4, LookupInvariant, PTL
=============================================================================
