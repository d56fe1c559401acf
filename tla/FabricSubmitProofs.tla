-------------------------- MODULE FabricSubmitProofs --------------------------
(***************************************************************************)
(* Proofs about FabricSubmit, for every set of transactions and workers,   *)
(* every cache capacity, both modes and every combination of faults.       *)
(*                                                                         *)
(* The safety properties are not inductive: that a worker may broadcast,   *)
(* or insert a row, depends on nobody else having done so before.  IInv    *)
(* says who owns a transaction at every stage (its request thread, the     *)
(* queue, or exactly one worker) and what may have happened to it by then. *)
(***************************************************************************)
EXTENDS FabricSubmit, SequenceTheorems, FiniteSetTheorems, TLAPS

(* Nothing was sent, recorded or given up yet. *)
Untouched(t) == /\ sends[t] = <<>>
                /\ ledger[t] = "none"
                /\ certBlock[t] = <<>>
                /\ t \notin lost

(* The request has handed its transaction over to the workers. *)
HandedOver(t) == AsyncSend /\ req[t] \in {"offered", "replied"}

QueueInv ==
    /\ \A i \in 1..Len(queue) : /\ HandedOver(queue[i])
                                /\ Untouched(queue[i])
                                /\ ~IsHeld(queue[i])
    /\ \A i, j \in 1..Len(queue) : queue[i] = queue[j] => i = j

WorkerInv ==
    \A w \in Workers :
        /\ pc[w] = "idle" <=> held[w] = NoTx
        /\ pc[w] # "idle" => HandedOver(held[w]) /\ held[w] \notin lost
        /\ pc[w] = "polled" => Untouched(held[w])
        /\ pc[w] = "ordering" => certBlock[held[w]] = <<>>
        /\ pc[w] = "recording" => /\ certBlock[held[w]] = <<>>
                                  /\ ledger[held[w]] = "valid"
                                  /\ held[w] \notin cache
        /\ pc[w] = "failing" =>
             \/ certBlock[held[w]] = <<>>
             \/ certBlock[held[w]] = <<1>> /\ "ackLost" \in SaveFaults
        /\ \A v \in Workers : held[v] = held[w] /\ held[w] # NoTx => v = w

RequestInv ==
    \A t \in Txs :
        /\ req[t] \in {"idle", "endorsed", "cached"} => Untouched(t)
        /\ req[t] \in {"cached", "offered"} => AsyncSend
        /\ req[t] \in {"ordering", "recording", "saved"} => ~AsyncSend
        /\ req[t] \in {"ordering", "recording"} => certBlock[t] = <<>>
        /\ req[t] = "recording" => ledger[t] = "valid"
        /\ req[t] = "saved" => certBlock[t] = <<1>>
        /\ req[t] = "replied" /\ ~AsyncSend => certBlock[t] = <<1>>
        /\ t \in cache => AsyncSend /\ req[t] \notin {"idle", "endorsed"}

Row(t) ==
    /\ sends[t] \in {<<>>} \cup {<<n>> : n \in 1..Orderers}
    /\ ledger[t] # "none" => sends[t] # <<>>
    /\ certBlock[t] \in {<<>>, <<1>>, <<-1>>, <<1, -1>>}
    /\ certBlock[t] = <<1, -1>> => "ackLost" \in SaveFaults
    /\ certBlock[t] \in {<<1>>, <<1, -1>>} => /\ ledger[t] = "valid"
                                              /\ t \notin cache
    /\ t \in lost => AsyncSend /\ certBlock[t] = <<>>

RowInv == \A t \in Txs : Row(t)

IInv == /\ TypeOK
        /\ QueueInv
        /\ WorkerInv
        /\ RequestInv
        /\ RowInv
        /\ NoSilentLoss

(* The rows a transaction can collect. *)
LEMMA Rows ==
    /\ Append(<<>>, 1) = <<1>>
    /\ Append(<<>>, -1) = <<-1>>
    /\ Append(<<1>>, -1) = <<1, -1>>
    /\ <<>> # <<1>> /\ <<>> # <<-1>> /\ <<>> # <<1, -1>>
    /\ <<1>> # <<-1>> /\ <<1>> # <<1, -1>> /\ <<-1>> # <<1, -1>>
<1>1. /\ Append(<<>>, 1) = <<1>>
      /\ Append(<<>>, -1) = <<-1>>
  OBVIOUS
<1>2. Append(<<1>>, -1) = <<1, -1>>
  <2> DEFINE S == {1, -1}
             A == Append(<<1>>, -1)
             B == <<1, -1>>
  <2>1. <<1>> \in Seq(S) /\ -1 \in S /\ Len(<<1>>) = 1 /\ <<1>>[1] = 1
    OBVIOUS
  <2>2. B \in Seq(S) /\ Len(B) = 2 /\ B[1] = 1 /\ B[2] = -1
    OBVIOUS
  <2>3. A \in Seq(S) /\ Len(A) = 2 /\ A[1] = 1 /\ A[2] = -1
    <3> HIDE DEF S
    <3> QED BY <2>1, AppendProperties
  <2>4. \A i \in 1..Len(A) : A[i] = B[i]
    <3> HIDE DEF A, B
    <3> QED BY <2>2, <2>3
  <2> HIDE DEF A, B, S
  <2>5. A = B
    BY <2>2, <2>3, <2>4, SeqEqual
  <2> QED BY <2>5 DEF A, B
<1>3. /\ <<>> # <<1>> /\ <<>> # <<-1>> /\ <<>> # <<1, -1>>
  OBVIOUS
<1>4. /\ <<1>> # <<-1>> /\ <<1>> # <<1, -1>> /\ <<-1>> # <<1, -1>>
  OBVIOUS
<1> QED BY <1>1, <1>2, <1>3, <1>4

(* One more row is a sequence of rows, and never an empty one. *)
LEMMA OneMoreRow ==
  ASSUME NEW rows \in Seq({1, -1}), NEW s \in {1, -1}
  PROVE  Append(rows, s) \in Seq({1, -1}) /\ Append(rows, s) # <<>>
  BY AppendProperties, Zenon

LEMMA InitIInv == Init => IInv
  BY SubmitAssumption, Rows
  DEF Init, IInv, TypeOK, QueueInv, WorkerInv, RequestInv, RowInv, Row, NoSilentLoss,
      Untouched, HandedOver, IsHeld, InQueue, ReqStages, WorkerStages

(* A step that neither hands over a transaction nor takes one from the      *)
(* queue or from a worker, and withdraws no row, loses nothing.             *)
LEMMA Accounted ==
  ASSUME NoSilentLoss, UNCHANGED <<queue, held>>,
         \A u \in Txs : req'[u] \in {"offered", "replied"} =>
                        ~AsyncSend \/ req[u] \in {"offered", "replied"},
         \A u \in Txs : certBlock[u] # <<>> => certBlock'[u] # <<>>,
         lost \subseteq lost'
  PROVE  NoSilentLoss'
<1>1. \A u : InQueue(u) => InQueue(u)'
  BY DEF InQueue
<1>2. \A u : IsHeld(u) => IsHeld(u)'
  BY DEF IsHeld
<1> QED BY <1>1, <1>2 DEF NoSilentLoss

(* What queued transactions are like. *)
Waiting(t) == HandedOver(t) /\ Untouched(t) /\ ~IsHeld(t)

LEMMA QueueKept ==
  ASSUME TypeOK, QueueInv, UNCHANGED queue,
         \A u \in Txs : Waiting(u) => Waiting(u)'
  PROVE  QueueInv'
<1>1. \A i \in 1..Len(queue) : queue[i] \in Txs
  BY DEF TypeOK
<1>2. \A i \in 1..Len(queue) : Waiting(queue[i])
  BY DEF QueueInv, Waiting
<1>3. \A i \in 1..Len(queue) : (Waiting(queue[i]))'
  BY <1>1, <1>2 DEF Waiting, HandedOver, Untouched, IsHeld
<1> QED BY <1>3 DEF QueueInv, Waiting

LEMMA ProposeKeepsIInv ==
  ASSUME IInv, NEW t \in Txs, Propose(t)
  PROVE  IInv'
<1> USE SubmitAssumption DEF IInv, Propose, SetReq
<1>1. TypeOK'
  BY DEF TypeOK, ReqStages
<1>2. QueueInv'
  <2>1. \A u \in Txs : Waiting(u) => Waiting(u)'
    BY DEF Waiting, TypeOK, HandedOver, Untouched, IsHeld
  <2> QED BY <2>1, QueueKept
<1>3. WorkerInv'
  BY DEF WorkerInv, TypeOK, HandedOver, Untouched
<1>4. RequestInv'
  BY DEF RequestInv, TypeOK, Untouched
<1>5. RowInv'
  BY DEF RowInv, Row, TypeOK
<1>6. NoSilentLoss'
  BY Accounted DEF TypeOK
<1> QED BY <1>1, <1>2, <1>3, <1>4, <1>5, <1>6

LEMMA ProposeFailsKeepsIInv ==
  ASSUME IInv, NEW t \in Txs, ProposeFails(t)
  PROVE  IInv'
<1> USE SubmitAssumption DEF IInv, ProposeFails, SetReq
<1>1. TypeOK'
  BY DEF TypeOK, ReqStages
<1>2. QueueInv'
  <2>1. \A u \in Txs : Waiting(u) => Waiting(u)'
    BY DEF Waiting, TypeOK, HandedOver, Untouched, IsHeld
  <2> QED BY <2>1, QueueKept
<1>3. WorkerInv'
  BY DEF WorkerInv, TypeOK, HandedOver, Untouched
<1>4. RequestInv'
  BY DEF RequestInv, TypeOK, Untouched
<1>5. RowInv'
  BY DEF RowInv, Row, TypeOK
<1>6. NoSilentLoss'
  BY Accounted DEF TypeOK
<1> QED BY <1>1, <1>2, <1>3, <1>4, <1>5, <1>6

LEMMA CacheResponsesKeepsIInv ==
  ASSUME IInv, NEW t \in Txs, CacheResponses(t)
  PROVE  IInv'
<1> USE SubmitAssumption DEF IInv, CacheResponses, SetReq
<1>1. TypeOK'
  BY DEF TypeOK, ReqStages
<1>2. QueueInv'
  <2>1. \A u \in Txs : Waiting(u) => Waiting(u)'
    BY DEF Waiting, TypeOK, HandedOver, Untouched, IsHeld
  <2> QED BY <2>1, QueueKept
<1>3. WorkerInv'
  BY DEF WorkerInv, TypeOK, HandedOver, Untouched
<1>4. RequestInv'
  BY DEF RequestInv, TypeOK, Untouched
<1>5. RowInv'
  BY DEF RowInv, Row, TypeOK, RequestInv, Untouched
<1>6. NoSilentLoss'
  BY Accounted DEF TypeOK
<1> QED BY <1>1, <1>2, <1>3, <1>4, <1>5, <1>6

LEMMA OfferKeepsIInv ==
  ASSUME IInv, NEW t \in Txs, Offer(t)
  PROVE  IInv'
<1> USE SubmitAssumption DEF IInv, Offer, SetReq
<1>1. TypeOK'
  BY DEF TypeOK, ReqStages
<1>2. QueueInv'
  <2>1. /\ Len(queue') = Len(queue) + 1 /\ Len(queue) \in Nat
        /\ queue'[Len(queue) + 1] = t
        /\ \A i \in 1..Len(queue) : queue'[i] = queue[i]
    BY DEF TypeOK
  <2>2. HandedOver(t)' /\ Untouched(t)' /\ ~IsHeld(t)'
    <3>1. req[t] = "cached" /\ req'[t] = "offered" /\ AsyncSend
      BY DEF TypeOK, RequestInv
    <3>2. Untouched(t)
      BY DEF RequestInv
    <3>3. \A v \in Workers : held[v] # t
      <4> SUFFICES ASSUME NEW v \in Workers, held[v] = t PROVE FALSE
        OBVIOUS
      <4>1. pc[v] # "idle"
        BY DEF WorkerInv
      <4>2. HandedOver(t)
        BY <4>1 DEF WorkerInv
      <4> QED BY <3>1, <4>2 DEF HandedOver
    <3> QED BY <3>1, <3>2, <3>3 DEF HandedOver, Untouched, IsHeld
  <2>3. \A i \in 1..Len(queue) : /\ queue[i] \in Txs
                                 /\ queue[i] # t
                                 /\ HandedOver(queue[i])'
                                 /\ Untouched(queue[i])'
                                 /\ ~IsHeld(queue[i])'
    <3>1. \A i \in 1..Len(queue) : queue[i] \in Txs /\ queue[i] # t
      <4>1. \A i \in 1..Len(queue) : queue[i] \in Txs
        BY DEF TypeOK
      <4> QED BY <4>1 DEF QueueInv, HandedOver
    <3>2. \A u \in Txs \ {t} : Waiting(u) => Waiting(u)'
      BY DEF TypeOK, Waiting, HandedOver, Untouched, IsHeld
    <3> QED BY <3>1, <3>2 DEF QueueInv, Waiting
  <2>4. \A i \in 1..Len(queue') : i \in 1..Len(queue) \/ i = Len(queue) + 1
    BY <2>1
  <2> QED BY <2>1, <2>2, <2>3, <2>4 DEF QueueInv
<1>3. WorkerInv'
  BY DEF WorkerInv, TypeOK, HandedOver, Untouched
<1>4. RequestInv'
  BY DEF RequestInv, TypeOK, Untouched
<1>5. RowInv'
  BY DEF RowInv, Row, TypeOK
<1>6. NoSilentLoss'
  <2>1. /\ Len(queue') = Len(queue) + 1 /\ Len(queue) \in Nat
        /\ queue'[Len(queue) + 1] = t
        /\ \A i \in 1..Len(queue) : queue'[i] = queue[i]
    BY DEF TypeOK
  <2>2. InQueue(t)' /\ \A u : InQueue(u) => InQueue(u)'
    BY <2>1 DEF InQueue
  <2>3. \A u : IsHeld(u) => IsHeld(u)'
    BY DEF IsHeld
  <2>4. \A u \in Txs : u # t => req'[u] = req[u]
    BY DEF TypeOK
  <2> QED BY <2>2, <2>3, <2>4 DEF NoSilentLoss
<1> QED BY <1>1, <1>2, <1>3, <1>4, <1>5, <1>6

LEMMA ReplyKeepsIInv ==
  ASSUME IInv, NEW t \in Txs, Reply(t)
  PROVE  IInv'
<1> USE SubmitAssumption DEF IInv, Reply, SetReq
<1>1. TypeOK'
  BY DEF TypeOK, ReqStages
<1>2. QueueInv'
  <2>1. \A u \in Txs : Waiting(u) => Waiting(u)'
    BY DEF Waiting, TypeOK, HandedOver, Untouched, IsHeld
  <2> QED BY <2>1, QueueKept
<1>3. WorkerInv'
  BY DEF WorkerInv, TypeOK, HandedOver, Untouched
<1>4. RequestInv'
  BY DEF RequestInv, TypeOK, Untouched
<1>5. RowInv'
  BY DEF RowInv, Row, TypeOK
<1>6. NoSilentLoss'
  BY Accounted DEF TypeOK
<1> QED BY <1>1, <1>2, <1>3, <1>4, <1>5, <1>6

LEMMA SyncCheckFailsKeepsIInv ==
  ASSUME IInv, NEW t \in Txs, SyncCheckFails(t)
  PROVE  IInv'
<1> USE SubmitAssumption DEF IInv, SyncCheckFails, SetReq
<1>1. TypeOK'
  BY DEF TypeOK, ReqStages
<1>2. QueueInv'
  <2>1. \A u \in Txs : Waiting(u) => Waiting(u)'
    BY DEF Waiting, TypeOK, HandedOver, Untouched, IsHeld
  <2> QED BY <2>1, QueueKept
<1>3. WorkerInv'
  BY DEF WorkerInv, TypeOK, HandedOver, Untouched
<1>4. RequestInv'
  BY DEF RequestInv, TypeOK, Untouched
<1>5. RowInv'
  BY DEF RowInv, Row, TypeOK
<1>6. NoSilentLoss'
  BY Accounted DEF TypeOK
<1> QED BY <1>1, <1>2, <1>3, <1>4, <1>5, <1>6

(* The first call of Channel.sendTransaction with a transaction, however    *)
(* many orderers it goes to: one entry of the history, and the ledger moves  *)
(* to "ordered" or stays.                                                    *)
LEMMA FirstCall ==
  ASSUME TypeOK, NEW t \in Txs, Untouched(t),
         OrdererAccepts(t) \/ BroadcastThrows(t)
  PROVE  /\ \E n \in 1..Orderers : sends' = [sends EXCEPT ![t] = <<n>>]
         /\ sends' \in [Txs -> Seq(1..Orderers)]
<1>1. PICK n \in 1..Orderers : sends' = [sends EXCEPT ![t] = Append(@, n)]
  BY SubmitAssumption DEF OrdererAccepts, BroadcastThrows, Tried
<1>2. Append(sends[t], n) = <<n>> /\ <<n>> \in Seq(1..Orderers)
  BY <1>1 DEF Untouched
<1>3. sends' = [sends EXCEPT ![t] = <<n>>]
  BY <1>1, <1>2 DEF TypeOK
<1> QED BY <1>2, <1>3 DEF TypeOK

LEMMA SyncSubmitKeepsIInv ==
  ASSUME IInv, NEW t \in Txs, SyncSubmit(t)
  PROVE  IInv'
<1>0. /\ Untouched(t)
      /\ \E n \in 1..Orderers : sends' = [sends EXCEPT ![t] = <<n>>]
      /\ sends' \in [Txs -> Seq(1..Orderers)]
  BY FirstCall DEF IInv, SyncSubmit, SetReq, RequestInv
<1> USE SubmitAssumption DEF IInv, SyncSubmit, SetReq, OrdererAccepts, BroadcastThrows
<1>1. TypeOK'
  <2>1. sends' \in [Txs -> Seq(1..Orderers)]
    BY <1>0
  <2>2. /\ req' \in [Txs -> ReqStages]
        /\ ledger' \in [Txs -> {"none", "ordered", "valid", "invalid"}]
    BY DEF TypeOK, ReqStages
  <2> QED BY <2>1, <2>2 DEF TypeOK
<1>2. QueueInv'
  <2>1. \A u \in Txs : Waiting(u) => Waiting(u)'
    BY <1>0 DEF Waiting, TypeOK, HandedOver, Untouched, IsHeld
  <2> QED BY <2>1, QueueKept
<1>3. WorkerInv'
  BY <1>0 DEF WorkerInv, TypeOK, HandedOver, Untouched
<1>4. RequestInv'
  BY <1>0 DEF RequestInv, TypeOK, Untouched
<1>5. RowInv'
  BY <1>0 DEF RowInv, Row, TypeOK, RequestInv, Untouched
<1>6. NoSilentLoss'
  BY Accounted DEF TypeOK
<1> QED BY <1>1, <1>2, <1>3, <1>4, <1>5, <1>6

LEMMA SyncEventKeepsIInv ==
  ASSUME IInv, NEW t \in Txs, SyncEvent(t)
  PROVE  IInv'
<1> USE SubmitAssumption DEF IInv, SyncEvent, SetReq
<1>1. TypeOK'
  BY DEF TypeOK, ReqStages
<1>2. QueueInv'
  <2>1. \A u \in Txs : Waiting(u) => Waiting(u)'
    BY DEF Waiting, TypeOK, HandedOver, Untouched, IsHeld
  <2> QED BY <2>1, QueueKept
<1>3. WorkerInv'
  BY DEF WorkerInv, TypeOK, HandedOver, Untouched
<1>4. RequestInv'
  BY DEF RequestInv, TypeOK, Untouched
<1>5. RowInv'
  BY DEF RowInv, Row, TypeOK
<1>6. NoSilentLoss'
  BY Accounted DEF TypeOK
<1> QED BY <1>1, <1>2, <1>3, <1>4, <1>5, <1>6

LEMMA SyncAwaitFailsKeepsIInv ==
  ASSUME IInv, NEW t \in Txs, SyncAwaitFails(t)
  PROVE  IInv'
<1> USE SubmitAssumption DEF IInv, SyncAwaitFails, SetReq
<1>1. TypeOK'
  BY DEF TypeOK, ReqStages
<1>2. QueueInv'
  <2>1. \A u \in Txs : Waiting(u) => Waiting(u)'
    BY DEF Waiting, TypeOK, HandedOver, Untouched, IsHeld
  <2> QED BY <2>1, QueueKept
<1>3. WorkerInv'
  BY DEF WorkerInv, TypeOK, HandedOver, Untouched
<1>4. RequestInv'
  BY DEF RequestInv, TypeOK, Untouched
<1>5. RowInv'
  BY DEF RowInv, Row, TypeOK
<1>6. NoSilentLoss'
  BY Accounted DEF TypeOK
<1> QED BY <1>1, <1>2, <1>3, <1>4, <1>5, <1>6

LEMMA SyncSaveKeepsIInv ==
  ASSUME IInv, NEW t \in Txs, SyncSave(t)
  PROVE  IInv'
<1> USE SubmitAssumption, Rows, OneMoreRow DEF IInv, SyncSave, SetReq, Saved
<1>1. TypeOK'
  BY DEF TypeOK, ReqStages
<1>2. QueueInv'
  <2>1. \A u \in Txs : Waiting(u) => Waiting(u)'
    BY DEF Waiting, TypeOK, HandedOver, Untouched, IsHeld
  <2> QED BY <2>1, QueueKept
<1>3. WorkerInv'
  BY DEF WorkerInv, TypeOK, HandedOver, Untouched
<1>4. RequestInv'
  BY DEF RequestInv, TypeOK, Untouched
<1>5. RowInv'
  <2>1. /\ certBlock[t] = <<>> /\ ledger[t] = "valid"
        /\ t \notin cache /\ t \notin lost
    BY DEF RequestInv, RowInv, Row
  <2>2. /\ certBlock'[t] = <<1>>
        /\ \A u \in Txs \ {t} : certBlock'[u] = certBlock[u]
    BY <2>1 DEF TypeOK
  <2>3. Row(t)'
    BY <2>1, <2>2 DEF RowInv, Row
  <2>4. \A u \in Txs \ {t} : Row(u)'
    BY <2>2 DEF RowInv, Row
  <2> QED BY <2>3, <2>4 DEF RowInv
<1>6. NoSilentLoss'
  BY Accounted DEF TypeOK
<1> QED BY <1>1, <1>2, <1>3, <1>4, <1>5, <1>6

LEMMA SyncSaveFailsKeepsIInv ==
  ASSUME IInv, NEW t \in Txs, SyncSaveFails(t)
  PROVE  IInv'
<1> USE SubmitAssumption, Rows, OneMoreRow DEF IInv, SyncSaveFails, SetReq, SaveThrows, Saved
<1>1. TypeOK'
  <2>1. certBlock' \in [Txs -> Seq({1, -1})]
    <3>1. CASE UNCHANGED certBlock
      BY <3>1 DEF TypeOK
    <3>2. CASE Saved(t, 1)
      <4>1. t \in Txs /\ certBlock[t] \in Seq({1, -1})
        BY DEF TypeOK, WorkerInv
      <4> QED BY <3>2, <4>1 DEF TypeOK
    <3> QED BY <3>1, <3>2
  <2>2. req' \in [Txs -> ReqStages]
    BY DEF TypeOK, ReqStages
  <2> QED BY <2>1, <2>2 DEF TypeOK
<1>2. QueueInv'
  <2>1. \A u \in Txs : Waiting(u) => Waiting(u)'
    BY DEF Waiting, TypeOK, HandedOver, Untouched, IsHeld
  <2> QED BY <2>1, QueueKept
<1>3. WorkerInv'
  BY DEF WorkerInv, TypeOK, HandedOver, Untouched
<1>4. RequestInv'
  <2>1. /\ req'[t] = "refused"
        /\ \A u \in Txs \ {t} : req'[u] = req[u] /\ certBlock'[u] = certBlock[u]
    BY DEF TypeOK, ReqStages
  <2> QED BY <2>1 DEF RequestInv, Untouched
<1>5. RowInv'
  <2>1. /\ certBlock[t] = <<>> /\ ledger[t] = "valid"
        /\ t \notin cache /\ t \notin lost
    BY DEF RequestInv, RowInv, Row
  <2>2. /\ certBlock'[t] \in {<<>>, <<1>>}
        /\ \A u \in Txs \ {t} : certBlock'[u] = certBlock[u]
    BY <2>1 DEF TypeOK
  <2> QED BY <2>1, <2>2 DEF RowInv, Row
<1>6. NoSilentLoss'
  BY Accounted DEF TypeOK
<1> QED BY <1>1, <1>2, <1>3, <1>4, <1>5, <1>6

LEMMA CommitKeepsIInv ==
  ASSUME IInv, NEW t \in Txs, Commit(t)
  PROVE  IInv'
<1> USE SubmitAssumption DEF IInv, Commit
<1>1. TypeOK'
  BY DEF TypeOK, ReqStages
<1>2. QueueInv'
  <2>1. \A u \in Txs : Waiting(u) => Waiting(u)'
    BY DEF Waiting, TypeOK, HandedOver, Untouched, IsHeld
  <2> QED BY <2>1, QueueKept
<1>3. WorkerInv'
  BY DEF WorkerInv, TypeOK, HandedOver, Untouched
<1>4. RequestInv'
  BY DEF RequestInv, TypeOK, Untouched
<1>5. RowInv'
  BY DEF RowInv, Row, TypeOK
<1>6. NoSilentLoss'
  BY Accounted DEF TypeOK
<1> QED BY <1>1, <1>2, <1>3, <1>4, <1>5, <1>6

LEMMA PollKeepsIInv ==
  ASSUME IInv, NEW w \in Workers, Poll(w)
  PROVE  IInv'
<1> USE SubmitAssumption DEF IInv, Poll, SetPc
<1>1. TypeOK'
  BY DEF TypeOK, WorkerStages
<1>2. QueueInv'
  BY DEF QueueInv, TypeOK, HandedOver, Untouched, IsHeld
<1>3. WorkerInv'
  BY DEF WorkerInv, TypeOK, HandedOver, Untouched, RowInv, Row, RequestInv,
         QueueInv, IsHeld
<1>4. RequestInv'
  BY DEF RequestInv, TypeOK, Untouched
<1>5. RowInv'
  BY DEF RowInv, Row, TypeOK
<1>6. NoSilentLoss'
  <2>1. /\ Len(queue') = Len(queue) - 1 /\ Len(queue) \in Nat
        /\ \A i \in 2..Len(queue) : queue'[i - 1] = queue[i]
    BY DEF TypeOK
  <2>2. \A u : u = queue[1] => IsHeld(u)'
    <3>1. Head(queue) = queue[1]
      BY DEF TypeOK
    <3>2. held'[w] = queue[1]
      BY <3>1 DEF TypeOK
    <3> QED BY <3>2 DEF IsHeld
  <2>3. \A u : InQueue(u) => InQueue(u)' \/ u = queue[1]
    <3> SUFFICES ASSUME NEW u, InQueue(u), u # queue[1]
                 PROVE  InQueue(u)'
      OBVIOUS
    <3>1. PICK i \in 1..Len(queue) : queue[i] = u
      BY DEF InQueue
    <3>2. i - 1 \in 1..Len(queue') /\ queue'[i - 1] = u
      BY <2>1, <3>1
    <3> QED BY <3>2 DEF InQueue
  <2>4. \A u \in Txs : IsHeld(u) => IsHeld(u)'
    BY DEF TypeOK, WorkerInv, IsHeld
  <2> QED
    <3> SUFFICES ASSUME AsyncSend, NEW u \in Txs, req[u] \in {"offered", "replied"}
                 PROVE  InQueue(u)' \/ IsHeld(u)' \/ certBlock[u] # <<>> \/ u \in lost
      BY DEF NoSilentLoss
    <3> QED BY <2>2, <2>3, <2>4 DEF NoSilentLoss
<1> QED BY <1>1, <1>2, <1>3, <1>4, <1>5, <1>6

LEMMA CheckFailsKeepsIInv ==
  ASSUME IInv, NEW w \in Workers, CheckFails(w)
  PROVE  IInv'
<1> USE SubmitAssumption DEF IInv, CheckFails, SetPc
<1>1. TypeOK'
  BY DEF TypeOK, WorkerStages
<1>2. QueueInv'
  <2>1. \A u \in Txs : Waiting(u) => Waiting(u)'
    BY DEF Waiting, TypeOK, HandedOver, Untouched, IsHeld
  <2> QED BY <2>1, QueueKept
<1>3. WorkerInv'
  BY DEF WorkerInv, TypeOK, HandedOver, Untouched
<1>4. RequestInv'
  BY DEF RequestInv, TypeOK, Untouched
<1>5. RowInv'
  BY DEF RowInv, Row, TypeOK
<1>6. NoSilentLoss'
  BY Accounted DEF TypeOK
<1> QED BY <1>1, <1>2, <1>3, <1>4, <1>5, <1>6

LEMMA SubmitKeepsIInv ==
  ASSUME IInv, NEW w \in Workers, Submit(w)
  PROVE  IInv'
<1>0. /\ held[w] \in Txs /\ Untouched(held[w])
      /\ \E n \in 1..Orderers : sends' = [sends EXCEPT ![held[w]] = <<n>>]
      /\ sends' \in [Txs -> Seq(1..Orderers)]
  BY FirstCall DEF IInv, Submit, SetPc, TypeOK, WorkerInv
<1> USE SubmitAssumption DEF IInv, Submit, SetPc, OrdererAccepts, BroadcastThrows
<1>1. TypeOK'
  <2>1. sends' \in [Txs -> Seq(1..Orderers)]
    BY <1>0
  <2>2. pc' \in [Workers -> WorkerStages]
    <3>1. \E stage \in WorkerStages : pc' = [pc EXCEPT ![w] = stage]
      BY DEF WorkerStages
    <3>2. pc \in [Workers -> WorkerStages]
      BY DEF TypeOK
    <3> QED BY <3>1, <3>2, Zenon
  <2>3. ledger' \in [Txs -> {"none", "ordered", "valid", "invalid"}]
    BY DEF TypeOK
  <2> QED BY <2>1, <2>2, <2>3 DEF TypeOK
<1>2. QueueInv'
  <2>1. \A u \in Txs : Waiting(u) => Waiting(u)'
    BY <1>0 DEF Waiting, TypeOK, HandedOver, Untouched, IsHeld
  <2> QED BY <2>1, QueueKept
<1>3. WorkerInv'
  BY <1>0 DEF WorkerInv, TypeOK, HandedOver, Untouched
<1>4. RequestInv'
  BY <1>0 DEF TypeOK, QueueInv, WorkerInv, RequestInv, RowInv, Row, NoSilentLoss,
         Untouched, HandedOver, IsHeld, InQueue, ReqStages, WorkerStages
<1>5. RowInv'
  BY <1>0 DEF RowInv, Row, TypeOK, WorkerInv, HandedOver, RequestInv, Untouched,
         QueueInv, IsHeld
<1>6. NoSilentLoss'
  BY Accounted DEF TypeOK
<1> QED BY <1>1, <1>2, <1>3, <1>4, <1>5, <1>6

LEMMA EventKeepsIInv ==
  ASSUME IInv, NEW w \in Workers, Event(w)
  PROVE  IInv'
<1> USE SubmitAssumption DEF IInv, Event, SetPc
<1>1. TypeOK'
  BY DEF TypeOK, WorkerStages
<1>2. QueueInv'
  <2>1. \A u \in Txs : Waiting(u) => Waiting(u)'
    BY DEF Waiting, TypeOK, HandedOver, Untouched, IsHeld
  <2> QED BY <2>1, QueueKept
<1>3. WorkerInv'
  BY DEF WorkerInv, TypeOK, HandedOver, Untouched
<1>4. RequestInv'
  BY DEF RequestInv, TypeOK, Untouched
<1>5. RowInv'
  BY DEF RowInv, Row, TypeOK
<1>6. NoSilentLoss'
  BY Accounted DEF TypeOK
<1> QED BY <1>1, <1>2, <1>3, <1>4, <1>5, <1>6

LEMMA AwaitFailsKeepsIInv ==
  ASSUME IInv, NEW w \in Workers, AwaitFails(w)
  PROVE  IInv'
<1> USE SubmitAssumption DEF IInv, AwaitFails, SetPc
<1>1. TypeOK'
  BY DEF TypeOK, WorkerStages
<1>2. QueueInv'
  <2>1. \A u \in Txs : Waiting(u) => Waiting(u)'
    BY DEF Waiting, TypeOK, HandedOver, Untouched, IsHeld
  <2> QED BY <2>1, QueueKept
<1>3. WorkerInv'
  BY DEF WorkerInv, TypeOK, HandedOver, Untouched
<1>4. RequestInv'
  BY DEF RequestInv, TypeOK, Untouched
<1>5. RowInv'
  BY DEF RowInv, Row, TypeOK
<1>6. NoSilentLoss'
  BY Accounted DEF TypeOK
<1> QED BY <1>1, <1>2, <1>3, <1>4, <1>5, <1>6

LEMMA RecordSuccessKeepsIInv ==
  ASSUME IInv, NEW w \in Workers, RecordSuccess(w)
  PROVE  IInv'
<1> USE SubmitAssumption, Rows, OneMoreRow DEF IInv, RecordSuccess, Release, Saved, SetPc
<1>1. TypeOK'
  BY DEF TypeOK, WorkerStages
<1>2. QueueInv'
  <2>1. \A u \in Txs : Waiting(u) => Waiting(u)'
    BY DEF Waiting, TypeOK, HandedOver, Untouched, IsHeld
  <2> QED BY <2>1, QueueKept
<1>3. WorkerInv'
  <2>1. /\ pc \in [Workers -> WorkerStages]
        /\ held \in [Workers -> Txs \cup {NoTx}]
        /\ certBlock \in [Txs -> Seq({1, -1})]
    BY DEF TypeOK
  <2> QED BY <2>1 DEF WorkerInv, HandedOver, Untouched
<1>4. RequestInv'
  BY DEF RequestInv, TypeOK, Untouched, WorkerInv, HandedOver
<1>5. RowInv'
  <2> DEFINE t == held[w]
  <2>1. /\ t \in Txs /\ certBlock[t] = <<>> /\ ledger[t] = "valid"
        /\ t \notin cache /\ t \notin lost
    BY DEF TypeOK, WorkerInv
  <2>2. /\ certBlock'[t] = <<1>>
        /\ \A u \in Txs \ {t} : certBlock'[u] = certBlock[u]
    BY <2>1 DEF TypeOK
  <2>3. \A u \in Txs : u = t => Row(u)'
    BY <2>1, <2>2 DEF RowInv, Row
  <2>4. \A u \in Txs \ {t} : Row(u)'
    BY <2>2 DEF RowInv, Row
  <2> QED BY <2>3, <2>4 DEF RowInv
<1>6. NoSilentLoss'
  <2>1. \A u : InQueue(u) => InQueue(u)'
    BY DEF InQueue
  <2>2. \A u : IsHeld(u) /\ u # held[w] => IsHeld(u)'
    BY DEF TypeOK, IsHeld
  <2>3. \A u \in Txs : IF u = held[w] THEN certBlock'[u] # <<>>
                       ELSE certBlock'[u] = certBlock[u]
    BY DEF TypeOK
  <2> QED BY <2>1, <2>2, <2>3 DEF NoSilentLoss
<1> QED BY <1>1, <1>2, <1>3, <1>4, <1>5, <1>6

LEMMA RecordSuccessFailsKeepsIInv ==
  ASSUME IInv, NEW w \in Workers, RecordSuccessFails(w)
  PROVE  IInv'
<1> USE SubmitAssumption, Rows, OneMoreRow DEF IInv, RecordSuccessFails, SetPc, SaveThrows, Saved
<1>1. TypeOK'
  <2>1. certBlock' \in [Txs -> Seq({1, -1})]
    <3>1. CASE UNCHANGED certBlock
      BY <3>1 DEF TypeOK
    <3>2. CASE Saved(held[w], 1)
      <4>1. held[w] \in Txs /\ certBlock[held[w]] \in Seq({1, -1})
        BY DEF TypeOK, WorkerInv
      <4> QED BY <3>2, <4>1 DEF TypeOK
    <3> QED BY <3>1, <3>2
  <2>2. pc' \in [Workers -> WorkerStages]
    BY DEF TypeOK, WorkerStages
  <2> QED BY <2>1, <2>2 DEF TypeOK
<1>2. QueueInv'
  <2>1. \A u \in Txs : Waiting(u) => Waiting(u)'
    BY DEF Waiting, TypeOK, HandedOver, Untouched, IsHeld
  <2> QED BY <2>1, QueueKept
<1>3. WorkerInv'
  BY DEF WorkerInv, TypeOK, HandedOver, Untouched
<1>4. RequestInv'
  BY DEF RequestInv, TypeOK, Untouched, WorkerInv, HandedOver
<1>5. RowInv'
  <2> DEFINE t == held[w]
  <2>1. /\ t \in Txs /\ certBlock[t] = <<>> /\ ledger[t] = "valid"
        /\ t \notin cache /\ t \notin lost
    BY DEF TypeOK, WorkerInv
  <2>2. certBlock'[t] \in {<<>>, <<1>>}
    <3>1. CASE UNCHANGED certBlock
      BY <2>1, <3>1
    <3>2. CASE Saved(t, 1)
      BY <2>1, <3>2 DEF TypeOK
    <3> QED BY <3>1, <3>2
  <2>3. \A u \in Txs \ {t} : certBlock'[u] = certBlock[u]
    BY DEF TypeOK
  <2> QED BY <2>1, <2>2, <2>3 DEF RowInv, Row
<1>6. NoSilentLoss'
  BY Accounted DEF TypeOK
<1> QED BY <1>1, <1>2, <1>3, <1>4, <1>5, <1>6

LEMMA RecordFailureKeepsIInv ==
  ASSUME IInv, NEW w \in Workers, RecordFailure(w)
  PROVE  IInv'
<1> USE SubmitAssumption, Rows, OneMoreRow DEF IInv, RecordFailure, Release, Saved, SetPc
<1>1. TypeOK'
  BY DEF TypeOK, WorkerStages
<1>2. QueueInv'
  <2>1. \A u \in Txs : Waiting(u) => Waiting(u)'
    BY DEF Waiting, TypeOK, HandedOver, Untouched, IsHeld
  <2> QED BY <2>1, QueueKept
<1>3. WorkerInv'
  BY DEF WorkerInv, TypeOK, HandedOver, Untouched
<1>4. RequestInv'
  <2>1. HandedOver(held[w])
    BY DEF WorkerInv
  <2>2. \A u \in Txs : u # held[w] => certBlock'[u] = certBlock[u]
    BY DEF TypeOK
  <2> QED BY <2>1, <2>2 DEF RequestInv, HandedOver, Untouched
<1>5. RowInv'
  <2> DEFINE t == held[w]
  <2>1. /\ t \in Txs /\ t \notin lost
        /\ \/ certBlock[t] = <<>>
           \/ certBlock[t] = <<1>> /\ "ackLost" \in SaveFaults
    BY DEF TypeOK, WorkerInv
  <2>2. /\ \/ certBlock'[t] = <<-1>>
           \/ /\ certBlock[t] = <<1>> /\ certBlock'[t] = <<1, -1>>
              /\ "ackLost" \in SaveFaults
        /\ \A u \in Txs \ {t} : certBlock'[u] = certBlock[u]
    BY <2>1 DEF TypeOK
  <2> QED BY <2>1, <2>2 DEF RowInv, Row
<1>6. NoSilentLoss'
  <2>1. \A u : InQueue(u) => InQueue(u)'
    BY DEF InQueue
  <2>2. \A u : IsHeld(u) /\ u # held[w] => IsHeld(u)'
    BY DEF TypeOK, IsHeld
  <2>3. \A u \in Txs : IF u = held[w] THEN certBlock'[u] # <<>>
                       ELSE certBlock'[u] = certBlock[u]
    BY DEF TypeOK
  <2> QED BY <2>1, <2>2, <2>3 DEF NoSilentLoss
<1> QED BY <1>1, <1>2, <1>3, <1>4, <1>5, <1>6

LEMMA RecordFailureFailsKeepsIInv ==
  ASSUME IInv, NEW w \in Workers, RecordFailureFails(w)
  PROVE  IInv'
<1> USE SubmitAssumption, Rows, OneMoreRow DEF IInv, RecordFailureFails, Release, SaveThrows, SetPc, Saved
<1>1. TypeOK'
  <2>1. certBlock' \in [Txs -> Seq({1, -1})]
    <3>1. CASE UNCHANGED certBlock
      BY <3>1 DEF TypeOK
    <3>2. CASE Saved(held[w], -1)
      <4>1. held[w] \in Txs /\ certBlock[held[w]] \in Seq({1, -1})
        BY DEF TypeOK, WorkerInv
      <4> QED BY <3>2, <4>1 DEF TypeOK
    <3> QED BY <3>1, <3>2
  <2>2. /\ pc' \in [Workers -> WorkerStages]
        /\ held' \in [Workers -> Txs \cup {NoTx}]
    BY DEF TypeOK, WorkerStages
  <2>3. lost' \subseteq Txs
    BY DEF TypeOK, WorkerInv
  <2> QED BY <2>1, <2>2, <2>3 DEF TypeOK
<1>2. QueueInv'
  <2>1. \A u \in Txs : Waiting(u) => Waiting(u)'
    BY DEF Waiting, TypeOK, HandedOver, Untouched, IsHeld
  <2> QED BY <2>1, QueueKept
<1>3. WorkerInv'
  BY DEF WorkerInv, TypeOK, HandedOver, Untouched
<1>4. RequestInv'
  BY DEF RequestInv, TypeOK, Untouched, WorkerInv, HandedOver
<1>5. RowInv'
  <2> DEFINE t == held[w]
  <2>1. /\ t \in Txs /\ t \notin lost
        /\ \/ certBlock[t] = <<>>
           \/ certBlock[t] = <<1>> /\ "ackLost" \in SaveFaults
    BY DEF TypeOK, WorkerInv
  <2>2. /\ \/ certBlock'[t] = certBlock[t]
           \/ certBlock'[t] = <<-1>>
           \/ /\ certBlock[t] = <<1>> /\ certBlock'[t] = <<1, -1>>
              /\ "ackLost" \in SaveFaults
        /\ \A u \in Txs \ {t} : certBlock'[u] = certBlock[u]
    <3>1. CASE UNCHANGED certBlock
      BY <3>1
    <3>2. CASE "ackLost" \in SaveFaults /\ Saved(t, -1)
      <4>1. certBlock' = [certBlock EXCEPT ![t] = Append(certBlock[t], -1)]
        BY <3>2
      <4>2. certBlock'[t] = Append(certBlock[t], -1)
        BY <2>1, <4>1 DEF TypeOK
      <4> QED BY <2>1, <3>2, <4>1, <4>2 DEF TypeOK
    <3> QED BY <3>1, <3>2
  <2>3. \A u \in lost' : u \in lost \/ (u = t /\ certBlock'[u] = <<>>)
    OBVIOUS
  <2>4. AsyncSend
    BY DEF WorkerInv, HandedOver
  <2>5. \A u \in Txs : u = t => Row(u)'
    BY <2>1, <2>2, <2>3, <2>4 DEF RowInv, Row
  <2>6. \A u \in Txs \ {t} : Row(u)'
    BY <2>2, <2>3 DEF RowInv, Row
  <2> QED BY <2>5, <2>6 DEF RowInv
<1>6. NoSilentLoss'
  <2>1. \A u : InQueue(u) => InQueue(u)'
    BY DEF InQueue
  <2>2. \A u : IsHeld(u) /\ u # held[w] => IsHeld(u)'
    BY DEF TypeOK, IsHeld
  <2>3. \A u \in Txs : u # held[w] => certBlock'[u] = certBlock[u]
    BY DEF TypeOK
  <2>4. certBlock'[held[w]] # <<>> \/ held[w] \in lost'
    OBVIOUS
  <2>5. lost \subseteq lost'
    OBVIOUS
  <2> QED BY <2>1, <2>2, <2>3, <2>4, <2>5 DEF NoSilentLoss
<1> QED BY <1>1, <1>2, <1>3, <1>4, <1>5, <1>6

LEMMA CrashKeepsIInv ==
  ASSUME IInv, Crash
  PROVE  IInv'
<1> USE SubmitAssumption DEF IInv, Crash
<1>1. TypeOK'
  BY DEF TypeOK, ReqStages, WorkerStages
<1>2. QueueInv'
  BY DEF QueueInv, TypeOK, HandedOver, Untouched, IsHeld
<1>3. WorkerInv'
  BY DEF WorkerInv, TypeOK, HandedOver, Untouched
<1>4. RequestInv'
  <2>1. \A t \in Txs : /\ req'[t] \in {req[t], "refused"}
                       /\ req'[t] \in {"idle", "replied", "refused"}
    BY DEF TypeOK
  <2>2. \A t \in Txs : req[t] = "idle" => ~(InQueue(t) \/ IsHeld(t))
    <3> SUFFICES ASSUME NEW t \in Txs, req[t] = "idle", InQueue(t) \/ IsHeld(t)
                 PROVE  FALSE
      OBVIOUS
    <3>1. CASE InQueue(t)
      BY <3>1 DEF InQueue, QueueInv, HandedOver
    <3>2. CASE IsHeld(t)
      <4>1. PICK w \in Workers : held[w] = t
        BY <3>2 DEF IsHeld
      <4>2. pc[w] # "idle"
        BY <4>1 DEF WorkerInv
      <4> QED BY <4>1, <4>2 DEF WorkerInv, HandedOver
    <3> QED BY <3>1, <3>2
  <2> QED BY <2>1, <2>2 DEF RequestInv, Untouched
<1>5. RowInv'
  <2>1. \A t \in Txs : InQueue(t) \/ IsHeld(t) => AsyncSend
    <3> SUFFICES ASSUME NEW t \in Txs, InQueue(t) \/ IsHeld(t) PROVE AsyncSend
      OBVIOUS
    <3>1. CASE InQueue(t)
      BY <3>1 DEF InQueue, QueueInv, HandedOver
    <3>2. CASE IsHeld(t)
      <4>1. PICK w \in Workers : held[w] = t
        BY <3>2 DEF IsHeld
      <4>2. pc[w] # "idle"
        BY <4>1 DEF WorkerInv
      <4> QED BY <4>2 DEF WorkerInv, HandedOver
    <3> QED BY <3>1, <3>2
  <2> QED BY <2>1 DEF RowInv, Row
<1>6. NoSilentLoss'
  BY Accounted DEF TypeOK, QueueInv, WorkerInv, RequestInv, RowInv, Row, NoSilentLoss,
         Untouched, HandedOver, IsHeld, InQueue, ReqStages, WorkerStages
<1> QED BY <1>1, <1>2, <1>3, <1>4, <1>5, <1>6

LEMMA StutterKeepsIInv ==
  ASSUME IInv, UNCHANGED vars
  PROVE  IInv'
<1> USE DEF IInv, vars
<1>1. TypeOK'
  BY DEF TypeOK
<1>2. QueueInv'
  BY DEF QueueInv, Untouched, HandedOver, IsHeld
<1>3. WorkerInv'
  BY DEF WorkerInv, Untouched, HandedOver
<1>4. RequestInv'
  BY DEF RequestInv, Untouched
<1>5. RowInv'
  BY DEF RowInv, Row
<1>6. NoSilentLoss'
  BY DEF NoSilentLoss, InQueue, IsHeld
<1> QED BY <1>1, <1>2, <1>3, <1>4, <1>5, <1>6

LEMMA StepKeepsIInv == IInv /\ [Next]_vars => IInv'
<1> SUFFICES ASSUME IInv, [Next]_vars PROVE IInv'
  OBVIOUS
<1>1. ASSUME NEW t \in Txs, Propose(t) \/ ProposeFails(t) \/ Commit(t)
      PROVE  IInv'
  BY <1>1, ProposeKeepsIInv, ProposeFailsKeepsIInv, CommitKeepsIInv
<1>2. ASSUME NEW t \in Txs, RequestStep(t)
      PROVE  IInv'
  BY <1>2, CacheResponsesKeepsIInv, OfferKeepsIInv, ReplyKeepsIInv,
     SyncCheckFailsKeepsIInv, SyncSubmitKeepsIInv, SyncEventKeepsIInv,
     SyncAwaitFailsKeepsIInv, SyncSaveKeepsIInv, SyncSaveFailsKeepsIInv
  DEF RequestStep
<1>3. ASSUME NEW w \in Workers, WorkerStep(w)
      PROVE  IInv'
  BY <1>3, PollKeepsIInv, CheckFailsKeepsIInv, SubmitKeepsIInv, EventKeepsIInv,
     AwaitFailsKeepsIInv, RecordSuccessKeepsIInv, RecordSuccessFailsKeepsIInv,
     RecordFailureKeepsIInv, RecordFailureFailsKeepsIInv
  DEF WorkerStep
<1>4. CASE Crash
  BY <1>4, CrashKeepsIInv
<1>5. CASE UNCHANGED vars
  BY <1>5, StutterKeepsIInv
<1> QED BY <1>1, <1>2, <1>3, <1>4, <1>5 DEF Next

(* Every transaction has exactly one owner at every stage, for any number   *)
(* of transactions and workers.                                             *)
THEOREM Ownership == Spec => []IInv
  BY InitIInv, StepKeepsIInv, PTL DEF Spec

-----------------------------------------------------------------------------
(* What follows from the invariant.                                         *)

(* Every variable keeps to its type: FabricService, FabricHandler and       *)
(* FabricTaskRun never write a status, a stage or a verdict of another kind. *)
THEOREM TypeCorrect == Spec => []TypeOK
<1>1. IInv => TypeOK
  BY DEF IInv
<1> QED BY <1>1, Ownership, PTL

LEMMA SuccessRowIsOnLedger ==
  ASSUME IInv
  PROVE  SuccessIsOnLedger
<1> SUFFICES ASSUME NEW t \in Txs, NEW i \in 1..Len(certBlock[t]),
                    certBlock[t][i] = 1
             PROVE  ledger[t] = "valid"
  BY DEF SuccessIsOnLedger
<1>1. certBlock[t] # <<>> /\ certBlock[t] # <<-1>>
  OBVIOUS
<1> QED BY <1>1 DEF IInv, RowInv, Row

(* FabricService.sendTransaction writes block_status 1 only for a           *)
(* transaction that the ledger holds as valid.                              *)
THEOREM SuccessOnLedger == Spec => []SuccessIsOnLedger
  BY SuccessRowIsOnLedger, Ownership, PTL

(* cert_block gets one row per transaction, or success followed by failure  *)
(* when only the acknowledgement of the first insert was lost.              *)
THEOREM OneOutcome == Spec => []OneOutcomePerTx
<1>1. IInv => OneOutcomePerTx
  <2>1. Len(<<>>) = 0 /\ Len(<<1>>) = 1 /\ Len(<<-1>>) = 1
    OBVIOUS
  <2> SUFFICES ASSUME IInv, NEW t \in Txs
               PROVE  /\ certBlock[t] \in {<<>>, <<1>>, <<-1>>, <<1, -1>>}
                      /\ Len(certBlock[t]) > 1 => "ackLost" \in SaveFaults
    BY DEF OneOutcomePerTx
  <2>2. /\ certBlock[t] \in {<<>>, <<1>>, <<-1>>, <<1, -1>>}
        /\ certBlock[t] = <<1, -1>> => "ackLost" \in SaveFaults
    BY DEF IInv, RowInv, Row
  <2>3. certBlock[t] = <<1, -1>> \/ Len(certBlock[t]) \in {0, 1}
    <3>1. CASE certBlock[t] = <<>>
      BY <2>1, <3>1
    <3>2. CASE certBlock[t] = <<1>>
      BY <2>1, <3>2
    <3>3. CASE certBlock[t] = <<-1>>
      BY <2>1, <3>3, Zenon
    <3> QED BY <2>2, <3>1, <3>2, <3>3
  <2>4. Len(certBlock[t]) > 1 => certBlock[t] = <<1, -1>>
    <3>1. \A n \in {0, 1} : ~(n > 1)
      OBVIOUS
    <3> QED BY <2>3, <3>1, Zenon
  <2> QED BY <2>2, <2>4, Zenon
<1> QED BY <1>1, Ownership, PTL

(* No interleaving of the request threads and the workers on the queue      *)
(* makes FabricHandler.sendTransaction run twice for a transaction, so that  *)
(* every copy of its envelope comes from one run of the SDK's loop over the  *)
(* orderers.                                                                 *)
THEOREM SubmittedOnce == Spec => []SubmittedAtMostOnce
<1>1. IInv => SubmittedAtMostOnce
  BY DEF IInv, RowInv, Row, SubmittedAtMostOnce
<1> QED BY <1>1, Ownership, PTL

(* A transaction whose id an asynchronous caller holds is queued, in a      *)
(* worker's hands, recorded, or lost for a cause the code names.            *)
THEOREM NothingLostSilently == Spec => []NoSilentLoss
<1>1. IInv => NoSilentLoss
  BY DEF IInv
<1> QED BY <1>1, Ownership, PTL

(* EHCacheUtil.remove runs before every row with status 1.                  *)
THEOREM RecordedSuccessFreesCache == Spec => []SuccessFreesCache
<1>1. IInv => SuccessFreesCache
  BY DEF IInv, TypeOK, RowInv, Row, SuccessFreesCache
<1> QED BY <1>1, Ownership, PTL

(* In synchronous mode sendTransactionProposal returns an id only for a     *)
(* transaction on the ledger with one row in cert_block.                    *)
THEOREM SyncReplyNotarized == Spec => []SyncReplyIsNotarized
<1>1. IInv => SyncReplyIsNotarized
  BY DEF IInv, RequestInv, RowInv, Row, SyncReplyIsNotarized
<1> QED BY <1>1, Ownership, PTL

-----------------------------------------------------------------------------
(* A cache with room for every transaction never evicts; the responses of a *)
(* transaction then stay from before its offer until its own event.         *)

CacheInv ==
    Cardinality(Txs) <= CacheCapacity =>
        /\ \A t \in Txs : req[t] = "cached" => t \in cache
        /\ \A i \in 1..Len(queue) : queue[i] \in cache
        /\ \A w \in Workers : pc[w] = "polled" => held[w] \in cache

LEMMA RoomForAll ==
  ASSUME TypeOK, Cardinality(Txs) <= CacheCapacity, NEW t \in Txs
  PROVE  Cardinality(cache \cup {t}) <= CacheCapacity
<1>1. cache \cup {t} \subseteq Txs
  BY DEF TypeOK
<1>2. IsFiniteSet(Txs) /\ CacheCapacity \in Nat
  BY SubmitAssumption
<1>3. /\ Cardinality(cache \cup {t}) <= Cardinality(Txs)
      /\ IsFiniteSet(cache \cup {t})
  BY <1>1, <1>2, FS_Subset
<1>4. Cardinality(Txs) \in Nat /\ Cardinality(cache \cup {t}) \in Nat
  BY <1>2, <1>3, FS_CardinalityType
<1> QED BY <1>2, <1>3, <1>4

LEMMA StepKeepsCacheInv == CacheInv /\ IInv /\ [Next]_vars => CacheInv'
<1> SUFFICES ASSUME CacheInv, IInv, [Next]_vars,
                    Cardinality(Txs) <= CacheCapacity
             PROVE  /\ \A t \in Txs : req'[t] = "cached" => t \in cache'
                    /\ \A i \in 1..Len(queue') : queue'[i] \in cache'
                    /\ \A w \in Workers : pc'[w] = "polled" => held'[w] \in cache'
  BY DEF CacheInv
<1> USE DEF IInv, CacheInv
<1>1. ASSUME NEW t \in Txs, CacheResponses(t)
      PROVE  cache' = cache \cup {t}
  BY <1>1, RoomForAll DEF CacheResponses
<1>2. ASSUME NEW t \in Txs, CacheResponses(t)
      PROVE  CacheInv'
  BY <1>1, <1>2 DEF CacheResponses, SetReq, TypeOK
<1>3. ASSUME NEW t \in Txs, Offer(t)
      PROVE  CacheInv'
  <2>1. /\ Len(queue') = Len(queue) + 1 /\ Len(queue) \in Nat
        /\ queue'[Len(queue) + 1] = t
        /\ \A i \in 1..Len(queue) : queue'[i] = queue[i]
    BY <1>3 DEF Offer, TypeOK
  <2>2. t \in cache
    BY <1>3 DEF Offer, SetReq
  <2>3. \A i \in 1..Len(queue') : i \in 1..Len(queue) \/ i = Len(queue) + 1
    BY <2>1
  <2> QED BY <1>3, <2>1, <2>2, <2>3 DEF Offer, SetReq, TypeOK
<1>4. ASSUME NEW w \in Workers, Poll(w)
      PROVE  CacheInv'
  BY <1>4 DEF Poll, SetPc, TypeOK
<1>5. ASSUME NEW w \in Workers, Event(w)
      PROVE  CacheInv'
  <2>1. held[w] \in Txs /\ HandedOver(held[w])
    BY <1>5 DEF Event, SetPc, TypeOK, WorkerInv
  <2>2. \A t \in Txs : req[t] = "cached" => t # held[w]
    BY <2>1 DEF HandedOver
  <2>3. \A i \in 1..Len(queue) : queue[i] # held[w]
    BY DEF QueueInv, IsHeld
  <2>4. \A v \in Workers : pc[v] = "polled" => held[v] # held[w]
    BY <1>5, <2>1, SubmitAssumption DEF Event, SetPc, WorkerInv
  <2> QED BY <1>5, <2>2, <2>3, <2>4 DEF Event, SetPc, TypeOK
<1>6. CASE Crash
  BY <1>6 DEF Crash, TypeOK
<1>7. ASSUME NEW t \in Txs,
             \/ Propose(t) \/ ProposeFails(t) \/ Commit(t) \/ Reply(t)
             \/ SyncCheckFails(t) \/ SyncSubmit(t) \/ SyncEvent(t)
             \/ SyncAwaitFails(t) \/ SyncSave(t) \/ SyncSaveFails(t)
      PROVE  CacheInv'
  <2>1. /\ \A u \in Txs : req'[u] = "cached" => req[u] = "cached"
        /\ UNCHANGED <<cache, queue, pc, held>>
    BY <1>7
    DEF Propose, ProposeFails, Commit, Reply, SyncCheckFails, SyncSubmit, SyncEvent,
        SyncAwaitFails, SyncSave, SyncSaveFails, SetReq, TypeOK
  <2> QED BY <2>1
<1>8. ASSUME NEW w \in Workers,
             \/ CheckFails(w) \/ Submit(w) \/ AwaitFails(w)
             \/ RecordSuccess(w) \/ RecordSuccessFails(w)
             \/ RecordFailure(w) \/ RecordFailureFails(w)
      PROVE  CacheInv'
  <2>1. /\ \A v \in Workers : pc'[v] = "polled" => /\ pc[v] = "polled"
                                                  /\ held'[v] = held[v]
        /\ UNCHANGED <<req, cache, queue>>
    BY <1>8
    DEF CheckFails, Submit, AwaitFails, RecordSuccess, RecordSuccessFails,
        RecordFailure, RecordFailureFails, Release, SetPc, TypeOK
  <2> QED BY <2>1
<1>9. CASE UNCHANGED vars
  BY <1>9 DEF vars
<1> QED BY <1>2, <1>3, <1>4, <1>5, <1>6, <1>7, <1>8, <1>9
        DEF Next, RequestStep, WorkerStep

(* A worker always finds the responses of what it polled, when the cache    *)
(* has room: FabricService caches before it offers.                         *)
THEOREM ResponsesArePresent == Spec => []PendingHaveResponses
<1>1. Init => CacheInv
  BY DEF Init, CacheInv
<1>2. CacheInv => PendingHaveResponses
  BY DEF CacheInv, PendingHaveResponses, InQueue
<1> QED BY <1>1, <1>2, StepKeepsCacheInv, Ownership, PTL DEF Spec
===============================================================================
