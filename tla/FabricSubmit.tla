---------------------------- MODULE FabricSubmit ----------------------------
(***************************************************************************)
(* The submit pipeline of the Fabric gateway (fastchaindb-fabric):         *)
(* FabricService.sendTransactionProposal runs in an HTTP request thread,   *)
(* FabricService.sendTransaction in the ten FabricTaskRun threads started  *)
(* by FabricTaskService.  They share FabricHandler.concurrentLinkedQueue,  *)
(* the EHCache of proposal responses and the table cert_block.             *)
(*                                                                         *)
(* Every proposal gets a fresh transaction id, so a request thread is      *)
(* identified with the transaction it creates.                             *)
(***************************************************************************)
EXTENDS Integers, Sequences, FiniteSets

CONSTANTS
    Txs,            \* transaction ids; each belongs to one request
    Workers,        \* the FabricTaskRun threads
    NoTx,           \* a worker's local variable when poll() gave nothing
    Orderers,       \* entries in the channel's list of orderers
    AsyncSend,      \* fastchaindb.async
    CacheCapacity,  \* maxElementsInMemory of the response cache
    SaveFaults,     \* how an insert may fail: see SaveThrows
    CanCrash        \* whether the gateway process may be restarted

ASSUME SubmitAssumption ==
    /\ NoTx \notin Txs
    /\ Orderers \in Nat \ {0}
    /\ AsyncSend \in BOOLEAN
    /\ CanCrash \in BOOLEAN
    /\ CacheCapacity \in Nat \ {0}
    /\ SaveFaults \subseteq {"refused", "ackLost"}
    /\ IsFiniteSet(Txs)

VARIABLES
    req,        \* stage of the request thread of each transaction
    endorsed,   \* what the peers answered to its proposal
    cache,      \* transactions whose proposal responses are in EHCache
    queue,      \* FabricHandler.concurrentLinkedQueue
    pc,         \* stage of each worker thread
    held,       \* the transaction a worker polled
    sends,      \* history: for each call of Channel.sendTransaction with the
                \* transaction, the number of orderers its envelope went to
    ledger,     \* the Fabric network's view of the transaction
    certBlock,  \* block_status of the cert_block rows, in insertion order
    lost        \* history: accepted, not recorded, and in no memory any more

vars == <<req, endorsed, cache, queue, pc, held, sends, ledger, certBlock, lost>>

ReqStages == {"idle", "endorsed", "cached", "offered",      \* asynchronous
              "ordering", "recording", "saved",             \* synchronous
              "replied", "refused"}
WorkerStages == {"idle", "polled", "ordering", "recording", "failing"}

TypeOK ==
    /\ req \in [Txs -> ReqStages]
    /\ endorsed \in [Txs -> {"none", "good", "bad"}]
    /\ cache \subseteq Txs
    /\ queue \in Seq(Txs)
    /\ pc \in [Workers -> WorkerStages]
    /\ held \in [Workers -> Txs \cup {NoTx}]
    /\ sends \in [Txs -> Seq(1..Orderers)]
    /\ ledger \in [Txs -> {"none", "ordered", "valid", "invalid"}]
    /\ certBlock \in [Txs -> Seq({1, -1})]
    /\ lost \subseteq Txs

Init ==
    /\ req = [t \in Txs |-> "idle"]
    /\ endorsed = [t \in Txs |-> "none"]
    /\ cache = {}
    /\ queue = <<>>
    /\ pc = [w \in Workers |-> "idle"]
    /\ held = [w \in Workers |-> NoTx]
    /\ sends = [t \in Txs |-> <<>>]
    /\ ledger = [t \in Txs |-> "none"]
    /\ certBlock = [t \in Txs |-> <<>>]
    /\ lost = {}

InQueue(t) == \E i \in 1..Len(queue) : queue[i] = t
IsHeld(t) == \E w \in Workers : held[w] = t

-----------------------------------------------------------------------------
(* The table cert_block: CertBlockServiceImpl.save is a plain insert in a   *)
(* transaction of its own.                                                  *)

(* Mutant: the row says "generated" (0) whatever happened. *)
SavedAsGenerated(t, s) == certBlock' = [certBlock EXCEPT ![t] = Append(@, 0)]

Saved(t, s) == certBlock' = [certBlock EXCEPT ![t] = Append(@, s)]

(* The save throws: nothing was inserted (database down, or splitBlock found *)
(* no transactionType before it), or the commit went through and only its    *)
(* acknowledgement was lost.                                                 *)
SaveThrows(t, s) ==
    \/ "refused" \in SaveFaults /\ UNCHANGED certBlock
    \/ "ackLost" \in SaveFaults /\ Saved(t, s)

-----------------------------------------------------------------------------
(* Channel.sendTransaction and the Fabric network behind it.  The call goes  *)
(* through the channel's orderers in a shuffled order and sends the envelope *)
(* to one after the other until one answers SUCCESS; an orderer that was     *)
(* added twice comes up twice.  Nothing reads how far the loop is, so the    *)
(* call is one step that says how many orderers it went to.                  *)

Tried(t, n) == sends' = [sends EXCEPT ![t] = Append(@, n)]

(* Some orderer answered SUCCESS.  The ones tried before it may have taken   *)
(* the envelope too and their answers were lost: the peers accept the first  *)
(* copy in the blocks, and every later one is committed as a duplicate that  *)
(* changes nothing.                                                          *)
OrdererAccepts(t) ==
    /\ \E n \in 1..Orderers : Tried(t, n)
    /\ ledger' = [ledger EXCEPT ![t] = "ordered"]

(* No orderer answered SUCCESS, and the future ends exceptionally: none took *)
(* the envelope, or some did and their answers were lost.                    *)
BroadcastThrows(t) ==
    /\ Tried(t, Orderers)
    /\ UNCHANGED ledger \/ ledger' = [ledger EXCEPT ![t] = "ordered"]

(* A block with the first copy of the transaction is committed, with the     *)
(* verdict of validation.                                                    *)
Commit(t) ==
    /\ ledger[t] = "ordered"
    /\ \E verdict \in {"valid", "invalid"} :
          ledger' = [ledger EXCEPT ![t] = verdict]
    /\ UNCHANGED <<req, endorsed, cache, queue, pc, held, sends, certBlock, lost>>

-----------------------------------------------------------------------------
(* The request thread, up to the choice between the two modes.              *)

SetReq(t, from, to) == req[t] = from /\ req' = [req EXCEPT ![t] = to]

(* The peers answered; a FAILURE answer is not an exception here.  "bad"     *)
(* stands for answers among which is a FAILURE, or which the SDK will not    *)
(* assemble to an envelope because they are inconsistent or incomplete.      *)
Propose(t) ==
    /\ SetReq(t, "idle", "endorsed")
    /\ \E e \in {"good", "bad"} : endorsed' = [endorsed EXCEPT ![t] = e]
    /\ UNCHANGED <<cache, queue, pc, held, sends, ledger, certBlock, lost>>

(* No usable answer: the SDK throws, or the response list is empty and the  *)
(* null result is dereferenced by FabricInstance.sendTransaction.           *)
ProposeFails(t) ==
    /\ SetReq(t, "idle", "refused")
    /\ UNCHANGED <<endorsed, cache, queue, pc, held, sends, ledger, certBlock, lost>>

(* Asynchronous: the responses go into the bounded cache, which evicts some *)
(* other entry when it is over its capacity.                                *)
CacheResponses(t) ==
    /\ AsyncSend
    /\ SetReq(t, "endorsed", "cached")
    /\ IF Cardinality(cache \cup {t}) <= CacheCapacity
       THEN cache' = cache \cup {t}
       ELSE \E victim \in cache \ {t} : cache' = (cache \ {victim}) \cup {t}
    /\ UNCHANGED <<endorsed, queue, pc, held, sends, ledger, certBlock, lost>>

(* Mutant: the offer comes before the responses are cached. *)
OfferUncached(t) ==
    /\ SetReq(t, "endorsed", "offered")
    /\ queue' = Append(queue, t)
    /\ UNCHANGED <<endorsed, cache, pc, held, sends, ledger, certBlock, lost>>

Offer(t) ==
    /\ SetReq(t, "cached", "offered")
    /\ queue' = Append(queue, t)
    /\ UNCHANGED <<endorsed, cache, pc, held, sends, ledger, certBlock, lost>>

(* Mutant: the asynchronous caller is answered before the offer. *)
ReplyEarly(t) ==
    /\ SetReq(t, IF AsyncSend THEN "cached" ELSE "saved", "replied")
    /\ UNCHANGED <<endorsed, cache, queue, pc, held, sends, ledger, certBlock, lost>>

(* The transaction id is returned to the caller. *)
Reply(t) ==
    /\ SetReq(t, IF AsyncSend THEN "offered" ELSE "saved", "replied")
    /\ UNCHANGED <<endorsed, cache, queue, pc, held, sends, ledger, certBlock, lost>>

-----------------------------------------------------------------------------
(* Synchronous: orderConsensus and the insert run in the request thread.    *)

SyncCheckFails(t) ==
    /\ ~AsyncSend
    /\ endorsed[t] = "bad"
    /\ SetReq(t, "endorsed", "refused")
    /\ UNCHANGED <<endorsed, cache, queue, pc, held, sends, ledger, certBlock, lost>>

SyncSubmit(t) ==
    /\ ~AsyncSend
    /\ endorsed[t] = "good"
    /\ \/ SetReq(t, "endorsed", "ordering") /\ OrdererAccepts(t)
       \/ SetReq(t, "endorsed", "refused") /\ BroadcastThrows(t)
    /\ UNCHANGED <<endorsed, cache, queue, pc, held, certBlock, lost>>

(* Mutant: any event of the transaction counts, also an invalid one. *)
SyncEventAnyVerdict(t) ==
    /\ ledger[t] \in {"valid", "invalid"}
    /\ SetReq(t, "ordering", "recording")
    /\ UNCHANGED <<endorsed, cache, queue, pc, held, sends, ledger, certBlock, lost>>

SyncEvent(t) ==
    /\ ledger[t] = "valid"
    /\ SetReq(t, "ordering", "recording")
    /\ UNCHANGED <<endorsed, cache, queue, pc, held, sends, ledger, certBlock, lost>>

(* Mutant: get() without a time limit. *)
SyncAwaitForever(t) ==
    /\ ledger[t] = "invalid"
    /\ SetReq(t, "ordering", "refused")
    /\ UNCHANGED <<endorsed, cache, queue, pc, held, sends, ledger, certBlock, lost>>

(* 50 seconds passed, or the event says the transaction is invalid: the     *)
(* exception leaves the handler and no row is written.                      *)
SyncAwaitFails(t) ==
    /\ SetReq(t, "ordering", "refused")
    /\ UNCHANGED <<endorsed, cache, queue, pc, held, sends, ledger, certBlock, lost>>

SyncSave(t) ==
    /\ SetReq(t, "recording", "saved")
    /\ Saved(t, 1)
    /\ UNCHANGED <<endorsed, cache, queue, pc, held, sends, ledger, lost>>

(* Mutant: the exception of the insert is swallowed. *)
SyncSaveSwallowed(t) ==
    /\ SetReq(t, "recording", "saved")
    /\ SaveThrows(t, 1)
    /\ UNCHANGED <<endorsed, cache, queue, pc, held, sends, ledger, lost>>

SyncSaveFails(t) ==
    /\ SetReq(t, "recording", "refused")
    /\ SaveThrows(t, 1)
    /\ UNCHANGED <<endorsed, cache, queue, pc, held, sends, ledger, lost>>

-----------------------------------------------------------------------------
(* The worker threads: FabricTaskRun.run around FabricService.sendTransaction. *)

SetPc(w, from, to) == pc[w] = from /\ pc' = [pc EXCEPT ![w] = to]

(* The loop goes back to poll(). *)
Release(w, from) == SetPc(w, from, "idle") /\ held' = [held EXCEPT ![w] = NoTx]

(* Mutant: peek() instead of poll(). *)
Peek(w) ==
    /\ queue # <<>>
    /\ SetPc(w, "idle", "polled")
    /\ held' = [held EXCEPT ![w] = Head(queue)]
    /\ UNCHANGED <<req, endorsed, cache, queue, sends, ledger, certBlock, lost>>

Poll(w) ==
    /\ queue # <<>>
    /\ SetPc(w, "idle", "polled")
    /\ held' = [held EXCEPT ![w] = Head(queue)]
    /\ queue' = Tail(queue)
    /\ UNCHANGED <<req, endorsed, cache, sends, ledger, certBlock, lost>>

(* Mutant: the failed check goes straight back to the loop. *)
CheckFailsSwallowed(w) ==
    /\ Release(w, "polled")
    /\ UNCHANGED <<req, endorsed, cache, queue, sends, ledger, certBlock, lost>>

(* No responses in the cache, or a FAILURE among them: the exception is     *)
(* caught before anything is sent.                                          *)
CheckFails(w) ==
    /\ SetPc(w, "polled", "failing")
    /\ held[w] \notin cache \/ endorsed[held[w]] = "bad"
    /\ UNCHANGED <<req, endorsed, cache, queue, held, sends, ledger, certBlock, lost>>

Submit(w) ==
    LET t == held[w] IN
    /\ t \in cache /\ endorsed[t] = "good"
    /\ \/ SetPc(w, "polled", "ordering") /\ OrdererAccepts(t)
       \/ SetPc(w, "polled", "failing") /\ BroadcastThrows(t)
    /\ UNCHANGED <<req, endorsed, cache, queue, held, certBlock, lost>>

(* Mutant: any event of the transaction counts, also an invalid one. *)
EventAnyVerdict(w) ==
    /\ SetPc(w, "ordering", "recording")
    /\ ledger[held[w]] \in {"valid", "invalid"}
    /\ cache' = cache \ {held[w]}
    /\ UNCHANGED <<req, endorsed, queue, held, sends, ledger, certBlock, lost>>

(* Mutant: the responses stay in the cache. *)
EventKeepsCache(w) ==
    /\ SetPc(w, "ordering", "recording")
    /\ ledger[held[w]] = "valid"
    /\ UNCHANGED <<req, endorsed, cache, queue, held, sends, ledger, certBlock, lost>>

(* The event of a valid transaction: the responses leave the cache first. *)
Event(w) ==
    /\ SetPc(w, "ordering", "recording")
    /\ ledger[held[w]] = "valid"
    /\ cache' = cache \ {held[w]}
    /\ UNCHANGED <<req, endorsed, queue, held, sends, ledger, certBlock, lost>>

(* Mutant: get() without a time limit. *)
AwaitForever(w) ==
    /\ SetPc(w, "ordering", "failing")
    /\ ledger[held[w]] = "invalid"
    /\ UNCHANGED <<req, endorsed, cache, queue, held, sends, ledger, certBlock, lost>>

(* 50 seconds passed, or the event says the transaction is invalid. *)
AwaitFails(w) ==
    /\ SetPc(w, "ordering", "failing")
    /\ UNCHANGED <<req, endorsed, cache, queue, held, sends, ledger, certBlock, lost>>

(* Mutant: the failure row is written behind the try block, not in a catch. *)
RecordBoth(w) ==
    /\ SetPc(w, "recording", "failing")
    /\ Saved(held[w], 1)
    /\ UNCHANGED <<req, endorsed, cache, queue, held, sends, ledger, lost>>

RecordSuccess(w) ==
    /\ Release(w, "recording")
    /\ Saved(held[w], 1)
    /\ UNCHANGED <<req, endorsed, cache, queue, sends, ledger, lost>>

(* The insert stands inside the try block: its exception is caught too. *)
RecordSuccessFails(w) ==
    /\ SetPc(w, "recording", "failing")
    /\ SaveThrows(held[w], 1)
    /\ UNCHANGED <<req, endorsed, cache, queue, held, sends, ledger, lost>>

(* The catch block: one row with status -1, and no second submission. *)
RecordFailure(w) ==
    /\ Release(w, "failing")
    /\ Saved(held[w], -1)
    /\ UNCHANGED <<req, endorsed, cache, queue, sends, ledger, lost>>

(* The insert of the catch block throws as well: the loop logs it and polls *)
(* the next transaction.                                                    *)
RecordFailureFails(w) ==
    /\ Release(w, "failing")
    /\ SaveThrows(held[w], -1)
    /\ lost' = lost \cup {t \in {held[w]} : certBlock'[t] = <<>>}
    /\ UNCHANGED <<req, endorsed, cache, queue, sends, ledger>>

-----------------------------------------------------------------------------
(* The process is killed and started again: queue, cache and threads live   *)
(* in memory only; the callers of running requests see their connection     *)
(* break.                                                                   *)
Crash ==
    /\ CanCrash
    /\ req' = [t \in Txs |-> IF req[t] \in {"idle", "replied"} THEN req[t]
                             ELSE "refused"]
    /\ cache' = {}
    /\ queue' = <<>>
    /\ pc' = [w \in Workers |-> "idle"]
    /\ held' = [w \in Workers |-> NoTx]
    /\ lost' = lost \cup {t \in Txs : /\ InQueue(t) \/ IsHeld(t)
                                      /\ certBlock[t] = <<>>}
    /\ UNCHANGED <<endorsed, sends, ledger, certBlock>>

-----------------------------------------------------------------------------
RequestStep(t) ==
    \/ CacheResponses(t) \/ Offer(t) \/ Reply(t)
    \/ SyncCheckFails(t) \/ SyncSubmit(t) \/ SyncEvent(t)
    \/ SyncAwaitFails(t) \/ SyncSave(t) \/ SyncSaveFails(t)

WorkerStep(w) ==
    \/ Poll(w) \/ CheckFails(w) \/ Submit(w) \/ Event(w) \/ AwaitFails(w)
    \/ RecordSuccess(w) \/ RecordSuccessFails(w)
    \/ RecordFailure(w) \/ RecordFailureFails(w)

Next ==
    \/ \E t \in Txs : \/ Propose(t) \/ ProposeFails(t)
                      \/ RequestStep(t) \/ Commit(t)
    \/ \E w \in Workers : WorkerStep(w)
    \/ Crash

(* The JVM schedules every thread; the 50 second limit ends every wait.     *)
(* Nothing is assumed of the network, of new requests or of the database.   *)
Fairness ==
    /\ \A t \in Txs : WF_vars(RequestStep(t))
    /\ \A w \in Workers : WF_vars(WorkerStep(w))

Spec == Init /\ [][Next]_vars /\ Fairness
-----------------------------------------------------------------------------
(* Safety.                                                                  *)

(* A row that says "on the chain" (block_status 1) is only ever written for *)
(* a transaction the ledger holds as valid: FabricService writes 1 only     *)
(* behind a transaction event, in either mode.                              *)
SuccessIsOnLedger ==
    \A t \in Txs : \A i \in 1..Len(certBlock[t]) :
        certBlock[t][i] = 1 => ledger[t] = "valid"

(* A transaction has one row in cert_block, although save() is a plain      *)
(* insert and the catch block inserts again.  The exception: a success      *)
(* whose commit acknowledgement was lost is recorded a second time, as -1.  *)
OneOutcomePerTx ==
    \A t \in Txs :
        /\ certBlock[t] \in {<<>>, <<1>>, <<-1>>, <<1, -1>>}
        /\ Len(certBlock[t]) > 1 => "ackLost" \in SaveFaults

(* The pipeline gives a transaction to Channel.sendTransaction at most once, *)
(* however the ten workers interleave on the queue: poll() gives it to one   *)
(* worker and nothing puts it back.  Further copies of an envelope come from *)
(* that one call only, at most one to each entry of the list of orderers.    *)
SubmittedAtMostOnce ==
    \A t \in Txs : sends[t] \in {<<>>} \cup {<<n>> : n \in 1..Orderers}

(* An asynchronous caller that has a transaction id: the transaction is     *)
(* still queued or in a worker's hands, or has a row, or its loss has a     *)
(* named cause (a restart, or two failed inserts).                          *)
NoSilentLoss ==
    AsyncSend => \A t \in Txs : req[t] \in {"offered", "replied"} =>
        InQueue(t) \/ IsHeld(t) \/ certBlock[t] # <<>> \/ t \in lost

(* A worker finds the proposal responses of whatever it polls, because they *)
(* are cached before the offer and removed only by the one worker that      *)
(* holds the transaction: as long as the cache has room for everything.     *)
PendingHaveResponses ==
    Cardinality(Txs) <= CacheCapacity =>
        /\ \A t \in Txs : InQueue(t) => t \in cache
        /\ \A w \in Workers : pc[w] = "polled" => held[w] \in cache

(* The responses of a recorded success are out of the cache, so only failed *)
(* and unfinished transactions use its bounded room.                        *)
SuccessFreesCache ==
    \A t \in cache : certBlock[t] \in {<<>>, <<-1>>}

(* Synchronous mode: who gets a transaction id has a valid transaction on   *)
(* the ledger and exactly one row, with status 1.                           *)
SyncReplyIsNotarized ==
    ~AsyncSend => \A t \in Txs : req[t] = "replied" =>
        ledger[t] = "valid" /\ certBlock[t] = <<1>>

-----------------------------------------------------------------------------
(* Liveness.                                                                *)

(* Every transaction put on the queue is recorded at last, or lost by a     *)
(* restart or a failing database: no worker waits forever for an event.     *)
AcceptedIsSettled ==
    \A t \in Txs : (req[t] = "offered") ~> (certBlock[t] # <<>> \/ t \in lost)

(* Every endorsed request is answered, with a transaction id or an error.   *)
RequestIsAnswered ==
    \A t \in Txs : (req[t] = "endorsed") ~> (req[t] \in {"replied", "refused"})

-----------------------------------------------------------------------------
(* FabricSubmit implements SubmitPromise.                                   *)

Status(t) == CASE certBlock[t] # <<>> /\ certBlock[t][1] = 1 -> "success"
               [] certBlock[t] # <<>> /\ certBlock[t][1] # 1 -> "failure"
               [] certBlock[t] = <<>> /\ t \in lost -> "lost"
               [] OTHER -> IF InQueue(t) \/ IsHeld(t) THEN "pending" ELSE "new"

Promise == INSTANCE SubmitPromise WITH
               status   <- [t \in Txs |-> Status(t)],
               answered <- {t \in Txs : req[t] = "replied"},
               onLedger <- {t \in Txs : ledger[t] = "valid"}

(* What is promised about a transaction, and in which order, survives the   *)
(* queue, the cache, the threads, the timeouts and the restarts.            *)
KeepsPromise == Promise!Spec

-----------------------------------------------------------------------------
(* The comment in FabricService.sendTransaction, "after 5 failed            *)
(* submissions give up consensus": a transaction that was submitted is      *)
(* given up (a negative row) only after five submissions.                   *)
GivesUpAfterFiveSends ==
    \A t \in Txs : certBlock[t] = <<-1>> /\ sends[t] # <<>> => Len(sends[t]) >= 5
=============================================================================
