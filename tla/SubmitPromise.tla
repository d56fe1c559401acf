---------------------------- MODULE SubmitPromise ----------------------------
(***************************************************************************)
(* What the Fabric gateway promises about a notarization transaction,      *)
(* whatever queues, caches and threads it uses:                            *)
(*   - a transaction is settled at most once (success, failure or lost);   *)
(*   - success is settled only for a transaction that is on the ledger;    *)
(*   - a synchronous caller gets a transaction id only after success, an   *)
(*     asynchronous one as soon as the transaction is pending.             *)
(* FabricSubmit implements this module.                                    *)
(***************************************************************************)
CONSTANTS Txs,        \* the transactions
          AsyncSend   \* fastchaindb.async

VARIABLES status,     \* what is settled about each transaction
          answered,   \* the transactions whose id was returned to the caller
          onLedger    \* the transactions committed as valid

vars == <<status, answered, onLedger>>

Init == /\ status = [t \in Txs |-> "new"]
        /\ answered = {}
        /\ onLedger = {}

(* The transaction waits for consensus in the background. *)
Enqueue(t) == /\ AsyncSend
              /\ status[t] = "new"
              /\ status' = [status EXCEPT ![t] = "pending"]
              /\ UNCHANGED <<answered, onLedger>>

(* A transaction reaches the ledger: possibly after it was given up. *)
Land(t) == /\ onLedger' = onLedger \cup {t}
           /\ UNCHANGED <<status, answered>>

Succeed(t) == /\ status[t] = IF AsyncSend THEN "pending" ELSE "new"
              /\ t \in onLedger
              /\ status' = [status EXCEPT ![t] = "success"]
              /\ UNCHANGED <<answered, onLedger>>

Fail(t) == /\ status[t] = "pending"
           /\ status' = [status EXCEPT ![t] = "failure"]
           /\ UNCHANGED <<answered, onLedger>>

(* Pending transactions nobody will ever settle: a crash takes several. *)
Lose(S) == /\ \A t \in S : status[t] = "pending"
           /\ status' = [t \in Txs |-> IF t \in S THEN "lost" ELSE status[t]]
           /\ UNCHANGED <<answered, onLedger>>

Answer(t) == /\ IF AsyncSend THEN status[t] # "new" ELSE status[t] = "success"
             /\ answered' = answered \cup {t}
             /\ UNCHANGED <<status, onLedger>>

Next == \/ \E t \in Txs : \/ Enqueue(t) \/ Land(t) \/ Succeed(t)
                          \/ Fail(t) \/ Answer(t)
        \/ \E S \in SUBSET Txs : Lose(S)

Spec == Init /\ [][Next]_vars
==============================================================================
