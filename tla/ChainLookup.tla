----------------------------- MODULE ChainLookup -----------------------------
(***************************************************************************)
(* A query of the gateway beside its submit pipeline: by transaction id    *)
(* (FabricService.getXChainByTransactionId) or by data                     *)
(* (getXChainByTransactionData), which lists the rows of cert_block that   *)
(* match and then asks the peers for the block of each, one after the      *)
(* other, while the pipeline goes on.                                      *)
(***************************************************************************)
EXTENDS FabricSubmit

VARIABLES
    lookup,   \* stage of the request
    todo,     \* transactions whose block is still to be asked for
    found,    \* transactions in the answer
    doubtful  \* history: some of them had no row with status 1 at the start

lookupVars == <<lookup, todo, found, doubtful>>

LookupTypeOK ==
    /\ TypeOK
    /\ lookup \in {"idle", "asking", "answered", "missing"}
    /\ todo \subseteq Txs /\ found \subseteq Txs
    /\ doubtful \in BOOLEAN

LookupInit ==
    /\ Init
    /\ lookup = "idle" /\ todo = {} /\ found = {} /\ doubtful = FALSE

Successes == {t \in Txs : \E i \in 1..Len(certBlock[t]) : certBlock[t][i] = 1}

Ask(S) ==
    /\ lookup # "asking" /\ lookup' = "asking"
    /\ todo' = S /\ found' = {}
    /\ doubtful' = ~(S \subseteq Successes)
    /\ UNCHANGED vars

(* Who was given a transaction id asks for it; no row is read. *)
AskById == \E t \in Txs : req[t] = "replied" /\ Ask({t})

(* listCertBlock: what matches the data and fits on the page; the status of *)
(* the rows is not in the statement.                                        *)
AskByData == \E S \in SUBSET {t \in Txs : certBlock[t] # <<>>} : Ask(S)

(* queryBlockByTransactionID tries the peers in turn; a block keeps invalid *)
(* transactions too.                                                        *)
InBlock(t) == ledger[t] \in {"valid", "invalid"}

(* getXChainBlock takes the transaction out of the block; it does not look  *)
(* at the validation code.                                                  *)
QueryBlock(t) ==
    /\ lookup = "asking" /\ t \in todo
    /\ InBlock(t)
    /\ todo' = todo \ {t} /\ found' = found \cup {t}
    /\ UNCHANGED <<vars, lookup, doubtful>>

(* No peer has the transaction: the exception ends the whole query, with    *)
(* what was found so far.                                                   *)
QueryMissing(t) ==
    /\ lookup = "asking" /\ t \in todo
    /\ ~InBlock(t)
    /\ lookup' = "missing"
    /\ todo' = {} /\ found' = {}
    /\ UNCHANGED <<vars, doubtful>>

Answer ==
    /\ lookup = "asking" /\ todo = {}
    /\ lookup' = "answered"
    /\ UNCHANGED <<vars, todo, found, doubtful>>

(* The database, the network or the peers fail. *)
Abandon == lookup' = "idle" /\ todo' = {} /\ found' = {} /\ doubtful' = FALSE

LookupBroken == lookup = "asking" /\ Abandon /\ UNCHANGED vars

(* The pipeline; a restart takes the request with it. *)
PipelineStep ==
    /\ Next
    /\ IF Crash THEN Abandon ELSE UNCHANGED lookupVars

LookupNext ==
    \/ PipelineStep
    \/ AskById \/ AskByData
    \/ \E t \in Txs : QueryBlock(t) \/ QueryMissing(t)
    \/ Answer \/ LookupBroken

LookupSpec == LookupInit /\ [][LookupNext]_<<vars, lookupVars>>
-----------------------------------------------------------------------------
(* Rows with status 1 can be relied on: a query over such rows alone never  *)
(* ends because a transaction has no block, and what it answers is valid on *)
(* the ledger.  One other row among those that match is enough to lose the  *)
(* whole answer, or to have an invalid transaction in it.                   *)
SuccessesAreFound ==
    ~doubtful => lookup # "missing" /\ \A t \in found : ledger[t] = "valid"
=============================================================================
