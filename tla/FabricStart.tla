----------------------------- MODULE FabricStart -----------------------------
(***************************************************************************)
(* The start of the Fabric gateway: FabricStartConfig.hfClient creates the *)
(* channel, joins the peers, installs and instantiates the chaincode, and  *)
(* remembers what it did in fabric_monitor, fabric_monitor_peer and        *)
(* fabric_monitor_order.  No transaction spans the network and the tables, *)
(* every exception ends the start, and the next start goes by the tables.  *)
(* Between two starts a peer may be appended to peer.name.                 *)
(*                                                                         *)
(* A peer is its position in peer.name; the same list serves as the list   *)
(* of orderers.                                                            *)
(***************************************************************************)
EXTENDS Integers

CONSTANTS
    MaxPeers,  \* how many peers there may ever be
    CanCrash   \* whether a start may be killed, or a call in it throw

ASSUME StartAssumption == MaxPeers \in Nat \ {0} /\ CanCrash \in BOOLEAN

Peers == 1..MaxPeers

VARIABLES
    size,          \* how many peers peer.name lists
    channel,       \* the network: the channel exists
    joined,        \*   peers that joined it
    installed,     \*   peers with the chaincode package
    instantiated,  \*   the chaincode is instantiated on the channel
    channelRow,    \* the tables: the row of fabric_monitor
    orderRow,      \*   the rows of fabric_monitor_order
    peerRow,       \*   the rows of fabric_monitor_peer
    ccRow,         \*   those with a chain_code_name
    pc,            \* stage of the start
    next,          \* the next peer of the stage's loop
    seen,          \* what the start read from the tables
    began,         \* history: how the tables stood to the network then
    clean          \* history: no fault in this start

network == <<channel, joined, installed, instantiated>>
tables == <<channelRow, orderRow, peerRow, ccRow>>
history == <<began, clean>>
vars == <<size, network, tables, pc, next, seen, history>>

Stages == {"create", "recordChannel", "orderers", "peers", "recordPeer",
           "install", "recordInstall", "initialize", "invoke"}

TypeOK ==
    /\ size \in Peers
    /\ channel \in BOOLEAN /\ instantiated \in BOOLEAN /\ channelRow \in BOOLEAN
    /\ joined \subseteq Peers /\ installed \subseteq Peers
    /\ orderRow \subseteq Peers /\ peerRow \subseteq Peers /\ ccRow \subseteq Peers
    /\ pc \in Stages \cup {"off", "ready", "refused"}
    /\ next \in Peers
    /\ seen \in [order : SUBSET Peers, peer : SUBSET Peers, cc : SUBSET Peers]
    /\ began \in {"inStep", "newPeers", "outOfStep"}
    /\ clean \in BOOLEAN

Configured == 1..size

(* The tables say what the network is. *)
Mirrored == channelRow = channel /\ peerRow = joined /\ ccRow = installed

(* ... and the chaincode is instantiated exactly when nothing is left to    *)
(* install.                                                                 *)
InStep == Mirrored /\ (instantiated <=> Configured \subseteq ccRow)

Standing == CASE InStep -> "inStep"
              [] ~InStep /\ Mirrored /\ instantiated -> "newPeers"
              [] OTHER -> "outOfStep"

Init ==
    /\ size \in Peers
    /\ channel = FALSE /\ joined = {} /\ installed = {} /\ instantiated = FALSE
    /\ channelRow = FALSE /\ orderRow = {} /\ peerRow = {} /\ ccRow = {}
    /\ pc = "off"
    /\ next = 1
    /\ seen = [order |-> {}, peer |-> {}, cc |-> {}]
    /\ began = "inStep" /\ clean = TRUE

-----------------------------------------------------------------------------
Goto(from, to) == pc = from /\ pc' = to

(* The exception leaves hfClient: no bean, no gateway. *)
Refused(from) == Goto(from, "refused") /\ UNCHANGED <<network, next>>

(* Mutant: the loop runs one peer too far. *)
LoopOverruns(from, stage, after) ==
    /\ pc = from
    /\ IF next <= size THEN next' = next + 1 /\ pc' = stage
                       ELSE next' = 1 /\ pc' = after

(* The loop of a stage goes to the next peer, or on to another stage. *)
Loop(from, stage, after) ==
    /\ pc = from
    /\ IF next < size THEN next' = next + 1 /\ pc' = stage
                      ELSE next' = 1 /\ pc' = after

(* The tables are read once. *)
Start ==
    /\ pc \in {"off", "refused"}
    /\ pc' = IF channelRow THEN "orderers" ELSE "create"
    /\ next' = 1
    /\ seen' = IF channelRow THEN [order |-> orderRow, peer |-> peerRow, cc |-> ccRow]
                             ELSE [order |-> {}, peer |-> {}, cc |-> {}]
    /\ began' = Standing
    /\ clean' = TRUE
    /\ UNCHANGED <<size, network, tables>>

(* The orderer refuses to create a channel that exists. *)
CreateChannel ==
    /\ \/ ~channel /\ channel' = TRUE /\ Goto("create", "recordChannel")
          /\ UNCHANGED <<joined, installed, instantiated, next>>
       \/ channel /\ Refused("create")
    /\ UNCHANGED <<size, tables, seen, history>>

RecordChannel ==
    /\ Goto("recordChannel", "orderers")
    /\ channelRow' = TRUE
    /\ UNCHANGED <<size, network, orderRow, peerRow, ccRow, next, seen, history>>

AddOrderer ==
    /\ Loop("orderers", "orderers", "peers")
    /\ orderRow' = IF next \in seen.order THEN orderRow ELSE orderRow \cup {next}
    /\ UNCHANGED <<size, network, channelRow, peerRow, ccRow, seen, history>>

(* Peers whose chain_code_name was not in the table. *)
ChaincodePeers == Configured \ seen.cc

AfterPeers == IF ChaincodePeers = {} THEN "invoke" ELSE "install"

(* A peer of the table is only added to the client's channel object. *)
AddPeer ==
    /\ next \in seen.peer
    /\ Loop("peers", "peers", AfterPeers)
    /\ UNCHANGED <<size, network, tables, seen, history>>

(* Mutant: a peer that already joined is passed over. *)
JoinPeerTolerant ==
    /\ next \notin seen.peer
    /\ \/ next \notin joined /\ joined' = joined \cup {next}
          /\ Goto("peers", "recordPeer") /\ UNCHANGED next
       \/ next \in joined /\ Loop("peers", "peers", AfterPeers) /\ UNCHANGED joined
    /\ UNCHANGED <<size, channel, installed, instantiated, tables, seen, history>>

(* Any other peer is asked to join, and refuses if it already has. *)
JoinPeer ==
    /\ next \notin seen.peer
    /\ \/ next \notin joined /\ joined' = joined \cup {next}
          /\ Goto("peers", "recordPeer")
          /\ UNCHANGED <<channel, installed, instantiated, next>>
       \/ next \in joined /\ Refused("peers")
    /\ UNCHANGED <<size, tables, seen, history>>

RecordPeer ==
    /\ Loop("recordPeer", "peers", AfterPeers)
    /\ peerRow' = peerRow \cup {next}
    /\ UNCHANGED <<size, network, channelRow, orderRow, ccRow, seen, history>>

(* Mutant: the answers of the peers are not checked. *)
InstallUnchecked ==
    /\ \E some \in SUBSET (ChaincodePeers \ installed) :
          /\ some = ChaincodePeers \ installed \/ CanCrash
          /\ installed' = installed \cup some
          /\ clean' = (clean /\ some = ChaincodePeers \ installed)
          /\ Goto("install", "recordInstall")
    /\ UNCHANGED <<size, channel, joined, instantiated, tables, next, seen, began>>

(* A peer that has the package refuses it; another one may fail: either     *)
(* way the start goes on, without a word in the table.                      *)
Install ==
    /\ \E some \in SUBSET (ChaincodePeers \ installed) :
          /\ some = ChaincodePeers \ installed \/ CanCrash
          /\ installed' = installed \cup some
          /\ clean' = (clean /\ some = ChaincodePeers \ installed)
          /\ Goto("install", IF some = ChaincodePeers THEN "recordInstall"
                                                      ELSE "initialize")
    /\ UNCHANGED <<size, channel, joined, instantiated, tables, next, seen, began>>

(* Mutant: every update names the first peer of the property file. *)
RecordInstallOfFirst ==
    /\ Loop("recordInstall", "recordInstall", "initialize")
    /\ ccRow' = ccRow \cup {1}
    /\ UNCHANGED <<size, network, channelRow, orderRow, peerRow, seen, history>>

(* chain_code_name of each of those peers, one update after the other. *)
RecordInstall ==
    /\ Loop("recordInstall", "recordInstall", "initialize")
    /\ ccRow' = ccRow \cup ({next} \cap ChaincodePeers)
    /\ UNCHANGED <<size, network, channelRow, orderRow, peerRow, seen, history>>

(* Every peer of the channel answers a proposal for the chaincode. *)
AllHaveChaincode == Configured \subseteq installed

(* A chaincode is instantiated once. *)
Initialize ==
    /\ \/ AllHaveChaincode /\ ~instantiated /\ instantiated' = TRUE
          /\ Goto("initialize", "invoke")
          /\ UNCHANGED <<channel, joined, installed, next>>
       \/ ~(AllHaveChaincode /\ ~instantiated) /\ Refused("initialize")
    /\ UNCHANGED <<size, tables, seen, history>>

(* Mutant: the exception of the test transaction is only logged. *)
InvokeUnchecked ==
    /\ Goto("invoke", "ready")
    /\ UNCHANGED <<size, network, tables, next, seen, history>>

(* Mutant: the test transaction is repeated until it works. *)
InvokeRepeats ==
    /\ AllHaveChaincode /\ instantiated /\ Goto("invoke", "ready")
    /\ UNCHANGED <<size, network, tables, next, seen, history>>

(* The test transaction; its query's answer is not looked at. *)
Invoke ==
    /\ \/ AllHaveChaincode /\ instantiated /\ Goto("invoke", "ready")
          /\ UNCHANGED <<network, next>>
       \/ ~(AllHaveChaincode /\ instantiated) /\ Refused("invoke")
    /\ UNCHANGED <<size, tables, seen, history>>

-----------------------------------------------------------------------------
(* A call throws, before or after its effect, or the process is killed. *)
Crash ==
    /\ CanCrash
    /\ pc \in Stages
    /\ pc' = "off"
    /\ clean' = FALSE
    /\ UNCHANGED <<size, network, tables, next, seen, began>>

(* The gateway is shut down. *)
Stop ==
    /\ Goto("ready", "off")
    /\ UNCHANGED <<size, network, tables, next, seen, history>>

(* The operator appends a peer to the property file. *)
Extend ==
    /\ pc \in {"off", "refused"}
    /\ size < MaxPeers
    /\ size' = size + 1
    /\ pc' = "off"
    /\ UNCHANGED <<network, tables, next, seen, history>>

StartStep ==
    \/ CreateChannel \/ RecordChannel \/ AddOrderer
    \/ AddPeer \/ JoinPeer \/ RecordPeer
    \/ Install \/ RecordInstall \/ Initialize \/ Invoke

Next == Start \/ StartStep \/ Crash \/ Stop \/ Extend

(* The thread that creates the bean runs on. *)
Spec == Init /\ [][Next]_vars /\ WF_vars(StartStep)
-----------------------------------------------------------------------------
(* The tables never claim what the network does not have, however often a   *)
(* start is cut short: each row is written after the call it is about.      *)
RecordedIsDone ==
    /\ channelRow => channel
    /\ peerRow \subseteq joined /\ joined # {} => channelRow
    /\ ccRow \subseteq installed \cap peerRow

(* The tables lag behind by at most one of the channel and the joined       *)
(* peers: a start never passes over what an earlier one left unrecorded.    *)
LagsByOne ==
    /\ channel /\ ~channelRow => joined = {}
    /\ \A p, q \in joined \ peerRow : p = q

(* When the bean is there every configured peer has joined, is recorded     *)
(* and has the chaincode, and the chaincode is instantiated, also after     *)
(* starts that died anywhere.                                               *)
ReadyIsUsable ==
    pc = "ready" => /\ channel /\ channelRow /\ instantiated
                    /\ Configured \subseteq joined \cap installed
                    /\ Configured \subseteq peerRow \cap orderRow

(* A start without a fault, over tables in step with the network, succeeds  *)
(* and leaves them in step: so it can be repeated.                          *)
InStepStartsSucceed ==
    began = "inStep" /\ clean => /\ pc # "refused"
                                 /\ pc = "ready" => InStep

(* A new peer costs at most one refused start: the chaincode is already     *)
(* instantiated, but the tables are in step when that start has failed.     *)
NewPeerCostsOneStart ==
    began = "newPeers" /\ clean /\ pc \in {"ready", "refused"} => InStep

(* A start comes to an end: the gateway is up or the context is closed. *)
StartEnds == (pc \in Stages) ~> (pc \in {"ready", "refused", "off"})
==============================================================================
