-------------------------- MODULE FabricStartProofs --------------------------
(***************************************************************************)
(* Proofs about FabricStart, for every number of peers, with and without   *)
(* crashes.                                                                *)
(*                                                                         *)
(* A start only relies on what earlier stages of itself and of all the     *)
(* starts before it left behind.  StageInv says how far the tables are,    *)
(* given the stage and the position in its loop; NetInv says what the      *)
(* tables and the network have in common between two steps of any start;   *)
(* SmoothInv follows a start without a fault from beginning to end.        *)
(***************************************************************************)
EXTENDS FabricStart, TLAPS

NetInv ==
    /\ channelRow => channel
    /\ joined # {} \/ instantiated => channelRow
    /\ peerRow \subseteq joined
    /\ \A p \in joined \ peerRow : 1..(p - 1) \subseteq peerRow
    /\ ccRow \subseteq installed \cap peerRow

BeforePeers == {"create", "recordChannel", "orderers"}
BeforeInstall == BeforePeers \cup {"peers", "recordPeer"}
PastPeers == {"install", "recordInstall", "initialize", "invoke", "ready"}
PastOrderers == {"peers", "recordPeer"} \cup PastPeers

StageInv ==
    /\ pc \in Stages => /\ next <= size
                        /\ seen.order \subseteq orderRow
                        /\ seen.peer \subseteq peerRow
                        /\ seen.cc \subseteq ccRow
    /\ pc \in {"create", "recordChannel"} => ~channelRow
    /\ pc \in {"create", "recordChannel", "install"} => next = 1
    /\ pc = "recordChannel" => channel
    /\ pc \in {"orderers"} \cup PastOrderers => channelRow
    /\ pc = "orderers" => 1..(next - 1) \subseteq orderRow
    /\ pc \in PastOrderers => Configured \subseteq orderRow
    /\ pc \in {"peers", "recordPeer"} => 1..(next - 1) \subseteq peerRow
    /\ pc = "recordPeer" => next \in joined
    /\ pc \in PastPeers => Configured \subseteq peerRow
    /\ pc = "recordInstall" => ChaincodePeers \subseteq installed
    /\ pc = "ready" => instantiated /\ Configured \subseteq installed

Smooth ==
    /\ pc = "create" => ~channel
    /\ pc \in BeforePeers => joined = seen.peer
    /\ pc = "peers" => joined \subseteq seen.peer \cup 1..(next - 1)
    /\ pc = "recordPeer" => /\ joined = peerRow \cup {next}
                            /\ joined \subseteq seen.peer \cup 1..next
    /\ pc \in Stages \ {"recordPeer"} => peerRow = joined
    /\ pc \in BeforeInstall \cup {"install"} => installed = seen.cc /\ ccRow = seen.cc
    /\ pc = "recordInstall" =>
         /\ installed = seen.cc \cup ChaincodePeers
         /\ ccRow = seen.cc \cup (ChaincodePeers \cap 1..(next - 1))
    /\ pc \in {"initialize", "invoke"} => installed = ccRow /\ Configured \subseteq ccRow
    /\ pc \in {"install", "recordInstall", "initialize"} => ChaincodePeers # {}
    /\ pc \in Stages \ {"invoke"} =>
         (instantiated <=> began = "newPeers" \/ ChaincodePeers = {})
    /\ pc \in Stages /\ began = "newPeers" => ChaincodePeers # {}
    /\ pc = "invoke" => began = "inStep" /\ instantiated
    /\ pc = "ready" => InStep
    /\ pc = "refused" => began = "newPeers" /\ InStep

SmoothInv == began # "outOfStep" /\ clean => Smooth

IInv == TypeOK /\ NetInv /\ StageInv /\ SmoothInv

LEMMA InitIInv == Init => IInv
<1> SUFFICES ASSUME Init PROVE IInv
  OBVIOUS
<1> USE DEF Init
<1>1. TypeOK
  <2>1. 1 \in Peers
    BY StartAssumption DEF Peers
  <2>2. seen \in [order : SUBSET Peers, peer : SUBSET Peers, cc : SUBSET Peers]
    OBVIOUS
  <2> QED BY <2>1, <2>2 DEF TypeOK
<1>2. NetInv
  BY DEF NetInv
<1>3. StageInv
  BY DEF StageInv, Stages, PastPeers, PastOrderers
<1>4. SmoothInv
  BY DEF SmoothInv, Smooth, Stages, BeforePeers, BeforeInstall
<1> QED BY <1>1, <1>2, <1>3, <1>4 DEF IInv

LEMMA StartKeepsIInv ==
  ASSUME IInv, Start
  PROVE  IInv'
<1> USE StartAssumption DEF IInv, Start, Standing, InStep, Mirrored, network, tables, history,
        Stages, PastPeers, PastOrderers, Peers, TypeOK
<1>1. TypeOK'
  OBVIOUS
<1>2. NetInv'
  BY DEF NetInv, StageInv, Configured, ChaincodePeers
<1>3. StageInv'
  BY DEF StageInv, NetInv, Configured, ChaincodePeers
<1>4. SmoothInv'
  BY DEF SmoothInv, Smooth, StageInv, NetInv, Configured, ChaincodePeers,
         InStep, Mirrored, BeforePeers, BeforeInstall
<1> QED BY <1>1, <1>2, <1>3, <1>4

LEMMA CreateChannelKeepsIInv ==
  ASSUME IInv, CreateChannel
  PROVE  IInv'
<1> USE StartAssumption DEF IInv, CreateChannel, Goto, Refused, network, tables, history,
        Stages, PastPeers, PastOrderers, Peers, TypeOK
<1>1. TypeOK'
  OBVIOUS
<1>2. NetInv'
  BY DEF NetInv, StageInv, Configured, ChaincodePeers
<1>3. StageInv'
  BY DEF StageInv, NetInv, Configured, ChaincodePeers
<1>4. SmoothInv'
  BY DEF SmoothInv, Smooth, StageInv, NetInv, Configured, ChaincodePeers,
         InStep, Mirrored, BeforePeers, BeforeInstall
<1> QED BY <1>1, <1>2, <1>3, <1>4

LEMMA RecordChannelKeepsIInv ==
  ASSUME IInv, RecordChannel
  PROVE  IInv'
<1> USE StartAssumption DEF IInv, RecordChannel, Goto, network, tables, history,
        Stages, PastPeers, PastOrderers, Peers, TypeOK
<1>1. TypeOK'
  OBVIOUS
<1>2. NetInv'
  BY DEF NetInv, StageInv, Configured, ChaincodePeers
<1>3. StageInv'
  BY DEF StageInv, NetInv, Configured, ChaincodePeers
<1>4. SmoothInv'
  BY DEF SmoothInv, Smooth, StageInv, NetInv, Configured, ChaincodePeers,
         InStep, Mirrored, BeforePeers, BeforeInstall
<1> QED BY <1>1, <1>2, <1>3, <1>4

LEMMA AddOrdererKeepsIInv ==
  ASSUME IInv, AddOrderer
  PROVE  IInv'
<1> USE StartAssumption DEF IInv, AddOrderer, Loop, network, tables, history,
        Stages, PastPeers, PastOrderers, Peers, TypeOK
<1>1. TypeOK'
  OBVIOUS
<1>2. NetInv'
  BY DEF NetInv, StageInv, Configured, ChaincodePeers
<1>3. StageInv'
  BY DEF StageInv, NetInv, Configured, ChaincodePeers
<1>4. SmoothInv'
  BY DEF SmoothInv, Smooth, StageInv, NetInv, Configured, ChaincodePeers,
         InStep, Mirrored, BeforePeers, BeforeInstall
<1> QED BY <1>1, <1>2, <1>3, <1>4

LEMMA AddPeerKeepsIInv ==
  ASSUME IInv, AddPeer
  PROVE  IInv'
<1> USE StartAssumption DEF IInv, AddPeer, Loop, AfterPeers, network, tables, history,
        Stages, PastPeers, PastOrderers, Peers, TypeOK
<1>1. TypeOK'
  OBVIOUS
<1>2. NetInv'
  BY DEF NetInv, StageInv, Configured, ChaincodePeers
<1>3. StageInv'
  BY DEF StageInv, NetInv, Configured, ChaincodePeers
<1>4. SmoothInv'
  BY DEF SmoothInv, Smooth, StageInv, NetInv, Configured, ChaincodePeers,
         InStep, Mirrored, BeforePeers, BeforeInstall
<1> QED BY <1>1, <1>2, <1>3, <1>4

LEMMA JoinPeerKeepsIInv ==
  ASSUME IInv, JoinPeer
  PROVE  IInv'
<1> USE StartAssumption DEF IInv, JoinPeer, Goto, Refused, network, tables, history,
        Stages, PastPeers, PastOrderers, Peers, TypeOK
<1>1. TypeOK'
  OBVIOUS
<1>2. NetInv'
  <2>1. CASE next \in joined
    <3>1. UNCHANGED <<channel, joined, installed, instantiated,
                      channelRow, peerRow, ccRow>>
      BY <2>1
    <3> QED BY <3>1 DEF NetInv
  <2>2. CASE next \notin joined
    <3>1. peerRow = joined
      <4> SUFFICES ASSUME NEW p \in joined \ peerRow PROVE FALSE
        BY DEF NetInv
      <4>1. next \in 1..(p - 1) \/ p \in 1..(next - 1)
        BY <2>2
      <4> QED BY <2>2, <4>1 DEF NetInv, StageInv
    <3> QED BY <2>2, <3>1 DEF NetInv, StageInv
  <2> QED BY <2>1, <2>2
<1>3. StageInv'
  BY DEF StageInv, NetInv, Configured, ChaincodePeers
<1>4. SmoothInv'
  <2> SUFFICES ASSUME began # "outOfStep", clean PROVE Smooth'
    BY DEF SmoothInv
  <2>1. Smooth
    BY DEF SmoothInv
  <2>2. next \notin joined
    BY <2>1 DEF Smooth
  <2>3. pc' = "recordPeer" /\ joined' = joined \cup {next}
    BY <2>2
  <2> QED BY <2>1, <2>3 DEF Smooth, ChaincodePeers, Configured,
                            BeforePeers, BeforeInstall
<1> QED BY <1>1, <1>2, <1>3, <1>4

LEMMA RecordPeerKeepsIInv ==
  ASSUME IInv, RecordPeer
  PROVE  IInv'
<1> USE StartAssumption DEF IInv, RecordPeer, Loop, AfterPeers, network, tables, history,
        Stages, PastPeers, PastOrderers, Peers, TypeOK
<1>1. TypeOK'
  OBVIOUS
<1>2. NetInv'
  BY DEF NetInv, StageInv, Configured, ChaincodePeers
<1>3. StageInv'
  BY DEF StageInv, NetInv, Configured, ChaincodePeers
<1>4. SmoothInv'
  BY DEF SmoothInv, Smooth, StageInv, NetInv, Configured, ChaincodePeers,
         InStep, Mirrored, BeforePeers, BeforeInstall
<1> QED BY <1>1, <1>2, <1>3, <1>4

LEMMA InstallKeepsIInv ==
  ASSUME IInv, Install
  PROVE  IInv'
<1> USE StartAssumption DEF IInv, Install, Goto, network, tables, history,
        Stages, PastPeers, PastOrderers, Peers, TypeOK
<1>1. TypeOK'
  <2>1. installed' \subseteq Peers
    BY DEF ChaincodePeers, Configured
  <2>2. pc' \in Stages
    OBVIOUS
  <2>3. clean' \in BOOLEAN
    BY Zenon
  <2> QED BY <2>1, <2>2, <2>3
<1>2. NetInv'
  BY DEF NetInv, StageInv, Configured, ChaincodePeers
<1>3. StageInv'
  BY DEF StageInv, NetInv, Configured, ChaincodePeers
<1>4. SmoothInv'
  <2> SUFFICES ASSUME began' # "outOfStep", clean' PROVE Smooth'
    BY DEF SmoothInv
  <2>1. clean /\ Smooth
    <3>1. clean
      BY Zenon
    <3> QED BY <3>1 DEF SmoothInv
  <2>2. installed' = installed \cup (ChaincodePeers \ installed)
    OBVIOUS
  <2>3. ChaincodePeers \ installed = ChaincodePeers
    BY <2>1 DEF Smooth, ChaincodePeers
  <2>4. pc' = "recordInstall"
    BY <2>3
  <2>5. next = 1
    BY DEF StageInv
  <2> QED BY <2>1, <2>2, <2>3, <2>4, <2>5
          DEF Smooth, ChaincodePeers, Configured, BeforePeers, BeforeInstall
<1> QED BY <1>1, <1>2, <1>3, <1>4

LEMMA RecordInstallKeepsIInv ==
  ASSUME IInv, RecordInstall
  PROVE  IInv'
<1> USE StartAssumption DEF IInv, RecordInstall, Loop, network, tables, history,
        Stages, PastPeers, PastOrderers, Peers, TypeOK
<1>1. TypeOK'
  <2>1. ccRow' \subseteq Peers
    OBVIOUS
  <2>2. pc' \in Stages /\ next' \in Peers
    OBVIOUS
  <2> QED BY <2>1, <2>2
<1>2. NetInv'
  BY DEF NetInv, StageInv, Configured, ChaincodePeers
<1>3. StageInv'
  BY DEF StageInv, NetInv, Configured, ChaincodePeers
<1>4. SmoothInv'
  BY DEF SmoothInv, Smooth, StageInv, NetInv, Configured, ChaincodePeers,
         InStep, Mirrored, BeforePeers, BeforeInstall
<1> QED BY <1>1, <1>2, <1>3, <1>4

LEMMA InitializeKeepsIInv ==
  ASSUME IInv, Initialize
  PROVE  IInv'
<1> USE StartAssumption DEF IInv, Initialize, Goto, Refused, AllHaveChaincode, network, tables, history,
        Stages, PastPeers, PastOrderers, Peers, TypeOK
<1>1. TypeOK'
  OBVIOUS
<1>2. NetInv'
  BY DEF NetInv, StageInv, Configured, ChaincodePeers
<1>3. StageInv'
  BY DEF StageInv, NetInv, Configured, ChaincodePeers
<1>4. SmoothInv'
  BY DEF SmoothInv, Smooth, StageInv, NetInv, Configured, ChaincodePeers,
         InStep, Mirrored, BeforePeers, BeforeInstall
<1> QED BY <1>1, <1>2, <1>3, <1>4

LEMMA InvokeKeepsIInv ==
  ASSUME IInv, Invoke
  PROVE  IInv'
<1> USE StartAssumption DEF IInv, Invoke, Goto, Refused, AllHaveChaincode, network, tables, history,
        Stages, PastPeers, PastOrderers, Peers, TypeOK
<1>1. TypeOK'
  OBVIOUS
<1>2. NetInv'
  BY DEF NetInv, StageInv, Configured, ChaincodePeers
<1>3. StageInv'
  BY DEF StageInv, NetInv, Configured, ChaincodePeers
<1>4. SmoothInv'
  BY DEF SmoothInv, Smooth, StageInv, NetInv, Configured, ChaincodePeers,
         InStep, Mirrored, BeforePeers, BeforeInstall
<1> QED BY <1>1, <1>2, <1>3, <1>4

LEMMA CrashKeepsIInv ==
  ASSUME IInv, Crash
  PROVE  IInv'
<1> USE StartAssumption DEF IInv, Crash, network, tables, history,
        Stages, PastPeers, PastOrderers, Peers, TypeOK
<1>1. TypeOK'
  OBVIOUS
<1>2. NetInv'
  BY DEF NetInv, StageInv, Configured, ChaincodePeers
<1>3. StageInv'
  BY DEF StageInv, NetInv, Configured, ChaincodePeers
<1>4. SmoothInv'
  BY DEF SmoothInv, Smooth, StageInv, NetInv, Configured, ChaincodePeers,
         InStep, Mirrored, BeforePeers, BeforeInstall
<1> QED BY <1>1, <1>2, <1>3, <1>4

LEMMA StopKeepsIInv ==
  ASSUME IInv, Stop
  PROVE  IInv'
<1> USE StartAssumption DEF IInv, Stop, Goto, network, tables, history,
        Stages, PastPeers, PastOrderers, Peers, TypeOK
<1>1. TypeOK'
  OBVIOUS
<1>2. NetInv'
  BY DEF NetInv, StageInv, Configured, ChaincodePeers
<1>3. StageInv'
  BY DEF StageInv, NetInv, Configured, ChaincodePeers
<1>4. SmoothInv'
  BY DEF SmoothInv, Smooth, StageInv, NetInv, Configured, ChaincodePeers,
         InStep, Mirrored, BeforePeers, BeforeInstall
<1> QED BY <1>1, <1>2, <1>3, <1>4

LEMMA ExtendKeepsIInv ==
  ASSUME IInv, Extend
  PROVE  IInv'
<1> USE StartAssumption DEF IInv, Extend, network, tables, history,
        Stages, PastPeers, PastOrderers, Peers, TypeOK
<1>1. TypeOK'
  OBVIOUS
<1>2. NetInv'
  BY DEF NetInv, StageInv, Configured, ChaincodePeers
<1>3. StageInv'
  BY DEF StageInv, NetInv, Configured, ChaincodePeers
<1>4. SmoothInv'
  BY DEF SmoothInv, Smooth, StageInv, NetInv, Configured, ChaincodePeers,
         InStep, Mirrored, BeforePeers, BeforeInstall
<1> QED BY <1>1, <1>2, <1>3, <1>4

LEMMA StepKeepsIInv == IInv /\ [Next]_vars => IInv'
<1> SUFFICES ASSUME IInv, [Next]_vars PROVE IInv'
  OBVIOUS
<1>1. CASE Start
  BY <1>1, StartKeepsIInv
<1>2. CASE CreateChannel
  BY <1>2, CreateChannelKeepsIInv
<1>3. CASE RecordChannel
  BY <1>3, RecordChannelKeepsIInv
<1>4. CASE AddOrderer
  BY <1>4, AddOrdererKeepsIInv
<1>5. CASE AddPeer
  BY <1>5, AddPeerKeepsIInv
<1>6. CASE JoinPeer
  BY <1>6, JoinPeerKeepsIInv
<1>7. CASE RecordPeer
  BY <1>7, RecordPeerKeepsIInv
<1>8. CASE Install
  BY <1>8, InstallKeepsIInv
<1>9. CASE RecordInstall
  BY <1>9, RecordInstallKeepsIInv
<1>10. CASE Initialize
  BY <1>10, InitializeKeepsIInv
<1>11. CASE Invoke
  BY <1>11, InvokeKeepsIInv
<1>12. CASE Crash
  BY <1>12, CrashKeepsIInv
<1>13. CASE Stop
  BY <1>13, StopKeepsIInv
<1>14. CASE Extend
  BY <1>14, ExtendKeepsIInv
<1>15. CASE UNCHANGED vars
  <2> USE <1>15 DEF vars, network, tables, history
  <2>1. TypeOK' /\ NetInv'
    BY DEF IInv, TypeOK, NetInv
  <2>2. StageInv'
    BY DEF IInv, StageInv, Configured, ChaincodePeers
  <2>3. SmoothInv'
    BY DEF IInv, SmoothInv, Smooth, ChaincodePeers, Configured, InStep, Mirrored
  <2> QED BY <2>1, <2>2, <2>3 DEF IInv
<1> QED BY <1>1, <1>2, <1>3, <1>4, <1>5, <1>6, <1>7, <1>8, <1>9, <1>10, <1>11, <1>12, <1>13, <1>14, <1>15
        DEF Next, StartStep

-----------------------------------------------------------------------------
(* At every stage of every start, the tables and the network are where the  *)
(* stages before it, of this start and of all earlier ones, must have left  *)
(* them.                                                                    *)
THEOREM Bookkeeping == Spec => []IInv
<1>1. IInv /\ [Next]_vars => IInv'
  BY StepKeepsIInv
<1> QED BY InitIInv, <1>1, PTL DEF Spec

(* The network, the tables and the start stay of their types. *)
THEOREM TypeCorrect == Spec => []TypeOK
<1>1. IInv => TypeOK
  BY DEF IInv
<1> QED BY Bookkeeping, <1>1, PTL

(* No row is ahead of the network, however many starts died and wherever.   *)
THEOREM RecordedDone == Spec => []RecordedIsDone
<1>1. IInv => RecordedIsDone
  BY DEF IInv, NetInv, RecordedIsDone
<1> QED BY Bookkeeping, <1>1, PTL

(* At most one joined peer, or else the channel, waits for its row.         *)
THEOREM LagByOne == Spec => []LagsByOne
<1>1. IInv => LagsByOne
  <2> SUFFICES ASSUME IInv PROVE LagsByOne
    OBVIOUS
  <2>1. channel /\ ~channelRow => joined = {}
    BY DEF IInv, NetInv
  <2>2. ASSUME NEW p \in joined \ peerRow, NEW q \in joined \ peerRow
        PROVE  p = q
    <3>1. p \in Nat \ {0} /\ q \in Nat \ {0}
      BY DEF IInv, TypeOK, Peers
    <3>2. p \notin 1..(q - 1) /\ q \notin 1..(p - 1)
      BY DEF IInv, NetInv
    <3> QED BY <3>1, <3>2
  <2> QED BY <2>1, <2>2 DEF LagsByOne
<1> QED BY Bookkeeping, <1>1, PTL

(* The bean is only there when the network is complete for all configured   *)
(* peers and the tables say so.                                             *)
THEOREM ReadyUsable == Spec => []ReadyIsUsable
<1>1. IInv => ReadyIsUsable
  BY DEF IInv, NetInv, StageInv, ReadyIsUsable, PastPeers, PastOrderers, Configured
<1> QED BY Bookkeeping, <1>1, PTL

(* A start without a fault that finds tables and network in step succeeds.  *)
THEOREM InStepSucceeds == Spec => []InStepStartsSucceed
<1>1. IInv => InStepStartsSucceed
  BY DEF IInv, SmoothInv, Smooth, InStepStartsSucceed
<1> QED BY Bookkeeping, <1>1, PTL

(* After the refused start that a new peer costs, they are in step again.   *)
THEOREM NewPeerCosts == Spec => []NewPeerCostsOneStart
<1>1. IInv => NewPeerCostsOneStart
  BY DEF IInv, SmoothInv, Smooth, NewPeerCostsOneStart
<1> QED BY Bookkeeping, <1>1, PTL
==============================================================================
