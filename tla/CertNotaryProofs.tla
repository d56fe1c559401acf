--------------------------- MODULE CertNotaryProofs ---------------------------
(***************************************************************************)
(* Proofs about CertNotary, for every set of files, save requests and      *)
(* downloads, behind a synchronous or an asynchronous gateway.             *)
(*                                                                         *)
(* None of the properties is inductive.  What a row of cert_file says is   *)
(* right because the save that wrote it had every id in hand, those ids    *)
(* are ids the gateway gave, and a synchronous gateway gives an id only    *)
(* behind success: IInv follows the id along that way.                     *)
(***************************************************************************)
EXTENDS CertNotary, TLAPS

RowsInv ==
    /\ BoundTogether
    /\ NoDanglingFile
    /\ \A f \in Files \ rows : bound[f] = None /\ checked[f] = None
    /\ \A f \in Files : /\ txOf[f] \in answered \cup {None}
                        /\ checked[f] \in answered \cup {None}

SavesInv ==
    \A s \in Saves :
        /\ ids[s] \subseteq found[s] /\ found[s] \subseteq FilesOf[s]
        /\ \A f \in ids[s] : <<s, f>> \in answered
        /\ \A f \in Files : <<s, f>> \in requested => f \in found[s]
        /\ pc[s] = "idle" => found[s] = {}
        /\ pc[s] \in {"sending", "waiting", "done"} => found[s] # {}
        /\ pc[s] = "done" => ids[s] = found[s]
        /\ s \in info => pc[s] = "done"

GatewayInv ==
    \A t \in SaveTxs :
        /\ t \in answered /\ ~AsyncSend => status[t] = "success"
        /\ status[t] = "success" => t \in onLedger

ReadersInv ==
    \A r \in Readers :
        /\ rd[r] # "idle" => /\ want[r] \in Files \X (SaveTxs \cup {None})
                             /\ want[r][2] \in answered \cup {None}
        /\ rd[r] \in {"verified", "served", "done"} =>
             seen[r] = "original" /\ want[r][2] \in onLedger \cup rejected

KeepInv ==
    OwnFiles => \A s \in Saves : \A f \in found[s] :
        /\ pc[s] \in {"sending", "waiting"} => f \in rows
        /\ s \in info => f \in rows /\ txOf[f] = <<s, f>>

IInv == /\ TypeOK
        /\ RowsInv
        /\ SavesInv
        /\ GatewayInv
        /\ ReadersInv
        /\ KeepInv

(* What a transaction id is made of. *)
LEMMA TxParts ==
  /\ None \notin SaveTxs
  /\ \A s \in Saves, f \in Files : <<s, f>> \in SaveTxs <=> f \in FilesOf[s]
  /\ \A s \in Saves : FilesOf[s] \subseteq Files
  BY NotaryAssumption DEF SaveTxs

LEMMA InitIInv == Init => IInv
<1> SUFFICES ASSUME Init PROVE IInv
  OBVIOUS
<1> USE NotaryAssumption, TxParts DEF Init, Gateway!Init
<1>1. TypeOK
  BY DEF TypeOK, Contents
<1>2. RowsInv
  BY DEF RowsInv, BoundTogether, NoDanglingFile
<1>3. SavesInv
  BY DEF SavesInv
<1>4. GatewayInv
  BY DEF GatewayInv
<1>5. ReadersInv
  BY DEF ReadersInv
<1>6. KeepInv
  BY DEF KeepInv
<1> QED BY <1>1, <1>2, <1>3, <1>4, <1>5, <1>6 DEF IInv

LEMMA StoreFileKeepsIInv ==
  ASSUME IInv, NEW f \in Files, StoreFile(f)
  PROVE  IInv'
<1> USE NotaryAssumption, TxParts DEF IInv, StoreFile, SetUp, table, saving,
       reading, gateway
<1>1. TypeOK'
  BY DEF TypeOK, RowsInv, Contents
<1>2. RowsInv'
  BY DEF RowsInv, BoundTogether, NoDanglingFile, TypeOK
<1>3. SavesInv'
  BY DEF SavesInv, TypeOK
<1>4. GatewayInv'
  BY DEF GatewayInv, TypeOK
<1>5. ReadersInv'
  BY DEF ReadersInv, TypeOK
<1>6. KeepInv'
  BY DEF KeepInv, TypeOK
<1> QED BY <1>1, <1>2, <1>3, <1>4, <1>5, <1>6

LEMMA StoreFileFailsKeepsIInv ==
  ASSUME IInv, NEW f \in Files, StoreFileFails(f)
  PROVE  IInv'
<1> USE NotaryAssumption, TxParts DEF IInv, StoreFileFails, SetUp, table,
       saving, reading, gateway
<1>1. TypeOK'
  BY DEF TypeOK
<1>2. RowsInv'
  BY DEF RowsInv, BoundTogether, NoDanglingFile, TypeOK
<1>3. SavesInv'
  BY DEF SavesInv, TypeOK
<1>4. GatewayInv'
  BY DEF GatewayInv, TypeOK
<1>5. ReadersInv'
  BY DEF ReadersInv, TypeOK
<1>6. KeepInv'
  BY DEF KeepInv, TypeOK
<1> QED BY <1>1, <1>2, <1>3, <1>4, <1>5, <1>6

LEMMA InsertFileKeepsIInv ==
  ASSUME IInv, NEW f \in Files, InsertFile(f)
  PROVE  IInv'
<1> USE NotaryAssumption, TxParts DEF IInv, InsertFile, SetUp, saving,
       reading, gateway
<1>1. TypeOK'
  BY DEF TypeOK
<1>2. RowsInv'
  BY DEF RowsInv, BoundTogether, NoDanglingFile, TypeOK
<1>3. SavesInv'
  BY DEF SavesInv, TypeOK
<1>4. GatewayInv'
  BY DEF GatewayInv, TypeOK
<1>5. ReadersInv'
  BY DEF ReadersInv, TypeOK
<1>6. KeepInv'
  BY DEF KeepInv, TypeOK
<1> QED BY <1>1, <1>2, <1>3, <1>4, <1>5, <1>6

LEMMA InsertFileFailsKeepsIInv ==
  ASSUME IInv, NEW f \in Files, InsertFileFails(f)
  PROVE  IInv'
<1> USE NotaryAssumption, TxParts DEF IInv, InsertFileFails, SetUp, table,
       saving, reading, gateway
<1>1. TypeOK'
  BY DEF TypeOK
<1>2. RowsInv'
  BY DEF RowsInv, BoundTogether, NoDanglingFile, TypeOK
<1>3. SavesInv'
  BY DEF SavesInv, TypeOK
<1>4. GatewayInv'
  BY DEF GatewayInv, TypeOK
<1>5. ReadersInv'
  BY DEF ReadersInv, TypeOK
<1>6. KeepInv'
  BY DEF KeepInv, TypeOK
<1> QED BY <1>1, <1>2, <1>3, <1>4, <1>5, <1>6

LEMMA StartSaveKeepsIInv ==
  ASSUME IInv, NEW s \in Saves, StartSave(s)
  PROVE  IInv'
<1> USE NotaryAssumption, TxParts DEF IInv, StartSave, SetPc, table, reading,
       gateway
<1>1. TypeOK'
  BY DEF TypeOK
<1>2. RowsInv'
  BY DEF RowsInv, BoundTogether, NoDanglingFile, TypeOK
<1>3. SavesInv'
  BY DEF SavesInv, TypeOK
<1>4. GatewayInv'
  BY DEF GatewayInv, TypeOK
<1>5. ReadersInv'
  BY DEF ReadersInv, TypeOK
<1>6. KeepInv'
  BY DEF KeepInv, TypeOK, SavesInv, OwnFiles
<1> QED BY <1>1, <1>2, <1>3, <1>4, <1>5, <1>6

LEMMA SendKeepsIInv ==
  ASSUME IInv, NEW s \in Saves, NEW f \in Files, Send(s, f)
  PROVE  IInv'
<1> USE NotaryAssumption, TxParts DEF IInv, Send, SetPc, table, reading,
       gateway
<1>1. TypeOK'
  BY DEF TypeOK, SavesInv, Contents
<1>2. RowsInv'
  BY DEF RowsInv, BoundTogether, NoDanglingFile, TypeOK
<1>3. SavesInv'
  BY DEF SavesInv, TypeOK
<1>4. GatewayInv'
  BY DEF GatewayInv, TypeOK
<1>5. ReadersInv'
  BY DEF ReadersInv, TypeOK
<1>6. KeepInv'
  BY DEF KeepInv, TypeOK
<1> QED BY <1>1, <1>2, <1>3, <1>4, <1>5, <1>6

LEMMA AnsweredKeepsIInv ==
  ASSUME IInv, NEW s \in Saves, NEW f \in Files, Answered(s, f)
  PROVE  IInv'
<1> USE NotaryAssumption, TxParts DEF IInv, Answered, TakeId, SetPc, table, reading,
       Gateway!Answer
<1>1. TypeOK'
  BY DEF TypeOK
<1>2. RowsInv'
  BY DEF RowsInv, BoundTogether, NoDanglingFile, TypeOK
<1>3. SavesInv'
  BY DEF TypeOK, Contents, RowsInv, BoundTogether, NoDanglingFile, SavesInv,
         GatewayInv, ReadersInv, KeepInv, OwnFiles
<1>4. GatewayInv'
  BY DEF GatewayInv, TypeOK
<1>5. ReadersInv'
  BY DEF ReadersInv, TypeOK
<1>6. KeepInv'
  BY DEF KeepInv, TypeOK
<1> QED BY <1>1, <1>2, <1>3, <1>4, <1>5, <1>6

LEMMA SendFailsKeepsIInv ==
  ASSUME IInv, NEW s \in Saves, SendFails(s)
  PROVE  IInv'
<1> USE NotaryAssumption, TxParts DEF IInv, SendFails, SetPc, table, reading,
       gateway
<1>1. TypeOK'
  BY DEF TypeOK
<1>2. RowsInv'
  BY DEF RowsInv, BoundTogether, NoDanglingFile, TypeOK
<1>3. SavesInv'
  BY DEF SavesInv, TypeOK
<1>4. GatewayInv'
  BY DEF GatewayInv, TypeOK
<1>5. ReadersInv'
  BY DEF ReadersInv, TypeOK
<1>6. KeepInv'
  BY DEF KeepInv, TypeOK
<1> QED BY <1>1, <1>2, <1>3, <1>4, <1>5, <1>6

LEMMA BindKeepsIInv ==
  ASSUME IInv, NEW s \in Saves, Bind(s)
  PROVE  IInv'
<1> USE NotaryAssumption, TxParts DEF IInv, Bind, SetPc, reading, gateway
<1>1. TypeOK'
  BY DEF TypeOK, SavesInv, Contents
<1>2. RowsInv'
  BY DEF RowsInv, BoundTogether, NoDanglingFile, TypeOK, SavesInv
<1>3. SavesInv'
  BY DEF SavesInv, TypeOK
<1>4. GatewayInv'
  BY DEF GatewayInv, TypeOK
<1>5. ReadersInv'
  BY DEF ReadersInv, TypeOK
<1>6. KeepInv'
  <2> SUFFICES ASSUME OwnFiles, NEW o \in Saves, NEW f \in found[o]
               PROVE  /\ pc'[o] \in {"sending", "waiting"} => f \in rows
                      /\ o \in info' => f \in rows /\ txOf'[f] = <<o, f>>
    BY DEF KeepInv, OwnFiles
  <2>1. f \in FilesOf[o] /\ f \in Files
    BY DEF SavesInv
  <2>2. CASE o = s
    <3>1. f \in rows /\ f \in ids[s]
      BY <2>2 DEF KeepInv
    <3>2. txOf'[f] = <<s, f>>
      BY <2>1, <3>1
    <3> QED BY <2>2, <3>1, <3>2
  <2>3. CASE o # s
    <3>1. f \notin ids[s]
      BY <2>1, <2>3 DEF OwnFiles, SavesInv
    <3>2. txOf'[f] = txOf[f] /\ pc'[o] = pc[o] /\ (o \in info' <=> o \in info)
      BY <2>1, <2>3, <3>1 DEF TypeOK
    <3> QED BY <3>2 DEF KeepInv
  <2> QED BY <2>2, <2>3
<1> QED BY <1>1, <1>2, <1>3, <1>4, <1>5, <1>6

LEMMA BindFailsKeepsIInv ==
  ASSUME IInv, NEW s \in Saves, BindFails(s)
  PROVE  IInv'
<1> USE NotaryAssumption, TxParts DEF IInv, BindFails, SetPc, table, reading,
       gateway
<1>1. TypeOK'
  BY DEF TypeOK
<1>2. RowsInv'
  BY DEF RowsInv, BoundTogether, NoDanglingFile, TypeOK
<1>3. SavesInv'
  BY DEF SavesInv, TypeOK
<1>4. GatewayInv'
  BY DEF GatewayInv, TypeOK
<1>5. ReadersInv'
  BY DEF ReadersInv, TypeOK
<1>6. KeepInv'
  BY DEF KeepInv, TypeOK
<1> QED BY <1>1, <1>2, <1>3, <1>4, <1>5, <1>6

LEMMA DeleteCertKeepsIInv ==
  ASSUME IInv, NEW s \in Saves, DeleteCert(s)
  PROVE  IInv'
<1> USE NotaryAssumption, TxParts DEF IInv, DeleteCert, DropRows, saving,
       reading, gateway
<1>1. TypeOK'
  BY DEF TypeOK
<1>2. RowsInv'
  BY DEF RowsInv, BoundTogether, NoDanglingFile, TypeOK
<1>3. SavesInv'
  BY DEF SavesInv, TypeOK
<1>4. GatewayInv'
  BY DEF GatewayInv, TypeOK
<1>5. ReadersInv'
  BY DEF ReadersInv, TypeOK
<1>6. KeepInv'
  <2> SUFFICES ASSUME OwnFiles, NEW o \in Saves, NEW f \in found[o]
               PROVE  /\ pc[o] \in {"sending", "waiting"} => f \in rows'
                      /\ o \in info' => f \in rows' /\ txOf'[f] = <<o, f>>
    BY DEF KeepInv
  <2>1. f \in FilesOf[o] /\ f \in Files
    BY DEF SavesInv
  <2>2. CASE o = s
    BY <2>2 DEF SavesInv
  <2>3. CASE o # s
    <3>1. f \notin FilesOf[s]
      BY <2>1, <2>3 DEF OwnFiles
    <3>2. bound[f] # s
      <4> SUFFICES ASSUME bound[f] = s PROVE FALSE
        OBVIOUS
      <4>1. txOf[f] = <<s, f>>
        BY <2>1 DEF RowsInv, BoundTogether
      <4>2. txOf[f] \in SaveTxs
        BY <2>1, <4>1 DEF TypeOK
      <4> QED BY <2>1, <3>1, <4>1, <4>2
    <3>3. f \notin {g \in rows : bound[g] = s}
      BY <3>2
    <3> QED BY <2>1, <3>3 DEF KeepInv, TypeOK
  <2> QED BY <2>2, <2>3
<1> QED BY <1>1, <1>2, <1>3, <1>4, <1>5, <1>6

LEMMA DeleteFileKeepsIInv ==
  ASSUME IInv, NEW f \in Files, DeleteFile(f)
  PROVE  IInv'
<1> USE NotaryAssumption, TxParts DEF IInv, DeleteFile, DropRows, saving,
       reading, gateway
<1>1. TypeOK'
  BY DEF TypeOK
<1>2. RowsInv'
  BY DEF RowsInv, BoundTogether, NoDanglingFile, TypeOK
<1>3. SavesInv'
  BY DEF SavesInv, TypeOK
<1>4. GatewayInv'
  BY DEF GatewayInv, TypeOK
<1>5. ReadersInv'
  BY DEF ReadersInv, TypeOK
<1>6. KeepInv'
  BY DEF KeepInv, TypeOK, RowsInv, OwnFiles
<1> QED BY <1>1, <1>2, <1>3, <1>4, <1>5, <1>6

LEMMA ReadRowKeepsIInv ==
  ASSUME IInv, NEW r \in Readers, NEW f \in Files, ReadRow(r, f)
  PROVE  IInv'
<1> USE NotaryAssumption, TxParts DEF IInv, ReadRow, SetRd, table, saving,
       gateway
<1>1. TypeOK'
  BY DEF TypeOK
<1>2. RowsInv'
  BY DEF RowsInv, BoundTogether, NoDanglingFile, TypeOK
<1>3. SavesInv'
  BY DEF SavesInv, TypeOK
<1>4. GatewayInv'
  BY DEF GatewayInv, TypeOK
<1>5. ReadersInv'
  BY DEF TypeOK, Contents, RowsInv, BoundTogether, NoDanglingFile, SavesInv,
         GatewayInv, ReadersInv, KeepInv, OwnFiles
<1>6. KeepInv'
  BY DEF KeepInv, TypeOK
<1> QED BY <1>1, <1>2, <1>3, <1>4, <1>5, <1>6

LEMMA HashFileKeepsIInv ==
  ASSUME IInv, NEW r \in Readers, HashFile(r)
  PROVE  IInv'
<1> USE NotaryAssumption, TxParts DEF IInv, HashFile, SetRd, table, saving,
       gateway
<1>1. TypeOK'
  BY DEF TypeOK, ReadersInv, Contents
<1>2. RowsInv'
  BY DEF RowsInv, BoundTogether, NoDanglingFile, TypeOK
<1>3. SavesInv'
  BY DEF SavesInv, TypeOK
<1>4. GatewayInv'
  BY DEF GatewayInv, TypeOK
<1>5. ReadersInv'
  BY DEF ReadersInv, TypeOK
<1>6. KeepInv'
  BY DEF KeepInv, TypeOK
<1> QED BY <1>1, <1>2, <1>3, <1>4, <1>5, <1>6

LEMMA CheckAgreesKeepsIInv ==
  ASSUME IInv, NEW r \in Readers, CheckAgrees(r)
  PROVE  IInv'
<1> USE NotaryAssumption, TxParts DEF IInv, CheckAgrees, SetRd, InBlock,
       saving, gateway
<1>1. TypeOK'
  BY DEF TypeOK
<1>2. RowsInv'
  BY DEF RowsInv, BoundTogether, NoDanglingFile, TypeOK, ReadersInv
<1>3. SavesInv'
  BY DEF SavesInv, TypeOK
<1>4. GatewayInv'
  BY DEF GatewayInv, TypeOK
<1>5. ReadersInv'
  BY DEF ReadersInv, TypeOK
<1>6. KeepInv'
  BY DEF KeepInv, TypeOK
<1> QED BY <1>1, <1>2, <1>3, <1>4, <1>5, <1>6

LEMMA CheckFailsKeepsIInv ==
  ASSUME IInv, NEW r \in Readers, CheckFails(r)
  PROVE  IInv'
<1> USE NotaryAssumption, TxParts DEF IInv, CheckFails, SetRd, table, saving,
       gateway
<1>1. TypeOK'
  BY DEF TypeOK
<1>2. RowsInv'
  BY DEF RowsInv, BoundTogether, NoDanglingFile, TypeOK
<1>3. SavesInv'
  BY DEF SavesInv, TypeOK
<1>4. GatewayInv'
  BY DEF GatewayInv, TypeOK
<1>5. ReadersInv'
  BY DEF ReadersInv, TypeOK
<1>6. KeepInv'
  BY DEF KeepInv, TypeOK
<1> QED BY <1>1, <1>2, <1>3, <1>4, <1>5, <1>6

LEMMA ServeKeepsIInv ==
  ASSUME IInv, NEW r \in Readers, Serve(r)
  PROVE  IInv'
<1> USE NotaryAssumption, TxParts DEF IInv, Serve, SetRd, table, saving,
       gateway
<1>1. TypeOK'
  BY DEF TypeOK
<1>2. RowsInv'
  BY DEF RowsInv, BoundTogether, NoDanglingFile, TypeOK
<1>3. SavesInv'
  BY DEF SavesInv, TypeOK
<1>4. GatewayInv'
  BY DEF GatewayInv, TypeOK
<1>5. ReadersInv'
  BY DEF ReadersInv, TypeOK
<1>6. KeepInv'
  BY DEF KeepInv, TypeOK
<1> QED BY <1>1, <1>2, <1>3, <1>4, <1>5, <1>6

LEMMA FinishKeepsIInv ==
  ASSUME IInv, NEW r \in Readers, Finish(r)
  PROVE  IInv'
<1> USE NotaryAssumption, TxParts DEF IInv, Finish, SetRd, table, saving,
       gateway
<1>1. TypeOK'
  BY DEF TypeOK
<1>2. RowsInv'
  BY DEF RowsInv, BoundTogether, NoDanglingFile, TypeOK
<1>3. SavesInv'
  BY DEF SavesInv, TypeOK
<1>4. GatewayInv'
  BY DEF GatewayInv, TypeOK
<1>5. ReadersInv'
  BY DEF ReadersInv, TypeOK
<1>6. KeepInv'
  BY DEF KeepInv, TypeOK
<1> QED BY <1>1, <1>2, <1>3, <1>4, <1>5, <1>6

LEMMA GatewayStepKeepsIInv ==
  ASSUME IInv, NEW t \in SaveTxs, GatewayStep(t)
  PROVE  IInv'
<1> USE NotaryAssumption, TxParts DEF IInv, GatewayStep, table, saving,
       reading, gateway, Gateway!Enqueue, Gateway!Fail, Gateway!Land,
       Gateway!Succeed
<1>1. TypeOK'
  BY DEF TypeOK
<1>2. RowsInv'
  BY DEF RowsInv, BoundTogether, NoDanglingFile, TypeOK
<1>3. SavesInv'
  BY DEF SavesInv, TypeOK
<1>4. GatewayInv'
  BY DEF GatewayInv, TypeOK
<1>5. ReadersInv'
  BY DEF ReadersInv, TypeOK
<1>6. KeepInv'
  BY DEF KeepInv, TypeOK
<1> QED BY <1>1, <1>2, <1>3, <1>4, <1>5, <1>6

LEMMA GatewayLosesKeepsIInv ==
  ASSUME IInv, NEW S \in SUBSET requested, GatewayLoses(S)
  PROVE  IInv'
<1> USE NotaryAssumption, TxParts DEF IInv, GatewayLoses, table, saving,
       reading, Gateway!Lose
<1>1. TypeOK'
  BY DEF TypeOK
<1>2. RowsInv'
  BY DEF RowsInv, BoundTogether, NoDanglingFile, TypeOK
<1>3. SavesInv'
  BY DEF SavesInv, TypeOK
<1>4. GatewayInv'
  BY DEF GatewayInv, TypeOK
<1>5. ReadersInv'
  BY DEF ReadersInv, TypeOK
<1>6. KeepInv'
  BY DEF KeepInv, TypeOK
<1> QED BY <1>1, <1>2, <1>3, <1>4, <1>5, <1>6

LEMMA TamperKeepsIInv ==
  ASSUME IInv, NEW f \in Files, Tamper(f)
  PROVE  IInv'
<1> USE NotaryAssumption, TxParts DEF IInv, Tamper, table, saving, reading,
       gateway
<1>1. TypeOK'
  BY DEF TypeOK, RowsInv, Contents
<1>2. RowsInv'
  BY DEF RowsInv, BoundTogether, NoDanglingFile, TypeOK
<1>3. SavesInv'
  BY DEF SavesInv, TypeOK
<1>4. GatewayInv'
  BY DEF GatewayInv, TypeOK
<1>5. ReadersInv'
  BY DEF ReadersInv, TypeOK
<1>6. KeepInv'
  BY DEF KeepInv, TypeOK
<1> QED BY <1>1, <1>2, <1>3, <1>4, <1>5, <1>6

LEMMA StutterKeepsIInv ==
  ASSUME IInv, UNCHANGED vars
  PROVE  IInv'
  BY DEF IInv, vars, table, saving, reading, gateway, TypeOK, RowsInv,
         BoundTogether, NoDanglingFile, SavesInv, GatewayInv, ReadersInv, KeepInv

LEMMA StepKeepsIInv == IInv /\ [Next]_vars => IInv'
<1> SUFFICES ASSUME IInv, [Next]_vars PROVE IInv'
  OBVIOUS
<1>1. ASSUME NEW f \in Files, FileStep(f)
      PROVE  IInv'
  BY <1>1, StoreFileKeepsIInv, StoreFileFailsKeepsIInv, InsertFileKeepsIInv,
     InsertFileFailsKeepsIInv, DeleteFileKeepsIInv, TamperKeepsIInv
  DEF FileStep
<1>2. ASSUME NEW s \in Saves, SaveStep(s) \/ DeleteCert(s)
      PROVE  IInv'
  BY <1>2, StartSaveKeepsIInv, SendKeepsIInv, AnsweredKeepsIInv, SendFailsKeepsIInv,
     BindKeepsIInv, BindFailsKeepsIInv, DeleteCertKeepsIInv
  DEF SaveStep, OwnStep
<1>3. ASSUME NEW r \in Readers, ReadStep(r)
      PROVE  IInv'
  BY <1>3, ReadRowKeepsIInv, HashFileKeepsIInv, CheckAgreesKeepsIInv,
     CheckFailsKeepsIInv, ServeKeepsIInv, FinishKeepsIInv
  DEF ReadStep
<1>4. ASSUME NEW t \in SaveTxs, GatewayStep(t)
      PROVE  IInv'
  BY <1>4, GatewayStepKeepsIInv
<1>5. ASSUME NEW S \in SUBSET requested, GatewayLoses(S)
      PROVE  IInv'
  BY <1>5, GatewayLosesKeepsIInv
<1>6. CASE UNCHANGED vars
  BY <1>6, StutterKeepsIInv
<1> QED BY <1>1, <1>2, <1>3, <1>4, <1>5, <1>6 DEF Next

(* The invariant holds for any number of files, certificates and downloads. *)
THEOREM Invariance == Safety => []IInv
  BY InitIInv, StepKeepsIInv, PTL DEF Safety

-----------------------------------------------------------------------------
(* The columns of cert_file and the stages of the requests keep their types. *)
THEOREM TypeCorrect == Safety => []TypeOK
<1>1. IInv => TypeOK
  BY DEF IInv
<1> QED BY <1>1, Invariance, PTL

(* CertFileMapper.updateByIds: certificate and transaction of a row belong  *)
(* together, however the saves over a file overlap.                         *)
THEOREM RowsBoundTogether == Safety => []BoundTogether
<1>1. IInv => BoundTogether
  BY DEF IInv, RowsInv
<1> QED BY <1>1, Invariance, PTL

(* CertInfoServiceImpl.delete leaves no row behind that names the           *)
(* certificate, and no save brings one back.                                *)
THEOREM NothingDangles == Safety => []NoDanglingFile
<1>1. IInv => NoDanglingFile
  BY DEF IInv, RowsInv
<1> QED BY <1>1, Invariance, PTL

(* CertInfoServiceImpl.save commits only with an id for every file.         *)
THEOREM SaveIsAllOrNothing == Safety => []AllOrNothing
<1>1. IInv => AllOrNothing
  <2> SUFFICES ASSUME IInv, NEW s \in info
               PROVE  found[s] # {} /\ \A f \in found[s] : <<s, f>> \in answered
    BY DEF AllOrNothing
  <2>1. s \in Saves
    BY DEF IInv, TypeOK
  <2>2. found[s] # {} /\ ids[s] = found[s]
    BY <2>1 DEF IInv, SavesInv
  <2> QED BY <2>1, <2>2 DEF IInv, SavesInv
<1> QED BY <1>1, Invariance, PTL

(* Behind a synchronous gateway cert_file only names transactions that are  *)
(* on the ledger, whatever the two time limits do.                          *)
THEOREM BoundIsOnLedger == Safety => []SyncBoundIsOnLedger
<1>1. IInv => SyncBoundIsOnLedger
  BY DEF IInv, TypeOK, RowsInv, GatewayInv, SyncBoundIsOnLedger
<1> QED BY <1>1, Invariance, PTL

(* CertInfoController.downfile sends nothing that the chain did not confirm. *)
THEOREM ServedNotarized == Safety => []ServedIsNotarized
<1>1. IInv => ServedIsNotarized
  <2> SUFFICES ASSUME IInv, NEW r \in Readers,
                      rd[r] \in {"verified", "served", "done"}
               PROVE  /\ seen[r] = "original"
                      /\ want[r][2] \in onLedger \cup rejected
                      /\ ~AsyncSend => want[r][2] \in onLedger
    BY DEF ServedIsNotarized
  <2>1. /\ seen[r] = "original" /\ want[r][2] \in onLedger \cup rejected
        /\ want[r][2] \in answered \cup {None}
    BY DEF IInv, ReadersInv
  <2>2. want[r][2] \in SaveTxs
    BY <2>1, TxParts DEF IInv, TypeOK
  <2> QED BY <2>1, <2>2, TxParts DEF IInv, GatewayInv
<1> QED BY <1>1, Invariance, PTL

(* A certificate nobody shares a file with keeps its files.                 *)
THEOREM FilesAreKept == Safety => []CertificateKeepsFiles
<1>1. IInv => CertificateKeepsFiles
  BY DEF IInv, TypeOK, KeepInv, CertificateKeepsFiles
<1> QED BY <1>1, Invariance, PTL
===============================================================================
