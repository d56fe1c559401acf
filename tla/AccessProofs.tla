----------------------------- MODULE AccessProofs -----------------------------
(***************************************************************************)
(* Proofs about Access, for all sets of users, roles, authorities and      *)
(* browsers and any number of administrative changes.                      *)
(*                                                                         *)
(* The rights travel from the tables to `got`, to the copy, to a check and *)
(* to the authorization cache.  For a login that began alone each of these *)
(* places holds rights the user had since then (FlowInv), because no other *)
(* browser may write them (AloneInv), and `since` always includes the      *)
(* rights of the moment (NowInv).                                          *)
(***************************************************************************)
EXTENDS Access, TLAPS

OutInv == \A b \in Browsers : stage[b] = "out" <=> who[b] = None

NowInv == \A b \in Browsers :
    /\ who[b] # None => RightsOf[who[b][1]] \in since[b]
    /\ stage[b] = "read" => got[b] \in since[b]

AloneInv == \A b \in Browsers : alone[b] =>
    /\ who[b] # None
    /\ \A o \in Browsers \ {b} : ~As(o, who[b][1])

Logged == {"in", "leaving"}

FlowInv == \A b \in Browsers : alone[b] =>
    /\ stage[b] \in {"written"} \cup Logged => copy[who[b][1]] \in since[b] \cup {None}
    /\ info[who[b]] \in since[b] \cup {None}
    /\ \A o \in Browsers : check[o] # None /\ check[o][1][1] = who[b][1] =>
           stage[b] \in Logged /\ check[o][2] \in since[b]

CopyInv == \A b \in Browsers :
    stage[b] \in {"written"} \cup Logged /\ ~hit[b] => copy[who[b][1]] # None

IInv == TypeOK /\ OutInv /\ NowInv /\ AloneInv /\ FlowInv /\ CopyInv

-----------------------------------------------------------------------------
LEMMA RightsType == RightsOf \in [Users -> Rights]
BY DEF RightsOf, Rights

LEMMA SameRights == UNCHANGED tables => RightsOf' = RightsOf /\ (TablesOK => TablesOK')
BY DEF RightsOf, Present, tables, TablesOK

(* Who is logged in, or logging in, is a user with a row. *)
LEMMA Who ==
  ASSUME TypeOK, NEW b \in Browsers, who[b] # None
  PROVE  /\ who[b] \in Principals
         /\ who[b][1] \in Users
         /\ RightsOf[who[b][1]] \in Rights
BY RightsType DEF TypeOK, Principals

LEMMA NoneIsNoRights == None \notin Rights
BY AccessAssumption DEF Rights

LEMMA InitIInv == Init => IInv
<1> SUFFICES ASSUME Init PROVE IInv
  OBVIOUS
<1> USE DEF Init
<1>1. TablesOK
  BY AccessAssumption DEF TablesOK, Rights, Known
<1>2. TypeOK
  BY <1>1 DEF TypeOK, Rights
<1>3. OutInv /\ NowInv /\ AloneInv /\ FlowInv /\ CopyInv
  BY DEF OutInv, NowInv, AloneInv, FlowInv, CopyInv, Logged
<1> QED BY <1>2, <1>3 DEF IInv

-----------------------------------------------------------------------------
(* Administration touches neither Redis nor a browser: only `since` grows.  *)
LEMMA NoteKeepsIInv ==
  ASSUME IInv, Note, TablesOK'
  PROVE  IInv'
<1> USE DEF IInv, Note, redis
<1>1. RightsOf' \in [Users -> Rights]
  BY DEF RightsOf, Rights
<1>2. \A b \in Browsers : since[b] \subseteq since'[b]
  BY DEF TypeOK
<1>3. TypeOK'
  <2>1. since' \in [Browsers -> SUBSET Rights]
    BY <1>1, Who DEF TypeOK
  <2> QED BY <2>1 DEF TypeOK
<1>4. OutInv'
  BY DEF OutInv
<1>5. NowInv'
  BY <1>2 DEF NowInv, TypeOK
<1>6. AloneInv'
  BY DEF AloneInv, As
<1>7. FlowInv'
  BY <1>2 DEF FlowInv, Logged
<1>8. CopyInv'
  BY DEF CopyInv, Logged
<1> QED BY <1>3, <1>4, <1>5, <1>6, <1>7, <1>8

LEMMA AdministerKeepsIInv ==
  ASSUME IInv, Administer
  PROVE  IInv'
<1>1. TablesOK /\ Note
  BY DEF IInv, TypeOK, Administer, Register, AddUser, UpdateUser, UpdatePsw, WriteRow, UpdateState,
         DeleteRole, UpdateRoleAuth, AddAuthority, FindNoChild, DropAuthority
<1>2. changes' \in 0..MaxChanges /\ changes + 1 \in 0..MaxChanges
  BY <1>1, AccessAssumption DEF Note, TablesOK
<1> USE <1>1, <1>2 DEF TablesOK
<1>3. ASSUME NEW u \in Users, NEW R \in SUBSET Roles, AddUser(u, R)
      PROVE  TablesOK'
  BY <1>3 DEF AddUser
<1>4. ASSUME NEW u \in Users, WriteRow(u)
      PROVE  row' \in [Users -> 0..MaxChanges]
  <2>1. PICK n \in 0..(changes + 1) : row' = [row EXCEPT ![u] = n]
    BY <1>4 DEF WriteRow
  <2>2. n \in 0..MaxChanges
    BY <2>1, AccessAssumption
  <2> QED BY <2>1, <2>2
<1>5. ASSUME NEW u \in Users, NEW R \in SUBSET Roles, UpdateUser(u, R) \/ UpdatePsw(u) \/ UpdateState(u)
      PROVE  TablesOK'
  BY <1>5, <1>4 DEF UpdateUser, UpdatePsw, UpdateState
<1>6. ASSUME NEW r \in Roles, NEW A \in Rights, UpdateRoleAuth(r, A) \/ DeleteRole(r)
      PROVE  TablesOK'
  BY <1>6 DEF UpdateRoleAuth, DeleteRole, Rights
<1>7. ASSUME NEW a \in Authorities, AddAuthority(a) \/ FindNoChild(a) \/ DropAuthority(a)
      PROVE  TablesOK'
  BY <1>7 DEF AddAuthority, FindNoChild, DropAuthority, Rights
<1>8. ASSUME NEW u \in Users, Register(u)
      PROVE  TablesOK'
  BY <1>8, <1>3, AccessAssumption DEF Register
<1>9. {} \in Rights
  BY DEF Rights
<1>10. TablesOK'
  BY <1>3, <1>5, <1>6, <1>7, <1>8, <1>9 DEF Administer
<1> QED BY <1>10, NoteKeepsIInv

-----------------------------------------------------------------------------
(* A login and a session: the tables stay, so do the rights.                *)
LEMMA FindKeepsIInv ==
  ASSUME IInv, NEW b \in Browsers, NEW u \in Users, Find(b, u)
  PROVE  IInv'
<1> USE DEF IInv, Find, Go, redis
<1>1. RightsOf' = RightsOf /\ TablesOK'
  BY SameRights DEF TypeOK
<1>2. who[b] = None /\ <<u, row[u]>> \in Principals
  BY DEF OutInv, TypeOK, TablesOK, Principals
<1>3. \A o \in Browsers \ {b} : who'[o] = who[o] /\ since'[o] = since[o] /\ stage'[o] = stage[o]
  BY DEF TypeOK
<1>4. who'[b] = <<u, row[u]>> /\ since'[b] = {RightsOf[u]} /\ stage'[b] = "found"
  BY DEF TypeOK
<1>5. alone'[b] => info[<<u, row[u]>>] = None /\ \A x \in Browsers : ~Busy(x, u)
  BY DEF TypeOK
<1>6. \A o \in Browsers \ {b} : alone'[o] => alone[o] /\ ~As(o, u)
  BY DEF TypeOK
<1>7. None \notin Principals
  BY AccessAssumption DEF Principals
<1>8. TypeOK'
  BY <1>1, <1>2, RightsType DEF TypeOK
<1>9. OutInv'
  BY <1>2, <1>3, <1>4, <1>7 DEF OutInv
<1>10. NowInv'
  BY <1>1, <1>3, <1>4 DEF NowInv
<1>11. AloneInv'
  <2>1. ASSUME alone'[b], NEW o \in Browsers \ {b}
        PROVE  ~As(o, u)
    BY <1>5, <2>1 DEF Busy
  <2> QED BY <1>2, <1>3, <1>4, <1>6, <1>7, <2>1 DEF AloneInv, As
<1>12. FlowInv'
  <2>1. ASSUME alone'[b], NEW o \in Browsers
        PROVE  ~(check[o] # None /\ check[o][1][1] = u)
    BY <1>5, <2>1 DEF Busy
  <2>2. ASSUME alone'[b]
        PROVE  info[<<u, row[u]>>] = None
    BY <1>5, <2>2
  <2> QED BY <1>3, <1>4, <1>6, <2>1, <2>2 DEF FlowInv, Logged
<1>13. CopyInv'
  BY <1>3, <1>4 DEF CopyInv, Logged, TypeOK
<1> QED BY <1>8, <1>9, <1>10, <1>11, <1>12, <1>13

LEMMA ReadRightsKeepsIInv ==
  ASSUME IInv, NEW b \in Browsers, ReadRights(b)
  PROVE  IInv'
<1> USE DEF IInv, ReadRights, Go, redis, history
<1>1. RightsOf' = RightsOf /\ TablesOK'
  BY SameRights DEF TypeOK
<1>2. who[b] # None
  BY DEF OutInv
<1>3. RightsOf[who[b][1]] \in Rights
  BY <1>2, Who
<1>4. TypeOK'
  BY <1>1, <1>3 DEF TypeOK
<1>5. OutInv' /\ AloneInv'
  BY <1>2 DEF OutInv, AloneInv, As, TypeOK
<1>6. NowInv'
  BY <1>1, <1>2 DEF NowInv, TypeOK
<1>7. FlowInv' /\ CopyInv'
  BY DEF FlowInv, CopyInv, Logged, TypeOK
<1> QED BY <1>4, <1>5, <1>6, <1>7

LEMMA WriteCopyKeepsIInv ==
  ASSUME IInv, NEW b \in Browsers, WriteCopy(b)
  PROVE  IInv'
<1> USE DEF IInv, WriteCopy, Go, redis, history
<1>1. RightsOf' = RightsOf /\ TablesOK'
  BY SameRights DEF TypeOK
<1>2. who[b] # None /\ got[b] \in since[b]
  BY DEF OutInv, NowInv
<1>3. who[b][1] \in Users /\ got[b] \in Rights
  BY <1>2, Who DEF TypeOK
<1>4. \A o \in Browsers : stage'[o] = IF o = b THEN "written" ELSE stage[o]
  BY DEF TypeOK
<1>5. copy' = [copy EXCEPT ![who[b][1]] = got[b]] /\ copy'[who[b][1]] = got[b]
  BY <1>3 DEF TypeOK
<1>6. \A v \in Users \ {who[b][1]} : copy'[v] = copy[v]
  BY <1>3 DEF TypeOK
<1>7. TypeOK'
  BY <1>1, <1>3 DEF TypeOK
<1>8. OutInv' /\ AloneInv'
  BY <1>2, <1>4 DEF OutInv, AloneInv, As
<1>9. NowInv'
  BY <1>1, <1>4 DEF NowInv, TypeOK
<1>10. FlowInv'
  <2>1. ASSUME NEW o \in Browsers, alone[o], o # b
        PROVE  who[o][1] \in Users \ {who[b][1]}
    BY <1>2, <2>1, Who DEF AloneInv, As
  <2> QED BY <1>2, <1>4, <1>5, <1>6, <2>1 DEF FlowInv, Logged
<1>11. CopyInv'
  <2>1. ASSUME NEW o \in Browsers, stage[o] \in {"written"} \cup Logged
        PROVE  who[o] # None /\ who[o][1] \in Users
    BY <2>1, Who DEF OutInv, Logged
  <2> QED BY <1>3, <1>4, <1>5, <1>6, <2>1, NoneIsNoRights DEF CopyInv, Logged
<1> QED BY <1>7, <1>8, <1>9, <1>10, <1>11

LEMMA EnterKeepsIInv ==
  ASSUME IInv, NEW b \in Browsers, Enter(b)
  PROVE  IInv'
<1> USE DEF IInv, Enter, Go, redis, history
<1>1. RightsOf' = RightsOf /\ TablesOK'
  BY SameRights DEF TypeOK
<1>2. \A o \in Browsers : stage'[o] = IF o = b THEN "in" ELSE stage[o]
  BY DEF TypeOK
<1>3. TypeOK'
  BY <1>1 DEF TypeOK
<1>4. OutInv' /\ AloneInv' /\ CopyInv'
  BY <1>2 DEF OutInv, AloneInv, As, CopyInv, Logged
<1>5. NowInv'
  BY <1>1, <1>2 DEF NowInv
<1>6. FlowInv'
  BY <1>2 DEF FlowInv, Logged
<1> QED BY <1>3, <1>4, <1>5, <1>6

(* Ending a login or a session, one or several at a time. *)
LEMMA OutKeepsIInv ==
  ASSUME IInv, NEW S \in SUBSET Browsers, Out(S), UNCHANGED <<tables, check, redis>>
  PROVE  IInv'
<1> USE DEF IInv, Out, redis
<1>1. RightsOf' = RightsOf /\ TablesOK'
  BY SameRights DEF TypeOK
<1>2. TypeOK'
  BY <1>1 DEF TypeOK
<1>3. OutInv'
  BY DEF OutInv
<1>4. NowInv'
  BY <1>1 DEF NowInv
<1>5. AloneInv'
  BY DEF AloneInv, As
<1>6. FlowInv'
  BY DEF FlowInv, Logged
<1>7. CopyInv'
  BY DEF CopyInv, Logged
<1> QED BY <1>2, <1>3, <1>4, <1>5, <1>6, <1>7

LEMMA LoadRightsKeepsIInv ==
  ASSUME IInv, NEW b \in Browsers, LoadRights(b)
  PROVE  IInv'
<1> USE DEF IInv, LoadRights, redis, history
<1>1. RightsOf' = RightsOf /\ TablesOK'
  BY SameRights DEF TypeOK
<1>2. who[b] # None
  BY DEF OutInv
<1>3. who[b] \in Principals /\ copy[who[b][1]] \in Rights
  BY <1>2, Who DEF TypeOK
<1>4. check'[b] = <<who[b], copy[who[b][1]]>>
  BY DEF TypeOK
<1>5. \A o \in Browsers \ {b} : check'[o] = check[o]
  BY DEF TypeOK
<1>6. TypeOK'
  BY <1>1, <1>3 DEF TypeOK
<1>7. OutInv' /\ AloneInv' /\ CopyInv'
  BY DEF OutInv, AloneInv, As, CopyInv, Logged
<1>8. NowInv'
  BY <1>1 DEF NowInv
<1>9. FlowInv'
  <2>1. ASSUME NEW o \in Browsers, alone[o], who[o][1] = who[b][1]
        PROVE  o = b
    BY <1>2, <2>1 DEF AloneInv, As
  <2>2. ASSUME alone[b]
        PROVE  copy[who[b][1]] \in since[b]
    BY <2>2 DEF FlowInv, Logged
  <2> QED BY <1>4, <1>5, <2>1, <2>2 DEF FlowInv, Logged
<1> QED BY <1>6, <1>7, <1>8, <1>9

LEMMA StoreInfoKeepsIInv ==
  ASSUME IInv, NEW b \in Browsers, StoreInfo(b)
  PROVE  IInv'
<1> USE DEF IInv, StoreInfo, redis, history
<1>1. RightsOf' = RightsOf /\ TablesOK'
  BY SameRights DEF TypeOK
<1>2. check[b] \in Principals \X Rights
  BY DEF TypeOK
<1>3. check[b][1] \in Principals /\ check[b][2] \in Rights
  BY <1>2
<1>4. info'[check[b][1]] = check[b][2] /\ \A p \in Principals \ {check[b][1]} : info'[p] = info[p]
  BY <1>3 DEF TypeOK
<1>5. check'[b] = None /\ \A o \in Browsers \ {b} : check'[o] = check[o]
  BY DEF TypeOK
<1>6. TypeOK'
  BY <1>1, <1>3 DEF TypeOK
<1>7. OutInv' /\ AloneInv' /\ CopyInv'
  BY DEF OutInv, AloneInv, As, CopyInv, Logged
<1>8. NowInv'
  BY <1>1 DEF NowInv
<1>9. FlowInv'
  <2>1. ASSUME NEW o \in Browsers, alone[o]
        PROVE  who[o] \in Principals
    BY <2>1, Who DEF AloneInv
  <2>2. ASSUME NEW o \in Browsers, alone[o], who[o] = check[b][1]
        PROVE  check[b][2] \in since[o]
    BY <2>2 DEF FlowInv
  <2> QED BY <1>4, <1>5, <2>1, <2>2 DEF FlowInv
<1> QED BY <1>6, <1>7, <1>8, <1>9

LEMMA LogoutKeepsIInv ==
  ASSUME IInv, NEW b \in Browsers, Logout(b)
  PROVE  IInv'
<1> USE DEF IInv, Logout, Go, redis, history
<1>1. RightsOf' = RightsOf /\ TablesOK'
  BY SameRights DEF TypeOK
<1>2. \A o \in Browsers : stage'[o] = IF o = b THEN "leaving" ELSE stage[o]
  BY DEF TypeOK
<1>3. \A p \in Principals : info'[p] = info[p] \/ info'[p] = None
  BY DEF TypeOK
<1>4. TypeOK'
  BY <1>1 DEF TypeOK
<1>5. OutInv' /\ AloneInv' /\ CopyInv'
  BY <1>2 DEF OutInv, AloneInv, As, CopyInv, Logged
<1>6. NowInv'
  BY <1>1, <1>2 DEF NowInv
<1>7. FlowInv'
  <2>1. ASSUME NEW o \in Browsers, alone[o]
        PROVE  who[o] \in Principals
    BY <2>1, Who DEF AloneInv
  <2> QED BY <1>2, <1>3, <2>1 DEF FlowInv, Logged
<1> QED BY <1>4, <1>5, <1>6, <1>7

LEMMA FlushKeepsIInv ==
  ASSUME IInv, Flush
  PROVE  IInv'
<1> USE DEF IInv, Flush
<1>1. RightsOf' = RightsOf /\ TablesOK'
  BY SameRights DEF TypeOK
<1>2. TypeOK'
  BY <1>1 DEF TypeOK
<1>3. OutInv'
  BY DEF OutInv
<1>4. NowInv'
  BY <1>1 DEF NowInv
<1>5. AloneInv'
  BY DEF AloneInv, As
<1>6. FlowInv'
  <2>1. ASSUME NEW o \in Browsers, alone[o]
        PROVE  who[o] \in Principals /\ who[o][1] \in Users
    BY <2>1, Who DEF AloneInv
  <2> QED BY <2>1 DEF FlowInv, Logged
<1>7. CopyInv'
  BY DEF CopyInv, Logged, TypeOK
<1> QED BY <1>2, <1>3, <1>4, <1>5, <1>6, <1>7

LEMMA NextKeepsIInv == IInv /\ [Next]_vars => IInv'
<1> SUFFICES ASSUME IInv, [Next]_vars PROVE IInv'
  OBVIOUS
<1>1. CASE Administer
  BY <1>1, AdministerKeepsIInv
<1>2. ASSUME NEW b \in Browsers, Browse(b)
      PROVE  IInv'
  <2>1. CASE \E u \in Users : Find(b, u)
    BY <2>1, FindKeepsIInv
  <2>2. CASE ReadRights(b)
    BY <2>2, ReadRightsKeepsIInv
  <2>3. CASE WriteCopy(b)
    BY <2>3, WriteCopyKeepsIInv
  <2>4. CASE Enter(b)
    BY <2>4, EnterKeepsIInv
  <2>5. CASE Refuse(b) \/ EndSession(b) \/ Expire(b)
    BY <2>5, OutKeepsIInv, {b} \in SUBSET Browsers DEF Refuse, EndSession, Expire
  <2>6. CASE LoadRights(b)
    BY <2>6, LoadRightsKeepsIInv
  <2>7. CASE StoreInfo(b)
    BY <2>7, StoreInfoKeepsIInv
  <2>8. CASE Logout(b)
    BY <2>8, LogoutKeepsIInv
  <2> QED BY <1>2, <2>1, <2>2, <2>3, <2>4, <2>5, <2>6, <2>7, <2>8 DEF Browse
<1>3. CASE Flush
  BY <1>3, FlushKeepsIInv
<1>4. CASE UNCHANGED vars
  <2>1. RightsOf' = RightsOf
    BY <1>4, SameRights DEF vars
  <2>2. TypeOK' /\ OutInv' /\ AloneInv'
    BY <1>4 DEF IInv, vars, tables, redis, history, TypeOK, TablesOK, OutInv, AloneInv, As
  <2>3. NowInv' /\ FlowInv' /\ CopyInv'
    BY <1>4, <2>1 DEF IInv, vars, redis, history, NowInv, FlowInv, CopyInv
  <2> QED BY <2>2, <2>3 DEF IInv
<1> QED BY <1>1, <1>2, <1>3, <1>4 DEF Next

(* The invariant the other theorems rest on. *)
THEOREM Flow == Spec => []IInv
<1> QED BY InitIInv, NextKeepsIInv, PTL DEF Spec

(* Every variable keeps its type. *)
THEOREM TypeCorrect == Spec => []TypeOK
<1>1. IInv => TypeOK
  BY DEF IInv
<1> QED BY <1>1, Flow, PTL

(* A login that began alone, with no rights cached, is never checked        *)
(* against rights the user had only before it.                              *)
THEOREM LoginRefreshes == Spec => []FreshRights
<1>1. IInv => FreshRights
  <2> SUFFICES ASSUME IInv, NEW b \in Browsers, stage[b] \in {"in", "leaving"}, alone[b]
               PROVE  /\ copy[who[b][1]] \in since[b] \cup {None}
                      /\ info[who[b]] \in since[b] \cup {None}
                      /\ \A o \in Browsers : check[o] # None /\ check[o][1] = who[b] =>
                             check[o][2] \in since[b]
    BY DEF FreshRights
  <2> QED BY DEF IInv, FlowInv, Logged
<1> QED BY <1>1, Flow, PTL

(* Ending one session never takes the copy away from another. *)
THEOREM CopyStays == Spec => []SessionHasCopy
<1>1. IInv => SessionHasCopy
  BY DEF IInv, CopyInv, SessionHasCopy, Logged
<1> QED BY <1>1, Flow, PTL
=============================================================================
