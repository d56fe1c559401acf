--------------------------------- MODULE Access ---------------------------------
(***************************************************************************)
(* Who may do what in the certificate application: users, their roles and  *)
(* the authorities of the roles are rows of MySQL; a login copies the      *)
(* rights of the user to Redis (ShiroRedisUserRealm), where the sessions   *)
(* and Shiro's authorization cache live too (ShiroRedisCache).  Browsers   *)
(* log in, have permissions checked and log out while administrators       *)
(* change the tables.                                                      *)
(*                                                                         *)
(* A database transaction is one step.  The entry "role:<id>" of Redis is  *)
(* written beside the rights and no check uses it: it is left out.         *)
(***************************************************************************)
EXTENDS Integers, FiniteSets

CONSTANTS
    Users,
    Roles,       \* the roles an administrator may give: all but role 1
    DefaultRole, \* role 3, of those who register themselves
    Authorities, \* rows of sys_authorities, each with an id of its own
    Parent,      \* the parent an authority is added under
    Browsers,
    MaxChanges,  \* bound: administrative changes
    None

ASSUME AccessAssumption ==
    /\ DefaultRole \in Roles
    /\ None \notin Authorities
    /\ \A A \in SUBSET Authorities : A # None
    /\ None \notin Users \X (0..MaxChanges)
    /\ None \notin (Users \X (0..MaxChanges)) \X SUBSET Authorities
    /\ Parent \in [Authorities -> Authorities \cup {None}]
    /\ MaxChanges \in Nat

VARIABLES
    changes,    \* administrative changes so far
    account,    \* sys_user: state of each user's row
    row,        \* what else is in the row, by the change that first wrote it
    userRoles,  \* sys_user_role
    grants,     \* sys_role_authorities
    menu,       \* sys_authorities: life of each authority
    stage,      \* what each browser is at
    who,        \* the principal it logs in as: the user with the row read
    got,        \* the rights its login read
    check,      \* a permission check under way: principal and rights read
    copy,       \* Redis, "authorities:<id>": the rights of each user
    info,       \* Redis, authorization cache: the rights of each principal
    since,      \* history: the rights its user had since its login began
    alone,      \* history: nobody else logged in as its user since then
    hit         \* history: Redis was flushed since then

tables == <<changes, account, row, userRoles, grants, menu>>
redis == <<copy, info>>
history == <<since, alone, hit>>
vars == <<tables, stage, who, got, check, redis, history>>

Principals == Users \X (0..MaxChanges)
Rights == SUBSET Authorities

TablesOK ==
    /\ changes \in 0..MaxChanges
    /\ account \in [Users -> {"none", "active", "locked"}]
    /\ row \in [Users -> 0..MaxChanges]
    /\ userRoles \in [Users -> SUBSET Roles]
    /\ grants \in [Roles -> Rights]
    /\ menu \in [Authorities -> {"none", "live", "dropping", "gone"}]

TypeOK ==
    /\ TablesOK
    /\ stage \in [Browsers -> {"out", "found", "read", "written", "in", "leaving"}]
    /\ who \in [Browsers -> Principals \cup {None}]
    /\ got \in [Browsers -> {None} \cup Rights]
    /\ check \in [Browsers -> (Principals \X Rights) \cup {None}]
    /\ copy \in [Users -> {None} \cup Rights]
    /\ info \in [Principals -> {None} \cup Rights]
    /\ since \in [Browsers -> SUBSET Rights]
    /\ alone \in [Browsers -> BOOLEAN]
    /\ hit \in [Browsers -> BOOLEAN]

Known(u) == account[u] # "none"
Present(a) == menu[a] \in {"live", "dropping"}

(* Redis is empty, the tables are as earlier changes left them. *)
Init ==
    /\ changes = 0
    /\ account \in [Users -> {"none", "active"}]
    /\ row = [u \in Users |-> 0]
    /\ userRoles \in [Users -> SUBSET Roles]
    /\ \A u \in Users : userRoles[u] # {} <=> Known(u)
    /\ menu \in [Authorities -> {"none", "live"}]
    /\ \A a \in Authorities :
           Present(a) => Parent[a] \in {None} \cup {c \in Authorities : Present(c)}
    /\ grants \in [Roles -> SUBSET {a \in Authorities : Present(a)}]
    /\ stage = [b \in Browsers |-> "out"]
    /\ who = [b \in Browsers |-> None]
    /\ got = [b \in Browsers |-> None]
    /\ check = [b \in Browsers |-> None]
    /\ copy = [u \in Users |-> None]
    /\ info = [p \in Principals |-> None]
    /\ since = [b \in Browsers |-> {}]
    /\ alone = [b \in Browsers |-> FALSE]
    /\ hit = [b \in Browsers |-> FALSE]

(* AuthoritiesMapper.listByUserId, one SELECT: the authorities of the user's *)
(* roles that exist; it does not ask whether a role is deleted.              *)
RightsOf == [u \in Users |->
    {a \in Authorities : Present(a) /\ \E r \in userRoles[u] : a \in grants[r]}]

Go(b, from, to) == stage[b] = from /\ stage' = [stage EXCEPT ![b] = to]

(* The browsers S are neither logged in nor logging in any more. *)
Out(S) ==
    /\ stage' = [b \in Browsers |-> IF b \in S THEN "out" ELSE stage[b]]
    /\ who' = [b \in Browsers |-> IF b \in S THEN None ELSE who[b]]
    /\ got' = [b \in Browsers |-> IF b \in S THEN None ELSE got[b]]
    /\ since' = [b \in Browsers |-> IF b \in S THEN {} ELSE since[b]]
    /\ alone' = [b \in Browsers |-> b \notin S /\ alone[b]]
    /\ hit' = [b \in Browsers |-> b \notin S /\ hit[b]]

As(o, u) == who[o] # None /\ who[o][1] = u

(* Browser o is logged in, or logging in, as user u, or a check of u is     *)
(* under way for it.                                                        *)
Busy(o, u) ==
    \/ As(o, u)
    \/ check[o] # None /\ check[o][1][1] = u

-----------------------------------------------------------------------------
(* Administration: each action is one database transaction, and every       *)
(* login under way or completed takes note of its user's rights after it.   *)

Note ==
    /\ changes < MaxChanges
    /\ changes' = changes + 1
    /\ since' = [b \in Browsers |-> IF who[b] = None THEN since[b]
                                    ELSE since[b] \cup {RightsOf'[who[b][1]]}]
    /\ UNCHANGED <<stage, who, got, check, redis, alone, hit>>

(* UserServiceImpl.add, by an administrator or by the user. *)
AddUser(u, R) ==
    /\ account[u] = "none"
    /\ R # {}
    /\ account' = [account EXCEPT ![u] = "active"]
    /\ userRoles' = [userRoles EXCEPT ![u] = R]
    /\ UNCHANGED <<row, grants, menu>>
    /\ Note

Register(u) == AddUser(u, {DefaultRole})

(* The new content of the row may be the present or an earlier one.          *)
WriteRow(u) == \E n \in 0..(changes + 1) : row' = [row EXCEPT ![u] = n]

(* The row and the roles of a user, in one transaction. *)
UpdateUser(u, R) ==
    /\ Known(u)
    /\ R # {}
    /\ userRoles' = [userRoles EXCEPT ![u] = R]
    /\ WriteRow(u)
    /\ UNCHANGED <<account, grants, menu>>
    /\ Note

UpdatePsw(u) ==
    /\ Known(u)
    /\ WriteRow(u)
    /\ UNCHANGED <<account, userRoles, grants, menu>>
    /\ Note

(* Mutant: the state is not looked at. *)
UpdateStateUnchecked(u) ==
    /\ Known(u)
    /\ \E s \in {"active", "locked", "other"} : account' = [account EXCEPT ![u] = s]
    /\ UNCHANGED <<row, userRoles, grants, menu>>
    /\ Note

(* Any other state is refused.  Locking ends no session. *)
UpdateState(u) ==
    /\ Known(u)
    /\ \E s \in {"active", "locked"} : account' = [account EXCEPT ![u] = s]
    /\ UNCHANGED <<row, userRoles, grants, menu>>
    /\ Note

(* The rights an administrator ticked on a page that may be out of date. *)
UpdateRoleAuth(r, A) ==
    /\ \A a \in A : menu[a] # "none"
    /\ grants' = [grants EXCEPT ![r] = A]
    /\ UNCHANGED <<account, row, userRoles, menu>>
    /\ Note

(* Deleting a role marks it and takes its rights; its users keep it. *)
DeleteRole(r) ==
    /\ grants' = [grants EXCEPT ![r] = {}]
    /\ UNCHANGED <<account, row, userRoles, menu>>
    /\ Note

(* The parent was on the page the form was opened from. *)
AddAuthority(a) ==
    /\ menu[a] = "none"
    /\ Parent[a] \in {None} \cup {c \in Authorities : menu[c] # "none"}
    /\ menu' = [menu EXCEPT ![a] = "live"]
    /\ UNCHANGED <<account, row, userRoles, grants>>
    /\ Note

(* The transaction first asks for children ... *)
FindNoChild(a) ==
    /\ menu[a] = "live"
    /\ ~\E c \in Authorities : Parent[c] = a /\ Present(c)
    /\ menu' = [menu EXCEPT ![a] = "dropping"]
    /\ UNCHANGED <<account, row, userRoles, grants>>
    /\ Note

(* ... and commits the two deletes later. *)
DropAuthority(a) ==
    /\ menu[a] = "dropping"
    /\ menu' = [menu EXCEPT ![a] = "gone"]
    /\ grants' = [r \in Roles |-> grants[r] \ {a}]
    /\ UNCHANGED <<account, row, userRoles>>
    /\ Note

-----------------------------------------------------------------------------
(* A login: doGetAuthenticationInfo, then the password and the session.     *)

Find(b, u) ==
    /\ account[u] = "active"
    /\ Go(b, "out", "found")
    /\ who' = [who EXCEPT ![b] = <<u, row[u]>>]
    /\ since' = [since EXCEPT ![b] = {RightsOf[u]}]
    /\ alone' = [o \in Browsers |->
            IF o = b THEN info[<<u, row[u]>>] = None /\ ~\E x \in Browsers : Busy(x, u)
            ELSE alone[o] /\ ~As(o, u)]
    /\ hit' = [hit EXCEPT ![b] = FALSE]
    /\ UNCHANGED <<tables, got, check, redis>>

ReadRights(b) ==
    /\ Go(b, "found", "read")
    /\ got' = [got EXCEPT ![b] = RightsOf[who[b][1]]]
    /\ UNCHANGED <<tables, who, check, redis, history>>

(* Mutant: the entry is only written when there is none. *)
WriteIfAbsent(b) ==
    LET u == who[b][1] IN
    /\ Go(b, "read", "written")
    /\ copy' = [copy EXCEPT ![u] = IF @ = None THEN got[b] ELSE @]
    /\ got' = [got EXCEPT ![b] = None]
    /\ UNCHANGED <<tables, who, check, info, history>>

(* The copy is replaced before the password is looked at. *)
WriteCopy(b) ==
    /\ Go(b, "read", "written")
    /\ copy' = [copy EXCEPT ![who[b][1]] = got[b]]
    /\ got' = [got EXCEPT ![b] = None]
    /\ UNCHANGED <<tables, who, check, info, history>>

(* The password is that of the row read, and the session is created. *)
Enter(b) ==
    /\ Go(b, "written", "in")
    /\ UNCHANGED <<tables, who, got, check, redis, history>>

(* The password is wrong, or MySQL or Redis fails on the way. *)
Refuse(b) ==
    /\ stage[b] \in {"found", "read", "written"}
    /\ Out({b})
    /\ UNCHANGED <<tables, check, redis>>

-----------------------------------------------------------------------------
(* A session.                                                               *)

(* A handler with @RequiresPermissions, and nothing in the authorization    *)
(* cache: doGetAuthorizationInfo reads the copy, and fails if there is      *)
(* none.  With the rights in the cache nothing changes.                     *)
LoadRights(b) ==
    LET p == who[b] IN
    /\ stage[b] \in {"in", "leaving"}
    /\ check[b] = None
    /\ info[p] = None
    /\ copy[p[1]] # None
    /\ check' = [check EXCEPT ![b] = <<p, copy[p[1]]>>]
    /\ UNCHANGED <<tables, stage, who, got, redis, history>>

StoreInfo(b) ==
    /\ check[b] # None
    /\ info' = [info EXCEPT ![check[b][1]] = check[b][2]]
    /\ check' = [check EXCEPT ![b] = None]
    /\ UNCHANGED <<tables, stage, who, got, copy, history>>

(* Mutant: the copy is removed together with the cached rights. *)
LogoutDropsCopy(b) ==
    /\ Go(b, "in", "leaving")
    /\ info' = [info EXCEPT ![who[b]] = None]
    /\ copy' = [copy EXCEPT ![who[b][1]] = None]
    /\ UNCHANGED <<tables, who, got, check, history>>

(* Shiro first removes the cached rights of the principal, then the         *)
(* session; the copy stays.                                                 *)
Logout(b) ==
    /\ Go(b, "in", "leaving")
    /\ info' = [info EXCEPT ![who[b]] = None]
    /\ UNCHANGED <<tables, who, got, check, copy, history>>

EndSession(b) ==
    /\ stage[b] = "leaving"
    /\ Out({b})
    /\ UNCHANGED <<tables, check, redis>>

(* After 30 idle minutes only the session goes. *)
Expire(b) ==
    /\ stage[b] = "in"
    /\ Out({b})
    /\ UNCHANGED <<tables, check, redis>>

(* Redis loses its data: copies, cached rights and sessions. *)
Flush ==
    /\ copy' = [u \in Users |-> None]
    /\ info' = [p \in Principals |-> None]
    /\ LET ended == {b \in Browsers : stage[b] \in {"in", "leaving"}} IN
       /\ stage' = [b \in Browsers |-> IF b \in ended THEN "out" ELSE stage[b]]
       /\ who' = [b \in Browsers |-> IF b \in ended THEN None ELSE who[b]]
       /\ since' = [b \in Browsers |-> IF b \in ended THEN {} ELSE since[b]]
       /\ alone' = [b \in Browsers |-> b \notin ended /\ alone[b]]
       /\ hit' = [b \in Browsers |-> stage[b] \in {"found", "read", "written"}]
    /\ UNCHANGED <<tables, check, got>>

-----------------------------------------------------------------------------
Administer ==
    \/ \E u \in Users : \/ Register(u) \/ UpdatePsw(u) \/ UpdateState(u)
                        \/ \E R \in SUBSET Roles : AddUser(u, R) \/ UpdateUser(u, R)
    \/ \E r \in Roles : DeleteRole(r) \/ \E A \in Rights : UpdateRoleAuth(r, A)
    \/ \E a \in Authorities : AddAuthority(a) \/ FindNoChild(a) \/ DropAuthority(a)

Browse(b) ==
    \/ \E u \in Users : Find(b, u)
    \/ ReadRights(b) \/ WriteCopy(b) \/ Enter(b) \/ Refuse(b)
    \/ LoadRights(b) \/ StoreInfo(b) \/ Logout(b) \/ EndSession(b) \/ Expire(b)

Next == Administer \/ (\E b \in Browsers : Browse(b)) \/ Flush

Spec == Init /\ [][Next]_vars
-----------------------------------------------------------------------------
(* Who logs in as the only one of that user, with nothing left in the       *)
(* authorization cache, is never checked against rights older than that     *)
(* login: neither the copy in Redis nor the cached rights, nor the ones a   *)
(* check under way will cache, whatever administrators and other users do.  *)
FreshRights ==
    \A b \in Browsers : stage[b] \in {"in", "leaving"} /\ alone[b] =>
        LET p == who[b] IN
        /\ copy[p[1]] \in since[b] \cup {None}
        /\ info[p] \in since[b] \cup {None}
        /\ \A o \in Browsers : check[o] # None /\ check[o][1] = p =>
               check[o][2] \in since[b]

(* The handlers dereference the copy of the user's rights: it is there for  *)
(* every session, also after other sessions of that user have ended, unless *)
(* Redis lost its data while the session's login was under way.             *)
SessionHasCopy ==
    \A b \in Browsers : stage[b] \in {"in", "leaving"} /\ ~hit[b] =>
        copy[who[b][1]] # None

(* AuthoritiesServiceImpl.delete refuses to delete an authority with         *)
(* children, so that none is left under a parent that is gone.              *)
NoOrphanAuthority ==
    \A a \in Authorities : menu[a] = "live" /\ Parent[a] # None =>
        menu[Parent[a]] # "gone"
=============================================================================
