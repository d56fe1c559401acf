----------------------------- MODULE RolePicker -----------------------------
(***************************************************************************)
(* The roles of one user on the page system/user: the row of the table,    *)
(* the popup user_form.html with its multiple select (formSelects-v4.js,   *)
(* without maximum, search or radio mode), and the tables behind them,     *)
(* which another administrator may change at any time.                     *)
(***************************************************************************)
EXTENDS Integers, FiniteSets

CONSTANTS
    Roles,  \* role ids
    Super   \* role 1, which UserController.getRoles refuses to grant

VARIABLES
    live,     \* sys_role without is_delete
    granted,  \* sys_user_role of the user; rows of deleted roles stay
    row,      \* the roles in the row of the table, as of the last load; {}: no table
    popup,    \* the form is open
    loaded,   \* the roles the form took from the row
    options,  \* the roles listed when the form was fetched
    values,   \* the select: FormSelects.values
    marked,   \* options drawn as selected
    hidden,   \* the hidden input, which the form posts
    touched   \* history: roles the user switched in this form

serverVars == <<live, granted>>
pickVars == <<loaded, options, values, marked, hidden, touched>>
roleVars == <<serverVars, row, popup, pickVars>>

PickTypeOK ==
    /\ {live, granted, row, loaded, options, values, marked, hidden, touched}
           \subseteq SUBSET Roles
    /\ popup \in BOOLEAN

(* A user with or without Super; the rest is up to OtherSaves. *)
PickInit ==
    /\ live = Roles
    /\ granted \in {Roles, Roles \ {Super}}
    /\ row = {}
    /\ popup = FALSE
    /\ loaded = {} /\ options = {} /\ values = {} /\ marked = {} /\ hidden = {}
    /\ touched = {}

NoForm ==
    /\ popup' = FALSE
    /\ loaded' = {} /\ options' = {} /\ values' = {} /\ marked' = {} /\ hidden' = {}
    /\ touched' = {}

-----------------------------------------------------------------------------
(* RoleController.delete: the role is marked, what users hold stays. *)
DeleteRole(r) ==
    /\ live' = live \ {r}
    /\ UNCHANGED <<granted, row, popup, pickVars>>

(* Another administrator saves other roles for the user. *)
OtherSaves(S) ==
    /\ S # {} /\ S \subseteq live \ {Super}
    /\ granted' = S
    /\ UNCHANGED <<live, row, popup, pickVars>>

(* table.render and table.reload; a user always has a role. *)
Reload ==
    /\ row' = granted
    /\ UNCHANGED <<serverVars, popup, pickVars>>

(* The table goes with its page, the form does not. *)
TableGone ==
    /\ row' = {}
    /\ UNCHANGED <<serverVars, popup, pickVars>>

-----------------------------------------------------------------------------
(* Mutant: value() comes before the select is initialised and does nothing. *)
OpenFormEmpty ==
    /\ row # {}
    /\ ~popup /\ popup' = TRUE
    /\ loaded' = row
    /\ options' = live
    /\ values' = {} /\ marked' = {} /\ hidden' = {} /\ touched' = {}
    /\ UNCHANGED <<serverVars, row>>

(* The form arrives: the select is initialised empty and value() adds the   *)
(* roles of the row, except those that are not options.                     *)
OpenForm ==
    /\ row # {}
    /\ ~popup /\ popup' = TRUE
    /\ loaded' = row
    /\ options' = live
    /\ values' = row \cap live
    /\ marked' = values' /\ hidden' = values' /\ touched' = {}
    /\ UNCHANGED <<serverVars, row>>

(* handlerLabel, for several options in a row: those in on are added, those *)
(* in off are removed, and commonHanler writes the hidden input.            *)
HandleLabels(on, off) ==
    /\ popup
    /\ marked' = (marked \cup on) \ off
    /\ values' = (values \cup on) \ off
    /\ hidden' = values'
    /\ touched' = touched \cup on \cup off
    /\ UNCHANGED <<serverVars, row, popup, loaded, options>>

(* A click on an option, or on the cross of its label. *)
ClickOption(r) ==
    /\ r \in options
    /\ IF r \in marked THEN HandleLabels({}, {r}) ELSE HandleLabels({r}, {})

SelectAll == HandleLabels(options \ marked, {})

RemoveAll == HandleLabels({}, values)

ReverseAll == HandleLabels(options \ marked, options \cap marked)

ClosePopup == popup /\ NoForm /\ UNCHANGED <<serverVars, row>>

(* The submit handler and UserServiceImpl.update, which deletes the roles   *)
(* of the user and inserts what was posted; finish reloads the table later. *)
(* A form without a role does not pass lay-verify, one with Super is        *)
(* refused.                                                                 *)
Save ==
    /\ popup /\ hidden # {} /\ Super \notin hidden
    /\ granted' = hidden
    /\ NoForm
    /\ UNCHANGED <<live, row>>

PickNext ==
    \/ \E r \in Roles : DeleteRole(r) \/ ClickOption(r)
    \/ \E S \in SUBSET Roles : OtherSaves(S)
    \/ Reload \/ TableGone \/ OpenForm \/ SelectAll \/ RemoveAll \/ ReverseAll
    \/ ClosePopup \/ Save

PickSpec == PickInit /\ [][PickNext]_roleVars
-----------------------------------------------------------------------------
(* The select keeps its selection three times: its values, the marks in the *)
(* list, and the input that is posted.                                      *)
SelectionAgrees == values = marked /\ values = hidden

(* Saving a user changes the roles the administrator switched and no other  *)
(* role of the list, if the roles are still those the form was opened with. *)
(* Without the condition it does not hold: what another administrator saved *)
(* in between is overwritten; and roles that are not in the list (deleted   *)
(* ones) are dropped in any case.                                           *)
SaveKeepsUntouched ==
    [][Save /\ granted = loaded =>
          granted' \cap (options \ touched) = granted \cap (options \ touched)]_roleVars
=============================================================================
