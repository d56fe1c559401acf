------------------------------ MODULE TreeTable ------------------------------
(***************************************************************************)
(* The tree of authorities on the page system/authorities: treetable.js as *)
(* authorities.html configures it (treeSpid -1, neither treeLinkage nor    *)
(* treeDefaultClose), and the search button, which opens every row.        *)
(*                                                                         *)
(* The loops and recursions of treetable.js run to their end before the    *)
(* next event.  Here one set says what such a run reaches; MCConsole       *)
(* executes the code's loops and compares.                                 *)
(***************************************************************************)
EXTENDS Integers, FiniteSets

CONSTANTS
    Rows,   \* authority ids
    Root,   \* treeSpid, the parent of the rows at the top
    Absent  \* in the place of a parent: the id is not in the list

ASSUME TreeAssumption == Root \notin Rows /\ Absent \notin Rows \cup {Root}

VARIABLES
    parent,  \* parentId of each row in the list the table was rendered from
    shown,   \* rows of the table that are not hidden
    open     \* directories whose icon has the class "open"

treeVars == <<parent, shown, open>>

Parents == [Rows -> Rows \cup {Root, Absent}]

Children(p, X) == {r \in Rows : p[r] \in X}

(* What a recursion reaches that starts with the rows S and goes from a row *)
(* on to those of its children that are in T: the least such set.           *)
Closed(p, S, T, X) == S \subseteq X /\ Children(p, X) \cap T \subseteq X

Reached(p, S, T) ==
    {r \in Rows : \A X \in SUBSET Rows : Closed(p, S, T, X) => r \in X}

(* sort in render: rows that do not hang on the root, below a parent that   *)
(* was deleted or in a cycle, get no place in the table.                    *)
Placed(p) == Reached(p, Children(p, {Root}), Rows)

(* isParent, the icon of a directory. *)
Dirs(p) == {r \in Placed(p) : Children(p, {r}) # {}}

TreeTypeOK ==
    /\ parent \in Parents
    /\ shown \subseteq Placed(parent)
    /\ open \subseteq Dirs(parent)

(* No table, or an empty one. *)
TreeInit ==
    /\ parent = [r \in Rows |-> Absent]
    /\ shown = {} /\ open = {}

TreeGone ==
    /\ parent' = [r \in Rows |-> Absent]
    /\ shown' = {} /\ open' = {}

(* The reply to getJSON in render: whatever t_authorities held then, as     *)
(* several renders may be on their way.  Every directory is open.           *)
Render ==
    \E p \in Parents : /\ parent' = p
                       /\ shown' = Placed(p)
                       /\ open' = Dirs(p)

(* Mutant: closing a directory leaves the directories below it open. *)
ClickedChildren(r) == {r}

(* A click that closes r clicks the open directories among its children,    *)
(* and so on.                                                               *)
Clicked(r) == Reached(parent, {r}, open)

(* toggleRows; without treeLinkage opening shows the children, no more. *)
Toggle(r) ==
    /\ r \in shown \cap Dirs(parent)
    /\ IF r \in open
       THEN /\ open' = open \ Clicked(r)
            /\ shown' = shown \ Children(parent, Clicked(r))
       ELSE /\ open' = open \cup {r}
            /\ shown' = shown \cup Children(parent, {r})
    /\ UNCHANGED parent

(* Mutant: only the directories that can be seen are opened. *)
ExpandShown ==
    /\ open' = open \cup (Dirs(parent) \cap shown)
    /\ shown' = shown \cup Children(parent, (Dirs(parent) \cap shown) \ open)
    /\ UNCHANGED parent

(* expandAll, when the search found something: a click on every closed      *)
(* directory, hidden or not.                                                *)
ExpandAll ==
    /\ open' = Dirs(parent)
    /\ shown' = shown \cup Children(parent, Dirs(parent) \ open)
    /\ UNCHANGED parent

TreeNext == Render \/ ExpandAll \/ \E r \in Rows : Toggle(r)

TreeSpec == TreeInit /\ [][TreeNext]_treeVars
-----------------------------------------------------------------------------
Ancestors(p, r) == {d \in Rows : r \in Reached(p, Children(p, {d}), Rows)}

(* toggleRows hides and shows single rows and flips the icons of others: a  *)
(* row can be seen exactly when all the directories above it are open,      *)
(* after any sequence of clicks, searches and renders.                      *)
VisibleIffAncestorsOpen ==
    shown = {r \in Placed(parent) : Ancestors(parent, r) \subseteq open}
=============================================================================
