----------------------------- MODULE ConsoleProofs -----------------------------
(***************************************************************************)
(* Proofs about TreeTable, RolePicker and Console, for any sets of files,  *)
(* rows and roles, any parents (cycles and missing ones included) and any  *)
(* number of views.                                                        *)
(*                                                                         *)
(* The window as a whole behaves, seen from each of its three pages, as    *)
(* that page's own specification allows (ConsoleKeepsPages): what is proved*)
(* of the pages alone holds in the window, where the router replaces the   *)
(* body below them.                                                        *)
(***************************************************************************)
EXTENDS Console, UploadPageProofs, TLAPS

consoleVars == <<navVars, uploadVars, treeVars, roleVars>>

-----------------------------------------------------------------------------
(* The tree of authorities.  What the clicks keep is a local matter         *)
(* (LocalInv): a row is shown when its parent is open, and what is open is  *)
(* itself shown.  That everything above a shown row is open follows,        *)
(* because the rows that are not shown are closed under "child of".         *)

LocalInv ==
    /\ shown = {r \in Placed(parent) : parent[r] = Root \/ parent[r] \in open}
    /\ open \subseteq shown \cap Dirs(parent)

TreeInv == parent \in Parents /\ LocalInv

-----------------------------------------------------------------------------
(* What a recursion reaches is closed, and is the least closed set.         *)

LEMMA ReachedIsClosed ==
  ASSUME NEW p, NEW S \in SUBSET Rows, NEW T
  PROVE  Closed(p, S, T, Reached(p, S, T))
BY DEF Closed, Reached, Children

LEMMA ReachedIsLeast ==
  ASSUME NEW p, NEW S, NEW T, NEW X \in SUBSET Rows, Closed(p, S, T, X)
  PROVE  Reached(p, S, T) \subseteq X
BY DEF Reached

LEMMA ReachedIsRows ==
  ASSUME NEW p, NEW S, NEW T
  PROVE  Reached(p, S, T) \subseteq Rows
BY DEF Reached

(* A row in the table hangs on the root or on another row in the table.     *)
LEMMA PlacedBelowPlaced ==
  ASSUME NEW p, NEW r \in Placed(p)
  PROVE  r \in Rows /\ (p[r] = Root \/ p[r] \in Dirs(p))
<1> DEFINE X == {x \in Placed(p) : p[x] = Root \/ p[x] \in Placed(p)}
<1>1. Placed(p) \subseteq Rows /\ Children(p, {Root}) \in SUBSET Rows
  BY ReachedIsRows DEF Placed, Children
<1>2. Closed(p, Children(p, {Root}), Rows, Placed(p))
  BY <1>1, ReachedIsClosed DEF Placed
<1>3. Closed(p, Children(p, {Root}), Rows, X)
  BY <1>2 DEF Closed, Children
<1>4. Placed(p) \subseteq X
  BY <1>1, <1>3, ReachedIsLeast DEF Placed
<1> QED BY <1>1, <1>4 DEF Dirs, Children

LEMMA ChildrenArePlaced ==
  ASSUME NEW p, NEW r \in Placed(p)
  PROVE  Children(p, {r}) \subseteq Placed(p)
<1>1. Closed(p, Children(p, {Root}), Rows, Placed(p))
  BY ReachedIsClosed DEF Placed, Children
<1> QED BY <1>1 DEF Closed, Children

(* An empty list gives an empty table. *)
LEMMA NothingPlaced ==
  ASSUME NEW p, p = [r \in Rows |-> Absent]
  PROVE  p \in Parents /\ Placed(p) = {} /\ Dirs(p) = {}
<1>1. Closed(p, Children(p, {Root}), Rows, {})
  BY TreeAssumption DEF Closed, Children
<1>2. Placed(p) = {}
  BY <1>1, ReachedIsLeast DEF Placed
<1> QED BY <1>2 DEF Parents, Dirs

-----------------------------------------------------------------------------
LEMMA RenderKeeps ==
  ASSUME Render
  PROVE  TreeInv'
<1>1. parent' \in Parents /\ shown' = Placed(parent') /\ open' = Dirs(parent')
  BY DEF Render
<1>2. Dirs(parent') \subseteq Placed(parent')
  BY DEF Dirs
<1> QED BY <1>1, <1>2, PlacedBelowPlaced DEF TreeInv, LocalInv

(* A click that closes r closes and hides what was clicked, and leaves the  *)
(* rest below open directories.                                             *)
LEMMA CloseDirKeeps ==
  ASSUME TreeInv, NEW r \in Rows, Toggle(r), r \in open
  PROVE  TreeInv'
<1> DEFINE C == Clicked(r)
<1>1. /\ open' = open \ C
      /\ shown' = shown \ Children(parent, C)
      /\ parent' = parent
  BY DEF Toggle
<1>2. open \subseteq Rows /\ C \subseteq Rows
  BY PlacedBelowPlaced, ReachedIsRows DEF TreeInv, LocalInv, Dirs, Clicked
<1>3. Closed(parent, {r}, open, C)
  BY ReachedIsClosed DEF Clicked
<1> HIDE DEF C
<1>4. shown' = {x \in Placed(parent) : parent[x] = Root \/ parent[x] \in open'}
  <2>1. \A x \in Placed(parent) : x \in Rows
    BY PlacedBelowPlaced
  <2> QED BY <1>1, <1>2, <2>1, TreeAssumption DEF TreeInv, LocalInv, Children
<1>5. open' \subseteq shown' \cap Dirs(parent)
  BY <1>1, <1>2, <1>3 DEF TreeInv, LocalInv, Closed, Children
<1> QED BY <1>1, <1>4, <1>5 DEF TreeInv, LocalInv

LEMMA OpenDirKeeps ==
  ASSUME TreeInv, NEW r \in Rows, Toggle(r), r \notin open
  PROVE  TreeInv'
<1>1. /\ r \in shown \cap Dirs(parent)
      /\ open' = open \cup {r}
      /\ shown' = shown \cup Children(parent, {r})
      /\ parent' = parent
  BY DEF Toggle
<1>2. Children(parent, {r}) \subseteq Placed(parent)
  BY <1>1, ChildrenArePlaced DEF Dirs
<1>3. \A x \in Placed(parent) : x \in Rows
  BY PlacedBelowPlaced
<1> QED BY <1>1, <1>2, <1>3 DEF TreeInv, LocalInv, Children

(* A search that finds something shows every row of the table. *)
LEMMA ExpandShowsAll ==
  ASSUME TreeInv, ExpandAll
  PROVE  shown' = Placed(parent)
<1>1. /\ open' = Dirs(parent)
      /\ shown' = shown \cup Children(parent, Dirs(parent) \ open)
  BY DEF ExpandAll
<1>2. Children(parent, Dirs(parent)) \subseteq Placed(parent)
  BY ChildrenArePlaced DEF Dirs, Children
<1>3. \A r \in Placed(parent) :
          r \in Rows /\ (parent[r] = Root \/ parent[r] \in Dirs(parent))
  BY PlacedBelowPlaced
<1> QED BY <1>1, <1>2, <1>3 DEF TreeInv, LocalInv, Children

LEMMA ExpandKeeps ==
  ASSUME TreeInv, ExpandAll
  PROVE  TreeInv'
<1>1. shown' = Placed(parent) /\ open' = Dirs(parent) /\ parent' = parent
  BY ExpandShowsAll DEF ExpandAll
<1>2. Dirs(parent) \subseteq Placed(parent)
  BY DEF Dirs
<1> QED BY <1>1, <1>2, PlacedBelowPlaced DEF TreeInv, LocalInv

(* What is shown and open agrees with the parents, after any sequence of    *)
(* renders, clicks and searches.                                            *)
THEOREM TreeInvariant == TreeSpec => []TreeInv
<1>1. TreeInit => TreeInv
  BY NothingPlaced DEF TreeInit, TreeInv, LocalInv
<1>2. TreeInv /\ [TreeNext]_treeVars => TreeInv'
  <2> SUFFICES ASSUME TreeInv, [TreeNext]_treeVars PROVE TreeInv'
    OBVIOUS
  <2>1. CASE Render
    BY <2>1, RenderKeeps
  <2>2. CASE ExpandAll
    BY <2>2, ExpandKeeps
  <2>3. ASSUME NEW r \in Rows, Toggle(r) PROVE TreeInv'
    BY <2>3, CloseDirKeeps, OpenDirKeeps
  <2>4. CASE UNCHANGED treeVars
    BY <2>4 DEF treeVars, TreeInv, LocalInv
  <2> QED BY <2>1, <2>2, <2>3, <2>4 DEF TreeNext
<1> QED BY <1>1, <1>2, PTL DEF TreeSpec

(* Rows shown are rows of the table, open ones are directories of it.       *)
THEOREM TreeTypeCorrect == TreeSpec => []TreeTypeOK
<1>1. TreeInv => TreeTypeOK
  BY DEF TreeInv, LocalInv, TreeTypeOK
<1> QED BY <1>1, TreeInvariant, PTL

LEMMA ShownHaveOpenAncestors ==
  ASSUME TreeInv, NEW r \in shown
  PROVE  Ancestors(parent, r) \subseteq open
<1> SUFFICES ASSUME NEW d \in Rows, r \in Reached(parent, Children(parent, {d}), Rows),
                    d \notin open
             PROVE  FALSE
  BY DEF Ancestors
<1>1. Closed(parent, Children(parent, {d}), Rows, Rows \ shown)
  <2>1. \A x \in Rows : parent[x] \in Rows \ open => x \notin shown
    BY TreeAssumption DEF TreeInv, LocalInv
  <2>2. \A x \in Rows \ shown : x \notin open
    BY DEF TreeInv, LocalInv
  <2> QED BY <2>1, <2>2 DEF Closed, Children
<1> QED BY <1>1, ReachedIsLeast

LEMMA OpenAncestorsShow ==
  ASSUME TreeInv, NEW r \in Placed(parent), Ancestors(parent, r) \subseteq open
  PROVE  r \in shown
<1>1. r \in Rows /\ (parent[r] = Root \/ parent[r] \in Rows)
  BY PlacedBelowPlaced DEF Dirs
<1>2. CASE parent[r] \in Rows
  <2>1. Closed(parent, Children(parent, {parent[r]}), Rows,
               Reached(parent, Children(parent, {parent[r]}), Rows))
    BY ReachedIsClosed DEF Children
  <2>2. parent[r] \in Ancestors(parent, r)
    BY <1>1, <1>2, <2>1 DEF Ancestors, Closed, Children
  <2> QED BY <2>2 DEF TreeInv, LocalInv
<1> QED BY <1>1, <1>2 DEF TreeInv, LocalInv

(* A row of the table can be seen exactly when every directory above it is  *)
(* open, at any depth.                                                      *)
THEOREM TreeVisible == TreeSpec => []VisibleIffAncestorsOpen
<1>1. TreeInv => VisibleIffAncestorsOpen
  BY ShownHaveOpenAncestors, OpenAncestorsShow
  DEF TreeInv, LocalInv, VisibleIffAncestorsOpen
<1> QED BY <1>1, TreeInvariant, PTL

-----------------------------------------------------------------------------
(* The role form.                                                           *)

(* The three copies of the selection agree, and of the roles nobody touched *)
(* those are selected that the form was opened with.                        *)
PickInv ==
    /\ PickTypeOK
    /\ SelectionAgrees
    /\ hidden \cap (options \ touched) = loaded \cap (options \ touched)

LEMMA LabelsKeep ==
  ASSUME PickInv, NEW on \in SUBSET Roles, NEW off \in SUBSET Roles,
         HandleLabels(on, off)
  PROVE  PickInv'
<1>1. UNCHANGED <<live, granted, row, popup, loaded, options>>
  BY DEF HandleLabels, serverVars
<1>2. /\ hidden' = (hidden \cup on) \ off /\ values' = hidden' /\ marked' = hidden'
      /\ touched' = touched \cup on \cup off
  BY DEF HandleLabels, PickInv, SelectionAgrees
<1>3. PickTypeOK'
  BY <1>1, <1>2 DEF PickInv, PickTypeOK
<1>4. hidden' \cap (options \ touched') = loaded \cap (options \ touched')
  BY <1>2 DEF PickInv
<1> QED BY <1>1, <1>2, <1>3, <1>4 DEF PickInv, SelectionAgrees

LEMMA PickNextKeeps == PickInv /\ [PickNext]_roleVars => PickInv'
<1> SUFFICES ASSUME PickInv, [PickNext]_roleVars PROVE PickInv'
  OBVIOUS
<1>1. CASE \/ \E r \in Roles : DeleteRole(r)
           \/ \E S \in SUBSET Roles : OtherSaves(S)
           \/ Reload \/ TableGone
           \/ UNCHANGED roleVars
  BY <1>1 DEF DeleteRole, OtherSaves, Reload, TableGone, roleVars, serverVars, pickVars,
     PickInv, PickTypeOK, SelectionAgrees
<1>2. CASE OpenForm
  BY <1>2 DEF OpenForm, serverVars, PickInv, PickTypeOK, SelectionAgrees
<1>3. CASE ClosePopup \/ Save
  BY <1>3 DEF ClosePopup, Save, NoForm, serverVars, PickInv, PickTypeOK, SelectionAgrees
<1>4. CASE \/ \E r \in Roles : ClickOption(r)
           \/ SelectAll \/ RemoveAll \/ ReverseAll
  <2>1. /\ options \in SUBSET Roles /\ marked \in SUBSET Roles
        /\ values \in SUBSET Roles
    BY DEF PickInv, PickTypeOK
  <2>2. ASSUME NEW r \in Roles, ClickOption(r) PROVE PickInv'
    <3>1. HandleLabels({}, {r}) \/ HandleLabels({r}, {})
      BY <2>2 DEF ClickOption
    <3>2. {} \in SUBSET Roles /\ {r} \in SUBSET Roles
      OBVIOUS
    <3> QED BY <3>1, <3>2, LabelsKeep
  <2>3. {} \in SUBSET Roles /\ options \ marked \in SUBSET Roles
        /\ options \cap marked \in SUBSET Roles
    BY <2>1
  <2>4. SelectAll \/ RemoveAll \/ ReverseAll => PickInv'
    BY <2>1, <2>3, LabelsKeep DEF SelectAll, RemoveAll, ReverseAll
  <2> QED BY <1>4, <2>2, <2>4
<1> QED BY <1>1, <1>2, <1>3, <1>4 DEF PickNext

(* The values, the marks and the posted input are one selection.            *)
THEOREM SelectionIsOne == PickSpec => []PickInv
<1>1. PickInit => PickInv
  BY DEF PickInit, PickInv, PickTypeOK, SelectionAgrees
<1> QED BY <1>1, PickNextKeeps, PTL DEF PickSpec

(* Saving a user leaves alone every listed role that was not switched, when *)
(* nobody else changed the user meanwhile.                                  *)
THEOREM UntouchedRolesStay == PickSpec => SaveKeepsUntouched
<1>1. PickInv /\ [PickNext]_roleVars =>
          [Save /\ granted = loaded =>
              granted' \cap (options \ touched) = granted \cap (options \ touched)]_roleVars
  BY DEF Save, PickInv
<1> QED BY <1>1, SelectionIsOne, PTL DEF PickSpec, SaveKeepsUntouched

-----------------------------------------------------------------------------
(* The router.                                                              *)

(* The icon has a request behind it, or one that was answered in JSON; and  *)
(* the reply to the latest request is what the body shows.                  *)
NavInv ==
    /\ NavTypeOK
    /\ loading => waiting # {} \/ refused
    /\ ~refused /\ ~overtaken /\ Len(asked) \notin waiting =>
           body \in {0, Len(asked)}

LEMMA AskedLength ==
  ASSUME NavTypeOK
  PROVE  Len(asked) \in Nat \ {0} /\ DOMAIN asked = 1..Len(asked)
BY DEF NavTypeOK

LEMMA LoadViewKeeps ==
  ASSUME NavInv, NEW menu \in Menus, LoadView(menu)
  PROVE  NavInv'
<1>1. /\ asked' = Append(asked, menu)
      /\ waiting' = waiting \cup {Len(asked')}
      /\ loading' = TRUE
      /\ UNCHANGED <<body, refused, overtaken>>
  BY DEF LoadView
<1>2. /\ asked' \in Seq(Menus) /\ asked' # <<>>
      /\ Len(asked') = Len(asked) + 1 /\ DOMAIN asked' = 1..(Len(asked) + 1)
  BY <1>1 DEF NavInv, NavTypeOK
<1>3. NavTypeOK'
  BY <1>1, <1>2, AskedLength DEF NavInv, NavTypeOK
<1> QED BY <1>1, <1>3 DEF NavInv

LEMMA ReplyPageKeeps ==
  ASSUME NavInv, NEW i \in waiting, ReplyPage(i)
  PROVE  NavInv'
<1>1. /\ waiting' = waiting \ {i} /\ body' \in {i, 0} /\ loading' = FALSE
      /\ overtaken' = (overtaken \/ \E j \in DOMAIN asked \ waiting : j > i)
      /\ UNCHANGED <<asked, refused>>
  BY DEF ReplyPage, Answered, Show
<1>2. i \in 1..Len(asked) /\ Len(asked) \in Nat \ {0} /\ DOMAIN asked = 1..Len(asked)
  BY AskedLength DEF NavInv, NavTypeOK
<1>3. NavTypeOK'
  <2>1. overtaken' \in BOOLEAN
    BY <1>1 DEF NavInv, NavTypeOK
  <2>2. body' \in 0..Len(asked)
    BY <1>1, <1>2
  <2> QED BY <1>1, <2>1, <2>2 DEF NavInv, NavTypeOK
<1>4. ASSUME ~overtaken', Len(asked) \notin waiting'
      PROVE  body' \in {0, Len(asked)}
  <2>1. ~(Len(asked) \in DOMAIN asked \ waiting /\ Len(asked) > i)
    BY <1>1, <1>4
  <2>2. Len(asked) \in waiting
    BY <1>2, <2>1
  <2>3. Len(asked) = i
    BY <1>1, <1>4, <2>2
  <2> QED BY <1>1, <2>3
<1> QED BY <1>1, <1>3, <1>4 DEF NavInv

LEMMA ReplyJsonKeeps ==
  ASSUME NavInv, NEW i \in waiting, ReplyJson(i)
  PROVE  NavInv'
BY DEF ReplyJson, Answered, NavInv, NavTypeOK

LEMMA NavInvariant == ConsoleSpec => []NavInv
<1>1. ConsoleInit => NavInv
  <2> SUFFICES ASSUME NavInit PROVE NavInv
    BY DEF ConsoleInit
  <2>1. asked \in Seq(Menus) /\ Len(asked) = 1 /\ asked # <<>> /\ 1 \in DOMAIN asked
    BY DEF NavInit, Menus
  <2>2. waiting \subseteq DOMAIN asked /\ body \in 0..Len(asked)
    BY <2>1 DEF NavInit
  <2> QED BY <2>1, <2>2 DEF NavInit, NavInv, NavTypeOK
<1>2. NavInv /\ [ConsoleNext]_consoleVars => NavInv'
  <2> SUFFICES ASSUME NavInv, [ConsoleNext]_consoleVars PROVE NavInv'
    OBVIOUS
  <2>1. CASE MainStep
    <3>1. View \in Menus
      BY AskedLength DEF View, NavInv, NavTypeOK
    <3> QED BY <2>1, <3>1, LoadViewKeeps, ReplyPageKeeps, ReplyJsonKeeps
            DEF MainStep, Navigate, Refresh
  <2>2. CASE UNCHANGED navVars
    BY <2>2 DEF navVars, NavInv, NavTypeOK
  <2> QED BY <2>1, <2>2 DEF ConsoleNext, UploadStep, TreeStep, RoleStep, consoleVars
<1> QED BY <1>1, <1>2, PTL DEF ConsoleSpec, consoleVars

(* With every request answered, in order and with a page, the body shows    *)
(* the page the menu points at and no icon is left.                         *)
THEOREM BodySettles == ConsoleSpec => []SettledBodyIsView
<1>1. NavInv => SettledBodyIsView
  BY DEF NavInv, SettledBodyIsView
<1> QED BY <1>1, NavInvariant, PTL

-----------------------------------------------------------------------------
(* The window implements the specification of each page: what the router    *)
(* does to the table of authorities is a render of an empty list, and it    *)
(* leaves the dialogs alone.                                                *)
THEOREM ConsoleKeepsPages == ConsoleSpec => UploadSpec /\ TreeSpec /\ PickSpec
<1>1. ConsoleInit => UploadInit /\ TreeInit /\ PickInit
  BY DEF ConsoleInit
<1>2. [ConsoleNext]_consoleVars => [UploadNext]_uploadVars
  BY DEF ConsoleNext, MainStep, UploadStep, TreeStep, RoleStep, UploadNext, consoleVars
<1>3. [ConsoleNext]_consoleVars => [TreeNext]_treeVars
  <2>1. TreeGone => Render
    BY NothingPlaced DEF TreeGone, Render
  <2> QED BY <2>1
          DEF ConsoleNext, MainStep, UploadStep, TreeStep, RoleStep, TreeNext, consoleVars
<1>4. [ConsoleNext]_consoleVars => [PickNext]_roleVars
  BY DEF ConsoleNext, MainStep, UploadStep, TreeStep, RoleStep, PickNext, consoleVars
<1> QED BY <1>1, <1>2, <1>3, <1>4, PTL
        DEF ConsoleSpec, UploadSpec, TreeSpec, PickSpec, consoleVars

(* Every variable of the window keeps its type. *)
THEOREM ConsoleTypeCorrect == ConsoleSpec => []ConsoleTypeOK
<1>1. NavInv => NavTypeOK
  BY DEF NavInv
<1>2. PickInv => PickTypeOK
  BY DEF PickInv
<1>3. NavTypeOK /\ UploadTypeOK /\ TreeTypeOK /\ PickTypeOK => ConsoleTypeOK
  BY DEF ConsoleTypeOK
<1> QED BY <1>1, <1>2, <1>3, ConsoleKeepsPages, NavInvariant, UploadTypeCorrect,
           TreeTypeCorrect, SelectionIsOne, PTL

(* What the pages promise, in the window: the submit button, the limit and  *)
(* the queue of the upload dialog, the tree, and the roles that are saved.  *)
THEOREM PagesHoldInConsole ==
    ConsoleSpec =>
        /\ [](SubmitWaitsForUpload /\ QueuedWaitsForReason /\ OneUploadPerDialog)
        /\ []VisibleIffAncestorsOpen
        /\ SaveKeepsUntouched
BY ConsoleKeepsPages, SubmitIsHeldBack, NoLostWakeUp, LimitHolds, TreeVisible,
   UntouchedRolesStay, PTL
=============================================================================
