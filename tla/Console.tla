------------------------------- MODULE Console -------------------------------
(***************************************************************************)
(* The browser window of the certificate application: the main page        *)
(* (index.html, pageTabs off) and its router (q.js, index.js, admin.js),   *)
(* with the upload dialog (UploadPage), the tree of authorities (TreeTable)*)
(* and the role form (RolePicker) on three of its pages.                   *)
(*                                                                         *)
(* Every change of the address asks the server for a page; replies come in *)
(* any order and replace the body of the main page, under whatever dialog  *)
(* is open.                                                                *)
(***************************************************************************)
EXTENDS UploadPage, TreeTable, RolePicker, Sequences

CONSTANT MaxViews  \* bound: pages asked for

Menus == {"cert_info", "system_authorities", "system_user"}

VARIABLES
    asked,      \* history: the pages asked for; the last one is Q.lash
    waiting,    \* requests without a reply
    body,       \* the request whose page the body shows; 0: none
    loading,    \* the loading icon is shown
    refused,    \* history: some request was answered in JSON
    overtaken   \* history: a reply came after that of a later request

navVars == <<asked, waiting, body, loading, refused, overtaken>>

NavTypeOK ==
    /\ asked \in Seq(Menus) /\ asked # <<>>
    /\ waiting \subseteq DOMAIN asked
    /\ body \in 0..Len(asked)
    /\ loading \in BOOLEAN
    /\ refused \in BOOLEAN
    /\ overtaken \in BOOLEAN

(* initRouter: Q.init calls the handler of the first page. *)
NavInit ==
    /\ asked = <<"cert_info">>
    /\ waiting = {1}
    /\ body = 0
    /\ loading = TRUE
    /\ refused = FALSE /\ overtaken = FALSE

View == asked[Len(asked)]

OnPage(menu) == body # 0 /\ asked[body] = menu

-----------------------------------------------------------------------------
(* loadView shows the icon, asks for the page and activates the menu entry. *)
LoadView(menu) ==
    /\ Len(asked) < MaxViews
    /\ asked' = Append(asked, menu)
    /\ waiting' = waiting \cup {Len(asked')}
    /\ loading' = TRUE
    /\ UNCHANGED <<body, refused, overtaken>>

(* The address changes: a menu entry, or the back button, which no dialog   *)
(* blocks.                                                                  *)
Navigate(menu) == menu # View /\ LoadView(menu)

(* Dialogs are opened from their page, one at a time: they cover the main   *)
(* page.                                                                    *)
NoDialog == dialog = "closed" /\ ~popup

(* The refresh button of the header asks for the same page again. *)
Refresh == NoDialog /\ LoadView(View)

(* Mutant: the icons are not removed. *)
ShowKeepsLoading(i, b) ==
    /\ body' = b
    /\ overtaken' = (overtaken \/ \E j \in DOMAIN asked \ waiting : j > i)
    /\ UNCHANGED loading

(* The success function of loadView: the whole body is replaced, every icon *)
(* with it.                                                                 *)
Show(i, b) ==
    /\ body' = b
    /\ overtaken' = (overtaken \/ \E j \in DOMAIN asked \ waiting : j > i)
    /\ loading' = FALSE

Answered(i) == i \in waiting /\ waiting' = waiting \ {i}

(* The page; or, after a network or server error, an object in the place of *)
(* the HTML, which empties the body.                                        *)
ReplyPage(i) ==
    /\ Answered(i)
    /\ \E b \in {i, 0} : Show(i, b)
    /\ UNCHANGED <<asked, refused>>

(* JSON instead of a page (MyExceptionHandler, when a right is missing):    *)
(* the test for a missing right names a variable that does not exist, and   *)
(* the function ends there.                                                 *)
ReplyJson(i) ==
    /\ Answered(i)
    /\ refused' = TRUE
    /\ UNCHANGED <<asked, body, loading, overtaken>>

-----------------------------------------------------------------------------
ConsoleInit == NavInit /\ UploadInit /\ TreeInit /\ PickInit

(* What a dialog holds outlives the page below it; tables do not. *)
MainStep ==
    /\ \/ /\ \/ \E menu \in Menus : Navigate(menu)
             \/ Refresh
             \/ \E i \in waiting : ReplyJson(i)
          /\ UNCHANGED <<treeVars, roleVars>>
       \/ /\ \E i \in waiting : ReplyPage(i)
          /\ TreeGone /\ TableGone
    /\ UNCHANGED uploadVars

UploadStep ==
    /\ \/ NoDialog /\ OnPage("cert_info") /\ OpenDialog
       \/ dialog # "closed" /\ UploadNext
    /\ UNCHANGED <<navVars, treeVars, roleVars>>

(* Also the reply that renders the table waits until no dialog is open. *)
TreeStep ==
    /\ NoDialog /\ OnPage("system_authorities")
    /\ TreeNext
    /\ UNCHANGED <<navVars, uploadVars, roleVars>>

(* What other administrators do matters from the first look at the page on. *)
RoleStep ==
    /\ popup \/ (NoDialog /\ OnPage("system_user"))
    /\ PickNext
    /\ row' # row => OnPage("system_user")
    /\ UNCHANGED <<navVars, uploadVars, treeVars>>

ConsoleNext == MainStep \/ UploadStep \/ TreeStep \/ RoleStep

ConsoleSpec ==
    ConsoleInit /\ [][ConsoleNext]_<<navVars, uploadVars, treeVars, roleVars>>
-----------------------------------------------------------------------------
ConsoleTypeOK == NavTypeOK /\ UploadTypeOK /\ TreeTypeOK /\ PickTypeOK

(* With nothing on its way the body shows the page the menu points at, and  *)
(* no icon says otherwise, unless replies came in another order than their  *)
(* requests (the body keeps the page of the older one) or one was answered  *)
(* in JSON (its icon stays for good, without a message).                    *)
SettledBodyIsView ==
    waiting = {} /\ ~refused /\ ~overtaken =>
        ~loading /\ body \in {0, Len(asked)}
=============================================================================
