----------------------------- MODULE UploadPage -----------------------------
(***************************************************************************)
(* The dialog in which a user uploads the file of a certificate            *)
(* (certinfo_form.html, a frame) and the queue it configures, the jQuery   *)
(* plugin UploadiFive (jquery.uploadifive.js): one upload, one item,       *)
(* automatic start, files from the file chooser or dropped on the queue.   *)
(* The user, the replies of the server and the form interleave.            *)
(*                                                                         *)
(* Of several waiting files the plugin sends the one added first; the      *)
(* order is left out, any of them may be next.                             *)
(***************************************************************************)
EXTENDS Integers, FiniteSets

CONSTANTS
    Files,   \* File objects of the browser; every selection makes new ones
    NameOf,  \* their names
    NoFile   \* an empty form field

ASSUME UploadAssumption == IsFiniteSet(Files) /\ NoFile \notin Files

(* The settings of certinfo_form.html. *)
UploadLimit == 1
QueueSizeLimit == 1

VARIABLES
    dialog,     \* stage of the dialog
    st,         \* stage of each file
    inputs,     \* files that $data.inputs can list
    count,      \* queue.count
    current,    \* uploads.current
    uploaded,   \* uploads.count
    fileId,     \* the hidden field of the form: the id the server gave
    canSubmit,  \* the submit button is enabled
    canSelect   \* the button of the file chooser is shown

queueVars == <<st, inputs, count, current, uploaded>>
uploadVars == <<dialog, queueVars, fileId, canSubmit, canSelect>>

Items == {"queued", "uploading", "failed", "too large", "unread", "complete"}

(* A file without item: cancelled, cancelled after it failed, cancelled     *)
(* after it was complete.                                                   *)
Removed == {"cancelled", "given up", "taken back"}

UploadTypeOK ==
    /\ dialog \in {"closed", "open", "posting"}
    /\ st \in [Files -> {"new"} \cup Items \cup Removed]
    /\ inputs \subseteq Files
    /\ count \in Int
    /\ current \in 0..UploadLimit
    /\ uploaded \in 0..UploadLimit
    /\ fileId \in Files \cup {NoFile}
    /\ canSubmit \in BOOLEAN
    /\ canSelect \in BOOLEAN

UploadInit ==
    /\ dialog = "closed"
    /\ st = [f \in Files |-> "new"]
    /\ inputs = {}
    /\ count = 0 /\ current = 0 /\ uploaded = 0
    /\ fileId = NoFile
    /\ canSubmit = TRUE /\ canSelect = TRUE

(* The frame is destroyed, with its requests: the next one starts afresh. *)
Destroy ==
    /\ dialog' = "closed"
    /\ st' = [f \in Files |-> "new"]
    /\ inputs' = {}
    /\ count' = 0 /\ current' = 0 /\ uploaded' = 0
    /\ fileId' = NoFile
    /\ canSubmit' = TRUE /\ canSelect' = TRUE

InStage(S) == {f \in Files : st[f] \in S}

-----------------------------------------------------------------------------
(* Mutant: files that completed are not counted against the limit. *)
RoomBesideRunning(c, n) == c < UploadLimit

Room(c, n) == c + n < UploadLimit

(* Mutant: the page has no onUpload. *)
NoOnUpload == UNCHANGED canSubmit

(* onUpload of the page. *)
OnUpload == canSubmit' = FALSE

(* methods.upload on files in the stages s, with c uploads running and n    *)
(* finished: while the limit leaves room, a waiting file is sent.  After a  *)
(* reply (keepVars, without onUpload) there never is room.                  *)
Upload(s, c, n) ==
    LET waiting == {f \in Files : s[f] = "queued"} IN
    IF Room(c, n)
    THEN /\ OnUpload
         /\ \/ waiting = {} /\ st' = s /\ current' = c
            \/ \E f \in waiting : /\ st' = [s EXCEPT ![f] = "uploading"]
                                  /\ current' = c + 1
    ELSE st' = s /\ current' = c /\ UNCHANGED canSubmit

Without(stage) == CASE stage = "complete" -> "taken back"
                    [] stage \in {"failed", "unread", "given up"} -> "given up"
                    [] OTHER -> "cancelled"

(* removeExistingFile cancels what has the name of a selected file and is   *)
(* not complete.  A file cancelled before is found again: it has no item    *)
(* any more, but onCancel shows the button once more.                       *)
Replaced(S) == {f \in inputs : /\ st[f] \notin {"complete", "taken back"}
                               /\ \E g \in S : NameOf[f] = NameOf[g]}

(* addQueueItem for the files S, of which those in big are over the limit   *)
(* of 5 GB: they get an item with an error and are not counted.             *)
Add(S, big) ==
    LET old == Replaced(S)
        s == [f \in Files |-> IF f \in big THEN "too large"
                              ELSE IF f \in S THEN "queued"
                              ELSE IF f \in old THEN Without(st[f]) ELSE st[f]]
    IN /\ count' = count - Cardinality(old \cap InStage(Items))
                         + Cardinality(S \ big)
       /\ canSelect' = (canSelect \/ old # {})
       /\ Upload(s, current - Cardinality(old \cap InStage({"uploading"})), uploaded)

(* Too many files: an alert, but the automatic upload is called all the same. *)
Refuse ==
    /\ Upload(st, current, uploaded)
    /\ UNCHANGED <<inputs, count, canSelect>>

(* The change event of the file chooser, which gives one file. *)
Select(f, isBig) ==
    /\ dialog = "open" /\ canSelect
    /\ st[f] = "new"
    /\ IF count + 1 > QueueSizeLimit
       THEN Refuse
       ELSE Add({f}, {g \in {f} : isBig}) /\ inputs' = inputs \cup {f}
    /\ UNCHANGED <<dialog, uploaded, fileId>>

(* Files dropped on the queue, which has a height only while it shows an    *)
(* item.  The DataTransfer kept as their input lists no file once the event *)
(* is over.                                                                 *)
Drop(S, big) ==
    /\ dialog = "open" /\ InStage(Items) # {}
    /\ S # {} /\ S \subseteq InStage({"new"})
    /\ IF count + Cardinality(S) > QueueSizeLimit
       THEN Refuse
       ELSE Add(S, big) /\ UNCHANGED inputs
    /\ UNCHANGED <<dialog, uploaded, fileId>>

(* Mutant: a cancelled upload does not start the next one. *)
CancelOnly(f) ==
    /\ dialog = "open" /\ st[f] \in Items
    /\ st' = [st EXCEPT ![f] = Without(@)]
    /\ current' = IF st[f] = "uploading" THEN current - 1 ELSE current
    /\ count' = count - 1
    /\ canSelect' = TRUE
    /\ UNCHANGED <<dialog, inputs, uploaded, fileId, canSubmit>>

(* Mutant: every cancelled file is subtracted from the running uploads. *)
CancelSubtracts(f) ==
    /\ dialog = "open" /\ st[f] \in Items
    /\ Upload([st EXCEPT ![f] = Without(@)], current - 1, uploaded)
    /\ count' = count - 1
    /\ canSelect' = TRUE
    /\ UNCHANGED <<dialog, inputs, uploaded, fileId>>

(* The cross of an item: methods.cancel, removeQueueItem, onCancel.  An     *)
(* item that was not counted is subtracted too, and the field fileId stays. *)
Cancel(f) ==
    /\ dialog = "open" /\ st[f] \in Items
    /\ LET s == [st EXCEPT ![f] = Without(@)] IN
       IF st[f] = "uploading"
       THEN Upload(s, current - 1, uploaded)
       ELSE st' = s /\ UNCHANGED <<current, canSubmit>>
    /\ count' = count - 1
    /\ canSelect' = TRUE
    /\ UNCHANGED <<dialog, inputs, uploaded, fileId>>

-----------------------------------------------------------------------------
(* The reply to an upload; alerts and dialogs of the user hold it back, the *)
(* overlay of a posted form does not.                                       *)
Replied(f, stage) ==
    /\ dialog # "closed"
    /\ st[f] = "uploading"
    /\ st' = [st EXCEPT ![f] = stage]
    /\ UNCHANGED <<dialog, inputs, count>>

(* uploadComplete: counted, and with the limit reached methods.upload may   *)
(* only show an alert.                                                      *)
Completed(f) ==
    /\ Replied(f, "complete")
    /\ uploaded' = uploaded + 1
    /\ current' = current - 1

(* Code 200: the page takes the id. *)
ReplyStored(f) ==
    /\ Completed(f)
    /\ fileId' = f
    /\ canSelect' = FALSE
    /\ canSubmit' = TRUE

(* Another code: nothing was stored, the upload is counted all the same and *)
(* the submit button stays disabled.                                        *)
ReplyRefused(f) ==
    /\ Completed(f)
    /\ UNCHANGED <<fileId, canSelect, canSubmit>>

(* Another HTTP status: $data.error.  The counter of running uploads keeps  *)
(* the failed one, so methods.upload does nothing.                          *)
ReplyError(f) ==
    /\ Replied(f, "failed")
    /\ UNCHANGED <<current, uploaded, fileId, canSelect, canSubmit>>

(* Not JSON (the session has expired and the filter redirected to the home  *)
(* page): JSON.parse throws in onUploadComplete and nothing is counted.     *)
ReplyUnread(f) ==
    /\ Replied(f, "unread")
    /\ UNCHANGED <<current, uploaded, fileId, canSelect, canSubmit>>

-----------------------------------------------------------------------------
(* The form and its frame.                                                  *)

(* showEditModel of certinfo.html. *)
OpenDialog ==
    /\ dialog = "closed" /\ dialog' = "open"
    /\ UNCHANGED <<queueVars, fileId, canSubmit, canSelect>>

(* The submit handler: layer.load covers the dialog until the answer. *)
Submit ==
    /\ dialog = "open" /\ canSubmit
    /\ fileId # NoFile
    /\ dialog' = "posting"
    /\ UNCHANGED <<queueVars, fileId, canSubmit, canSelect>>

(* The server refused: its message is shown and the dialog stays.  Without  *)
(* an answer the overlay stays, $.post has no handler for a failure.        *)
SubmitRefused ==
    /\ dialog = "posting" /\ dialog' = "open"
    /\ UNCHANGED <<queueVars, fileId, canSubmit, canSelect>>

(* The certificate was saved (closeClassModal); or the user cancels, or     *)
(* closes the window with its cross, which the overlay does not cover.      *)
CloseDialog == dialog # "closed" /\ Destroy

-----------------------------------------------------------------------------
Choose ==
    \/ \E f \in Files, isBig \in BOOLEAN : Select(f, isBig)
    \/ \E S \in SUBSET Files : \E big \in SUBSET S : Drop(S, big)
    \/ \E f \in Files : Cancel(f)

Replies ==
    \E f \in Files : \/ ReplyStored(f) \/ ReplyRefused(f)
                     \/ ReplyError(f) \/ ReplyUnread(f)

UploadNext ==
    Choose \/ Replies \/ OpenDialog \/ Submit \/ SubmitRefused \/ CloseDialog

UploadSpec == UploadInit /\ [][UploadNext]_uploadVars
-----------------------------------------------------------------------------
(* The comment at certinfo_form.html:59: the form must not be submitted     *)
(* before the upload has ended.  Selections that are refused, replaced or   *)
(* cancelled all touch the button, and replies enable it again.             *)
SubmitWaitsForUpload == canSubmit => InStage({"uploading"}) = {}

(* No lost wake-up: a file waits only while an upload runs, or when the     *)
(* limit is used up for good by one that completed, failed or was not read: *)
(* the latter two are never subtracted from uploads.current, and nothing    *)
(* but opening the dialog again helps.                                      *)
QueuedWaitsForReason ==
    InStage({"queued"}) # {} =>
        InStage({"uploading", "failed", "unread", "given up",
                 "complete", "taken back"}) # {}

(* uploadLimit: of all the files selected, replaced and cancelled in one    *)
(* dialog at most one is sent to its end, be it completed or failed.        *)
OneUploadPerDialog ==
    \A f, g \in InStage({"uploading", "failed", "unread", "given up",
                         "complete", "taken back"}) : f = g

(* What is posted is a file the server stored in this dialog. *)
PostedIsStored ==
    dialog = "posting" => /\ fileId \in InStage({"complete", "taken back"})
                          /\ uploaded = 1

(* Once the form has an id it keeps it until the dialog is closed: no later *)
(* selection is uploaded.                                                   *)
IdIsKept ==
    [][fileId # NoFile => fileId' = fileId \/ dialog' = "closed"]_uploadVars

(* The onCancel at certinfo_form.html:53 tells the user, with the id, that  *)
(* the upload is cancelled: then no certificate is asked for that file.     *)
CancelledIsNotPosted ==
    dialog = "posting" => fileId \notin InStage({"taken back"})
=============================================================================
