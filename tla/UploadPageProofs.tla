--------------------------- MODULE UploadPageProofs ---------------------------
(***************************************************************************)
(* Proofs about UploadPage, for any finite set of files and any names.     *)
(*                                                                         *)
(* The counters of the plugin and the stages of the files say the same     *)
(* thing (Consistent): uploads.current is 1 exactly while a file was sent  *)
(* and not completed, uploads.count is 1 once one completed, and no second *)
(* file was sent.  Every call of methods.upload keeps that.                *)
(***************************************************************************)
EXTENDS UploadPage, FiniteSetTheorems, TLAPS

Stages == {"new"} \cup Items \cup Removed

(* Sent and not completed; completed; sent at all. *)
Running == {"uploading", "failed", "unread", "given up"}
Finished == {"complete", "taken back"}
Sent == Running \cup Finished

NoneSent(s) == \A f \in Files : s[f] \notin Sent

Only(s, f, stages) ==
    s[f] \in stages /\ \A g \in Files \ {f} : s[g] \notin Sent

Consistent(s, c, n) ==
    /\ s \in [Files -> Stages]
    /\ \/ c = 0 /\ n = 0 /\ NoneSent(s)
       \/ c = 1 /\ n = 0 /\ \E f \in Files : Only(s, f, Running)
       \/ c = 0 /\ n = 1 /\ \E f \in Files : Only(s, f, Finished)

(* A waiting file has something before it. *)
Waits(s) == (\E f \in Files : s[f] = "queued") => ~NoneSent(s)

ButtonInv == \A f \in Files : st[f] = "uploading" => ~canSubmit

IdInv == /\ fileId # NoFile => st[fileId] \in Finished
         /\ dialog = "posting" => fileId # NoFile

QueueInv == Consistent(st, current, uploaded) /\ Waits(st)

UploadInv == UploadTypeOK /\ QueueInv /\ ButtonInv /\ IdInv

USE DEF Stages, Items, Removed, Running, Finished, Sent

-----------------------------------------------------------------------------
(* The counters stay in their range.  (Apart from the stages: a leaf with    *)
(* both arithmetic and sets of strings is beyond the prover.)               *)
LEMMA Counters ==
  ASSUME NEW s, NEW c, NEW n, Consistent(s, c, n)
  PROVE  c \in 0..UploadLimit /\ n \in 0..UploadLimit
<1> HIDE DEF Stages, Items, Removed, Running, Finished, Sent
<1> QED BY DEF Consistent, UploadLimit

LEMMA InitUploadInv == UploadInit => UploadInv
<1> SUFFICES ASSUME UploadInit PROVE UploadInv
  OBVIOUS
<1>1. QueueInv /\ ButtonInv /\ IdInv
  BY DEF UploadInit, QueueInv, Consistent, NoneSent, Waits, ButtonInv, IdInv
<1>2. current \in 0..UploadLimit /\ uploaded \in 0..UploadLimit
  BY <1>1, Counters DEF QueueInv
<1>3. UploadTypeOK
  BY <1>2 DEF UploadInit, UploadTypeOK
<1> QED BY <1>1, <1>3 DEF UploadInv

(* methods.upload keeps the counters right, whatever it is called on. *)
LEMMA UploadKeeps ==
  ASSUME NEW s, NEW c, NEW n, Consistent(s, c, n), Upload(s, c, n),
         canSubmit \in BOOLEAN,
         \A f \in Files : s[f] = "uploading" => ~canSubmit
  PROVE  /\ Consistent(st', current', n)
         /\ Waits(st')
         /\ \A f \in Files : st'[f] = "uploading" => ~canSubmit'
         /\ canSubmit' \in BOOLEAN
         /\ \A f \in Files : s[f] \in Finished => st'[f] = s[f]
<1>1. CASE c = 0 /\ n = 0 /\ NoneSent(s)
  <2>1. /\ canSubmit' = FALSE
        /\ \/ {f \in Files : s[f] = "queued"} = {} /\ st' = s /\ current' = 0
           \/ \E f \in Files : /\ s[f] = "queued"
                               /\ st' = [s EXCEPT ![f] = "uploading"]
                               /\ current' = 1
    BY <1>1 DEF Upload, Room, OnUpload, UploadLimit
  <2>2. CASE {f \in Files : s[f] = "queued"} = {} /\ st' = s /\ current' = 0
    BY <1>1, <2>1, <2>2 DEF Consistent, Waits
  <2>3. ASSUME NEW f \in Files, s[f] = "queued", current' = 1,
               st' = [s EXCEPT ![f] = "uploading"]
        PROVE  /\ Consistent(st', current', n)
               /\ Waits(st')
               /\ \A g \in Files : s[g] \in Finished => st'[g] = s[g]
    <3>1. st' \in [Files -> Stages]
      BY <2>3 DEF Consistent
    <3>2. st'[f] = "uploading" /\ \A g \in Files \ {f} : st'[g] = s[g]
      BY <2>3 DEF Consistent
    <3>3. Only(st', f, Running)
      BY <1>1, <3>2 DEF Only, NoneSent
    <3>4. ~NoneSent(st')
      BY <3>2 DEF NoneSent
    <3>5. \A g \in Files : s[g] \in Finished => st'[g] = s[g]
      BY <1>1 DEF NoneSent
    <3> QED BY <1>1, <2>3, <3>1, <3>3, <3>4, <3>5 DEF Consistent, Waits
  <2> QED BY <2>1, <2>2, <2>3
<1>2. CASE /\ \/ c = 1 /\ n = 0
              \/ c = 0 /\ n = 1
           /\ ~NoneSent(s)
  <2>1. ~(c + n < 1)
    BY <1>2
  <2>2. st' = s /\ current' = c /\ UNCHANGED canSubmit
    BY <2>1 DEF Upload, Room, UploadLimit
  <2> QED BY <1>2, <2>2 DEF Waits
<1> QED BY <1>1, <1>2 DEF Consistent, Only, NoneSent

(* The file that is being sent is the only one that was. *)
LEMMA OnlySending ==
  ASSUME Consistent(st, current, uploaded), NEW f \in Files, st[f] = "uploading"
  PROVE  /\ current = 1 /\ uploaded = 0
         /\ \A g \in Files \ {f} : st[g] \notin Sent
<1>1. st[f] \in Sent /\ st[f] \notin Finished
  OBVIOUS
<1> HIDE DEF Stages, Items, Removed, Running, Finished
<1> QED BY <1>1 DEF Consistent, NoneSent, Only

LEMMA SameSent ==
  ASSUME NEW s, NEW t, NEW c, NEW n, Consistent(s, c, n), t \in [Files -> Stages],
         \A f \in Files : /\ t[f] \in Running <=> s[f] \in Running
                          /\ t[f] \in Finished <=> s[f] \in Finished
  PROVE  Consistent(t, c, n)
<1>1. \A f \in Files : t[f] \in Sent <=> s[f] \in Sent
  <2> HIDE DEF Stages, Items, Removed, Running, Finished
  <2> QED OBVIOUS
<1> HIDE DEF Stages, Items, Removed, Running, Finished, Sent
<1> QED BY <1>1 DEF Consistent, NoneSent, Only

LEMMA AfterFinished ==
  ASSUME Consistent(st, current, uploaded), NEW f \in Files, st[f] \in Finished
  PROVE  uploaded = 1
<1>1. st[f] \in Sent /\ st[f] \notin Running
  OBVIOUS
<1> HIDE DEF Stages, Items, Removed, Running, Finished, Sent
<1> QED BY <1>1 DEF Consistent, NoneSent, Only

LEMMA CountType ==
  ASSUME NEW A \in SUBSET Files, NEW B \in SUBSET Files, NEW k \in Int
  PROVE  k - Cardinality(A) + Cardinality(B) \in Int
<1>1. IsFiniteSet(A) /\ IsFiniteSet(B)
  BY FS_Subset, UploadAssumption
<1>2. Cardinality(A) \in Nat /\ Cardinality(B) \in Nat
  BY <1>1, FS_CardinalityType
<1> QED BY <1>2

(* What addQueueItem makes of the stages before methods.upload is called:   *)
(* a selection that cancels the file being sent takes it off the counter.   *)
LEMMA AddKeeps ==
  ASSUME UploadInv, NEW S \in SUBSET InStage({"new"}), NEW big \in SUBSET S, Add(S, big),
         UNCHANGED uploaded
  PROVE  /\ QueueInv' /\ ButtonInv'
         /\ canSubmit' \in BOOLEAN /\ canSelect' \in BOOLEAN /\ count' \in Int
         /\ \A f \in Files : st[f] \in Finished => st'[f] \in Finished
<1> DEFINE old == Replaced(S)
           sending == old \cap InStage({"uploading"})
           c == current - Cardinality(sending)
           s == [f \in Files |-> IF f \in big THEN "too large"
                                 ELSE IF f \in S THEN "queued"
                                 ELSE IF f \in old THEN Without(st[f]) ELSE st[f]]
<1> USE DEF UploadInv, QueueInv
<1>1. current \in Int
  BY Counters DEF UploadLimit
<1>2. Upload(s, c, uploaded) /\ canSelect' = (canSelect \/ old # {})
  BY DEF Add
<1>3. /\ old \subseteq Files /\ S \subseteq Files
      /\ \A f \in old : st[f] \notin Finished
      /\ \A f \in S : st[f] = "new"
      /\ \A f \in Files : f \in sending <=> f \in old /\ st[f] = "uploading"
      /\ sending \subseteq Files
  BY DEF Replaced, InStage, UploadTypeOK
<1>4. count' \in Int
  <2>1. count' = count - Cardinality(old \cap InStage(Items)) + Cardinality(S \ big)
    BY DEF Add
  <2>2. old \cap InStage(Items) \subseteq Files /\ S \ big \subseteq Files
    BY <1>3
  <2> QED BY <2>1, <2>2, CountType DEF UploadTypeOK
<1>5. s \in [Files -> Stages]
  BY DEF Without, Consistent
<1>6. /\ Consistent(s, c, uploaded)
      /\ \A f \in Files : s[f] = "uploading" => ~canSubmit
      /\ \A f \in Files : st[f] \in Finished => s[f] = st[f]
  <2>1. \A f \in Files : st[f] \in Finished => s[f] = st[f]
    BY <1>3
  <2>2. CASE sending = {}
    <3>1. c = current
      BY <2>2, FS_EmptySet, <1>1
    <3>2. \A f \in Files :
            /\ s[f] \in Sent <=> st[f] \in Sent
            /\ s[f] \in Running <=> st[f] \in Running
            /\ s[f] \in Finished => s[f] = st[f]
            /\ s[f] = "uploading" => st[f] = "uploading"
      BY <1>3, <2>2 DEF Without, Consistent
    <3>3. Consistent(s, c, uploaded)
      <4> HIDE DEF s, c
      <4> QED BY <1>5, <3>1, <3>2, SameSent
    <3> QED BY <2>1, <3>2, <3>3 DEF ButtonInv
  <2>3. ASSUME NEW g \in sending
        PROVE  Consistent(s, c, uploaded) /\ \A f \in Files : s[f] # "uploading"
    <3>1. g \in Files /\ st[g] = "uploading" /\ g \in old /\ g \notin S
      BY <1>3
    <3>2. current = 1 /\ uploaded = 0 /\ \A f \in Files \ {g} : st[f] \notin Sent
      BY <3>1, OnlySending
    <3>3. sending = {g}
      BY <1>3, <3>1, <3>2
    <3>4. c = 0
      <4> HIDE DEF Stages, Items, Removed, Running, Finished, Sent, sending
      <4>1. Cardinality(sending) = 1
        BY <3>3, FS_Singleton
      <4> QED BY <3>2, <4>1
    <3>5. NoneSent(s)
      BY <1>3, <3>1, <3>2 DEF Without, Consistent, NoneSent
    <3> HIDE DEF s, c
    <3> QED BY <1>5, <3>2, <3>4, <3>5 DEF Consistent, NoneSent
  <2> QED BY <2>1, <2>2, <2>3
<1> HIDE DEF s, c
<1>7. /\ Consistent(st', current', uploaded)
      /\ Waits(st')
      /\ \A f \in Files : st'[f] = "uploading" => ~canSubmit'
      /\ canSubmit' \in BOOLEAN
      /\ \A f \in Files : s[f] \in Finished => st'[f] = s[f]
  BY <1>2, <1>6, UploadKeeps DEF UploadTypeOK
<1> QED BY <1>2, <1>4, <1>6, <1>7 DEF ButtonInv, UploadTypeOK

-----------------------------------------------------------------------------
(* One lemma per handler.                                                   *)

(* What is left to see of a step that keeps the queue consistent. *)
LEMMA Rest ==
  ASSUME UploadInv, QueueInv', ButtonInv', IdInv',
         dialog' \in {"closed", "open", "posting"}, inputs' \subseteq Files,
         count' \in Int, fileId' \in Files \cup {NoFile},
         canSubmit' \in BOOLEAN, canSelect' \in BOOLEAN
  PROVE  UploadInv'
<1>1. Consistent(st', current', uploaded')
  BY DEF QueueInv, Consistent, NoneSent, Only
<1>2. current' \in 0..UploadLimit /\ uploaded' \in 0..UploadLimit
  BY <1>1, Counters
<1>3. st' \in [Files -> {"new"} \cup Items \cup Removed]
  BY <1>1 DEF Consistent
<1>4. UploadTypeOK'
  BY <1>2, <1>3 DEF UploadTypeOK
<1> QED BY <1>4 DEF UploadInv

LEMMA IdStays ==
  ASSUME UploadInv, UNCHANGED <<dialog, fileId>>,
         \A f \in Files : st[f] \in Finished => st'[f] \in Finished
  PROVE  IdInv'
BY DEF UploadInv, IdInv, UploadTypeOK

LEMMA RefuseKeeps ==
  ASSUME UploadInv, Refuse, UNCHANGED uploaded
  PROVE  /\ QueueInv' /\ ButtonInv' /\ canSubmit' \in BOOLEAN
         /\ \A f \in Files : st[f] \in Finished => st'[f] \in Finished
<1>1. Consistent(st, current, uploaded) /\ canSubmit \in BOOLEAN
  BY DEF UploadInv, QueueInv, UploadTypeOK
<1>2. \A f \in Files : st[f] = "uploading" => ~canSubmit
  BY DEF UploadInv, ButtonInv
<1>3. Upload(st, current, uploaded)
  BY DEF Refuse
<1> QED BY <1>1, <1>2, <1>3, UploadKeeps DEF QueueInv, ButtonInv

LEMMA SelectKeeps ==
  ASSUME UploadInv, NEW f \in Files, NEW isBig \in BOOLEAN, Select(f, isBig)
  PROVE  UploadInv'
<1> DEFINE big == {g \in {f} : isBig}
<1>1. /\ UNCHANGED <<dialog, uploaded, fileId>>
      /\ \/ Refuse
         \/ Add({f}, big) /\ inputs' = inputs \cup {f}
      /\ {f} \in SUBSET InStage({"new"}) /\ big \in SUBSET {f}
  BY DEF Select, InStage
<1>2. QueueInv' /\ ButtonInv' /\ canSubmit' \in BOOLEAN /\ IdInv'
  BY <1>1, RefuseKeeps, AddKeeps, IdStays
<1>3. /\ inputs' \subseteq Files /\ count' \in Int /\ canSelect' \in BOOLEAN
      /\ fileId' \in Files \cup {NoFile} /\ dialog' \in {"closed", "open", "posting"}
  BY <1>1, AddKeeps DEF Refuse, UploadInv, UploadTypeOK
<1> QED BY <1>2, <1>3, Rest

LEMMA DropKeeps ==
  ASSUME UploadInv, NEW S \in SUBSET Files, NEW big \in SUBSET S, Drop(S, big)
  PROVE  UploadInv'
<1>1. /\ UNCHANGED <<dialog, uploaded, fileId>>
      /\ Refuse \/ (Add(S, big) /\ UNCHANGED inputs)
      /\ S \in SUBSET InStage({"new"})
  BY DEF Drop
<1>2. QueueInv' /\ ButtonInv' /\ canSubmit' \in BOOLEAN /\ IdInv'
  BY <1>1, RefuseKeeps, AddKeeps, IdStays
<1>3. /\ inputs' \subseteq Files /\ count' \in Int /\ canSelect' \in BOOLEAN
      /\ fileId' \in Files \cup {NoFile} /\ dialog' \in {"closed", "open", "posting"}
  BY <1>1, AddKeeps DEF Refuse, UploadInv, UploadTypeOK
<1> QED BY <1>2, <1>3, Rest

LEMMA CancelKeeps ==
  ASSUME UploadInv, NEW f \in Files, Cancel(f)
  PROVE  UploadInv'
<1> DEFINE s == [st EXCEPT ![f] = Without(@)]
<1> USE DEF UploadInv, QueueInv
<1>1. st[f] \in Items /\ st \in [Files -> Stages] /\ s \in [Files -> Stages]
  BY DEF Cancel, Consistent, Without
<1>2. \A g \in Files : st[g] \in Finished => s[g] \in Finished
  BY <1>1 DEF Without
<1>3. /\ QueueInv' /\ ButtonInv' /\ canSubmit' \in BOOLEAN
      /\ \A g \in Files : st[g] \in Finished => st'[g] \in Finished
  <2>1. CASE st[f] = "uploading"
    <3>1. Upload(s, current - 1, uploaded) /\ UNCHANGED uploaded
      BY <2>1 DEF Cancel
    <3>2. /\ current = 1 /\ uploaded = 0
          /\ \A g \in Files \ {f} : st[g] \notin Sent
      BY <2>1, OnlySending
    <3>3. NoneSent(s)
      BY <1>1, <2>1, <3>2 DEF Without, NoneSent
    <3> HIDE DEF s
    <3>4. current - 1 = 0
      <4> HIDE DEF Stages, Items, Removed, Running, Finished, Sent
      <4> QED BY <3>2
    <3>5. Consistent(s, current - 1, uploaded)
      BY <1>1, <3>2, <3>3, <3>4 DEF Consistent
    <3>6. \A g \in Files : s[g] = "uploading" => ~canSubmit
      BY <3>3 DEF NoneSent
    <3> QED BY <1>2, <3>1, <3>5, <3>6, UploadKeeps DEF ButtonInv, UploadTypeOK
  <2>2. CASE st[f] # "uploading"
    <3>1. st' = s /\ UNCHANGED <<current, uploaded, canSubmit>>
      BY <2>2 DEF Cancel
    <3>2. \A g \in Files :
            /\ s[g] \in Running <=> st[g] \in Running
            /\ s[g] \in Finished <=> st[g] \in Finished
            /\ s[g] = "queued" => st[g] = "queued"
            /\ s[g] = "uploading" => st[g] = "uploading"
      BY <1>1, <2>2 DEF Without
    <3> HIDE DEF s
    <3>5. Consistent(s, current, uploaded)
      BY <1>1, <3>2, SameSent
    <3>6. Waits(s)
      BY <3>2 DEF Waits, NoneSent
    <3> QED BY <1>2, <3>1, <3>2, <3>5, <3>6 DEF ButtonInv, UploadTypeOK
  <2> QED BY <2>1, <2>2
<1>4. IdInv'
  BY <1>3, IdStays DEF Cancel
<1>5. /\ inputs' \subseteq Files /\ count' \in Int /\ canSelect' \in BOOLEAN
      /\ fileId' \in Files \cup {NoFile} /\ dialog' \in {"closed", "open", "posting"}
  <2>1. count' = count - 1
    BY DEF Cancel
  <2>2. count' \in Int
    <3> HIDE DEF Stages, Items, Removed, Running, Finished, Sent
    <3> QED BY <2>1 DEF UploadTypeOK
  <2> QED BY <2>2 DEF Cancel, UploadTypeOK
<1> QED BY <1>3, <1>4, <1>5, Rest

(* The replies: the one file that is being sent is the only one that was. *)
LEMMA ReplyKeeps ==
  ASSUME UploadInv, NEW f \in Files,
         ReplyStored(f) \/ ReplyRefused(f) \/ ReplyError(f) \/ ReplyUnread(f)
  PROVE  UploadInv'
<1> USE DEF UploadInv, QueueInv
<1>1. st[f] = "uploading" /\ dialog # "closed" /\ ~canSubmit
  BY DEF ReplyStored, ReplyRefused, ReplyError, ReplyUnread, Completed, Replied, ButtonInv
<1>2. /\ current = 1 /\ uploaded = 0
      /\ \A g \in Files \ {f} : st[g] \notin Sent
  BY <1>1, OnlySending
<1>3. \A g \in Files : st[g] \notin Finished
  BY <1>1, <1>2
<1>4. fileId = NoFile /\ dialog = "open"
  BY <1>1, <1>3 DEF IdInv, UploadTypeOK
<1>5. PICK stage \in {"complete", "failed", "unread"} : Replied(f, stage)
  BY DEF ReplyStored, ReplyRefused, ReplyError, ReplyUnread, Completed
<1>6. /\ st' \in [Files -> Stages] /\ st'[f] = stage
      /\ \A g \in Files \ {f} : st'[g] = st[g]
      /\ UNCHANGED <<dialog, inputs, count>>
  BY <1>5 DEF Replied, UploadTypeOK
<1>7. CASE ReplyStored(f) \/ ReplyRefused(f)
  <2>0. current' = current - 1 /\ uploaded' = uploaded + 1 /\ st'[f] = "complete"
    BY <1>6, <1>7 DEF ReplyStored, ReplyRefused, Completed, Replied, UploadTypeOK
  <2>1. current' = 0 /\ uploaded' = 1
    <3> HIDE DEF Stages, Items, Removed, Running, Finished, Sent
    <3> QED BY <1>2, <2>0
  <2>2. fileId' \in {f, NoFile} /\ canSubmit' \in BOOLEAN /\ canSelect' \in BOOLEAN
    BY <1>4, <1>7 DEF ReplyStored, ReplyRefused, UploadTypeOK
  <2>3. Only(st', f, Finished) /\ ~NoneSent(st')
    BY <1>2, <1>6, <2>0 DEF Only, NoneSent
  <2>4. QueueInv' /\ ButtonInv'
    BY <1>2, <1>6, <2>0, <2>1, <2>3 DEF Consistent, Waits, ButtonInv
  <2>5. IdInv'
    BY <1>4, <1>6, <2>0, <2>2 DEF IdInv
  <2> QED BY <1>6, <2>2, <2>4, <2>5, Rest DEF UploadTypeOK
<1>8. CASE ReplyError(f) \/ ReplyUnread(f)
  <2>1. /\ st'[f] \in {"failed", "unread"}
        /\ UNCHANGED <<current, uploaded, fileId, canSelect, canSubmit>>
    BY <1>8 DEF ReplyError, ReplyUnread, Replied, UploadTypeOK
  <2>2. Only(st', f, Running) /\ ~NoneSent(st')
    BY <1>2, <1>6, <2>1 DEF Only, NoneSent
  <2>3. QueueInv' /\ ButtonInv'
    BY <1>2, <1>6, <2>1, <2>2 DEF Consistent, Waits, ButtonInv
  <2>4. IdInv'
    BY <1>4, <1>6, <2>1 DEF IdInv
  <2> QED BY <1>6, <2>1, <2>3, <2>4, Rest DEF UploadTypeOK
<1> QED BY <1>7, <1>8

(* The form, its frame, and stuttering. *)
LEMMA FormKeeps ==
  ASSUME UploadInv, OpenDialog \/ Submit \/ SubmitRefused \/ UNCHANGED uploadVars
  PROVE  UploadInv'
<1>1. UNCHANGED <<queueVars, fileId, canSubmit, canSelect>>
  BY DEF OpenDialog, Submit, SubmitRefused, uploadVars
<1>2. /\ dialog' \in {"closed", "open", "posting"}
      /\ dialog' = "posting" => fileId # NoFile
  BY DEF OpenDialog, Submit, SubmitRefused, uploadVars, UploadInv, UploadTypeOK, IdInv
<1>3. QueueInv' /\ ButtonInv' /\ IdInv'
  BY <1>1, <1>2 DEF queueVars, UploadInv, QueueInv, Consistent, NoneSent, Only, Waits, ButtonInv, IdInv
<1> QED BY <1>1, <1>2, <1>3, Rest DEF queueVars, UploadInv, UploadTypeOK

LEMMA CloseKeeps ==
  ASSUME UploadInv, CloseDialog
  PROVE  UploadInv'
<1>1. QueueInv' /\ ButtonInv' /\ IdInv'
  BY DEF CloseDialog, Destroy, QueueInv, Consistent, NoneSent, Waits, ButtonInv, IdInv
<1> QED BY <1>1, Rest DEF CloseDialog, Destroy

LEMMA NextKeepsUploadInv == UploadInv /\ [UploadNext]_uploadVars => UploadInv'
<1> SUFFICES ASSUME UploadInv, [UploadNext]_uploadVars PROVE UploadInv'
  OBVIOUS
<1>1. CASE Choose
  BY <1>1, SelectKeeps, DropKeeps, CancelKeeps DEF Choose
<1>2. CASE Replies
  BY <1>2, ReplyKeeps DEF Replies
<1>3. CASE OpenDialog \/ Submit \/ SubmitRefused \/ UNCHANGED uploadVars
  BY <1>3, FormKeeps
<1>4. CASE CloseDialog
  BY <1>4, CloseKeeps
<1> QED BY <1>1, <1>2, <1>3, <1>4 DEF UploadNext

-----------------------------------------------------------------------------
(* The counters of the plugin agree with what was sent. *)
THEOREM UploadInvariant == UploadSpec => []UploadInv
<1>1. UploadInit => UploadInv
  BY InitUploadInv
<1>2. UploadInv /\ [UploadNext]_uploadVars => UploadInv'
  BY NextKeepsUploadInv
<1> QED BY <1>1, <1>2, PTL DEF UploadSpec

(* Every variable of the dialog keeps its type; in particular the counters  *)
(* of running and finished uploads stay within the limit.                   *)
THEOREM UploadTypeCorrect == UploadSpec => []UploadTypeOK
<1>1. UploadInv => UploadTypeOK
  BY DEF UploadInv
<1> QED BY <1>1, UploadInvariant, PTL

(* The form cannot be submitted while a file is on its way, after any       *)
(* sequence of selections, drops, cancellations and replies.                *)
THEOREM SubmitIsHeldBack == UploadSpec => []SubmitWaitsForUpload
<1>1. UploadInv => SubmitWaitsForUpload
  BY DEF UploadInv, ButtonInv, SubmitWaitsForUpload, InStage
<1> QED BY <1>1, UploadInvariant, PTL

(* A file that waits has an upload before it: a running one, or one that    *)
(* used up the limit.                                                       *)
THEOREM NoLostWakeUp == UploadSpec => []QueuedWaitsForReason
<1>1. UploadInv => QueuedWaitsForReason
  <2> SUFFICES ASSUME UploadInv, NEW f \in Files, st[f] = "queued"
               PROVE  \E g \in Files : st[g] \in Sent
    BY DEF QueuedWaitsForReason, InStage
  <2> QED BY DEF UploadInv, QueueInv, Waits, NoneSent
<1> QED BY <1>1, UploadInvariant, PTL

(* The limit of one upload holds however files are selected, replaced and   *)
(* cancelled.                                                               *)
THEOREM LimitHolds == UploadSpec => []OneUploadPerDialog
<1>1. UploadInv => OneUploadPerDialog
  <2>1. ASSUME Consistent(st, current, uploaded), NEW f \in Files, NEW g \in Files,
               st[f] \in Sent, st[g] \in Sent
        PROVE  f = g
    <3> HIDE DEF Stages, Items, Removed, Running, Finished, Sent
    <3> QED BY <2>1 DEF Consistent, NoneSent, Only
  <2> QED BY <2>1 DEF UploadInv, QueueInv, OneUploadPerDialog, InStage
<1> QED BY <1>1, UploadInvariant, PTL

(* A posted form carries the id of a file the server stored in the same     *)
(* dialog.                                                                  *)
THEOREM OnlyStoredIsPosted == UploadSpec => []PostedIsStored
<1>1. UploadInv => PostedIsStored
  <2> SUFFICES ASSUME UploadInv, dialog = "posting"
               PROVE  st[fileId] \in Finished /\ fileId \in Files /\ uploaded = 1
    BY DEF PostedIsStored, InStage
  <2>1. st[fileId] \in Finished /\ fileId \in Files
    BY DEF UploadInv, IdInv, UploadTypeOK
  <2> QED BY <2>1, AfterFinished DEF UploadInv, QueueInv
<1> QED BY <1>1, UploadInvariant, PTL

(* The id of the form changes once at most: no later selection replaces it. *)
THEOREM IdChangesOnce == UploadSpec => IdIsKept
<1>1. UploadInv /\ [UploadNext]_uploadVars =>
          [fileId # NoFile => fileId' = fileId \/ dialog' = "closed"]_uploadVars
  <2> SUFFICES ASSUME UploadInv, UploadNext, fileId # NoFile
               PROVE  fileId' = fileId \/ dialog' = "closed"
    BY DEF uploadVars
  <2>1. st[fileId] \in Finished /\ fileId \in Files
    BY DEF UploadInv, IdInv, UploadTypeOK
  <2>2. \A f \in Files : st[f] # "uploading"
    BY <2>1, OnlySending DEF UploadInv, QueueInv
  <2>3. ~Replies
    BY <2>2 DEF Replies, ReplyStored, ReplyRefused, ReplyError, ReplyUnread,
       Completed, Replied
  <2> QED BY <2>3 DEF UploadNext, Choose, Select, Drop, Cancel, OpenDialog, Submit,
             SubmitRefused, CloseDialog, Destroy
<1> QED BY <1>1, UploadInvariant, PTL DEF UploadSpec, IdIsKept
=============================================================================
