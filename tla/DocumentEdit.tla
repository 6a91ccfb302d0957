---------------------------- MODULE DocumentEdit ----------------------------
(***************************************************************************)
(* The dialog of the member's profile in which a manager replaces or       *)
(* clears the photos of an identity document.  Each photo has a file       *)
(* input, a preview, a cached file and two flags; they are written by the  *)
(* manager, by the answers of view requests (asked when the dialog opens   *)
(* or is reset, and never cancelled) and by file readers that finish       *)
(* later.  The server replaces a photo only when its flag says so.  No     *)
(* overlay keeps the manager from acting while a request is out.           *)
(***************************************************************************)
EXTENDS Integers

CONSTANTS
  Fields,    \* the photos: front, back, address
  Required,  \* those the validator asks for
  Photos,    \* photos on the manager's disk
  AtFirst,   \* [Fields -> Photos \cup {None}], the photos stored at first
  None,      \* no photo
  Views      \* bound: view requests in flight

Keep == "keep"      \* a posted photo whose flag is not set

DocumentEditAssumption ==
  /\ Required \subseteq Fields /\ None \notin Photos
  /\ Keep \notin Photos \cup {None}
  /\ AtFirst \in [Fields -> Photos \cup {None}]

VARIABLES
  stored,    \* the photos of the member's document
  input,     \* the file each input holds
  preview,   \* the photo each preview shows
  cached,    \* cachedFiles
  changed,   \* uploadStatus
  original,  \* originalFileState
  open,      \* whether updateDocumentModal is on the screen
  views,     \* view requests: [state, got], got the photos of the answer
  readers,   \* <<field, photo>>: file readers not finished
  post,      \* the save in flight: [state, file, touched, vanished]
  touched,   \* history: fields picked or cleared since the dialog opened
  vanished   \* history: fields an answer emptied that an earlier answer filled

fieldVars == <<input, cached, changed, original>>
vars == <<stored, fieldVars, preview, open, views, readers, post, touched, vanished>>

Files == Photos \cup {None}
Idle == "idle"
Unsent == [state |-> Idle, file |-> [f \in Fields |-> Keep], touched |-> {}, vanished |-> {}]
All(x) == [f \in Fields |-> x]
NoView == [state |-> Idle, got |-> All(None)]

TypeOK ==
  /\ stored \in [Fields -> Files] /\ input \in [Fields -> Files]
  /\ preview \in [Fields -> Files] /\ cached \in [Fields -> Files]
  /\ changed \in [Fields -> BOOLEAN] /\ original \in [Fields -> BOOLEAN]
  /\ open \in BOOLEAN /\ readers \subseteq Fields \X Photos
  /\ views \in [1..Views -> [state : {Idle, "asked", "served"}, got : [Fields -> Files]]]
  /\ post.state \in {Idle, "sent", "done", "failed"}
  /\ touched \subseteq Fields /\ vanished \subseteq Fields

Init ==
  /\ stored = AtFirst
  /\ input = All(None) /\ preview = All(None) /\ cached = All(None)
  /\ changed = All(FALSE) /\ original = All(FALSE)
  /\ open = FALSE /\ views = [v \in 1..Views |-> NoView]
  /\ readers = {} /\ post = Unsent
  /\ touched = {} /\ vanished = {}

----------------------------------------------------------------------------
(* Opening, resetting and closing. *)

(* viewDocumentAtEditDocument sends a request of its own each time. *)
viewDocumentAtEditDocument ==
  \E v \in DOMAIN views : views[v] = NoView /\ views' = [views EXCEPT ![v].state = "asked"]

goToEditDocument ==
  /\ ~open /\ open' = TRUE
  /\ viewDocumentAtEditDocument
  /\ touched' = {}
  /\ UNCHANGED <<stored, fieldVars, preview, readers, post, vanished>>

(* The form is emptied and asked for again; the flags and the cached files *)
(* stay.                                                                   *)
resetEditDocument ==
  /\ open
  /\ input' = All(None)
  /\ viewDocumentAtEditDocument
  /\ UNCHANGED <<stored, cached, changed, original, preview, open, readers, post, touched, vanished>>

HiddenKeepsFlags ==   \* mutant: uploadStatus outlives the dialog
  /\ input' = All(None) /\ cached' = All(None)
  /\ original' = All(FALSE) /\ UNCHANGED changed
  /\ vanished' = {}

(* The hidden.bs.modal handler; it leaves the previews. *)
Hidden ==
  /\ input' = All(None) /\ cached' = All(None)
  /\ changed' = All(FALSE) /\ original' = All(FALSE)
  /\ vanished' = {}

Close ==
  /\ open /\ open' = FALSE
  /\ Hidden
  /\ UNCHANGED <<stored, preview, views, readers, post, touched>>

----------------------------------------------------------------------------
(* The manager's gestures on one photo. *)

Touch(f) ==
  /\ touched' = touched \cup {f}

(* A browse that is cancelled empties the input; previewImage puts the     *)
(* cached file back.                                                       *)
CancelBrowse(f) ==
  /\ open
  /\ input' = [input EXCEPT ![f] = cached[f]]
  /\ UNCHANGED <<stored, cached, changed, original, preview, open, views, readers, post, touched, vanished>>

(* A file past 50MB: the input is emptied and nothing else. *)
PickTooLarge(f) ==
  /\ open
  /\ input' = [input EXCEPT ![f] = None]
  /\ Touch(f)
  /\ UNCHANGED <<stored, cached, changed, original, preview, open, views, readers, post, vanished>>

(* A file browsed to or dropped; the preview waits for its reader. *)
previewImage(f, p) ==
  /\ open
  /\ input' = [input EXCEPT ![f] = p]
  /\ cached' = [cached EXCEPT ![f] = p]
  /\ changed' = [changed EXCEPT ![f] = TRUE]
  /\ readers' = readers \cup {<<f, p>>}
  /\ Touch(f)
  /\ UNCHANGED <<stored, original, preview, open, views, post, vanished>>

ReaderLoads(f, p) ==
  /\ <<f, p>> \in readers
  /\ readers' = readers \ {<<f, p>>}
  /\ preview' = [preview EXCEPT ![f] = p]
  /\ UNCHANGED <<stored, fieldVars, open, views, post, touched, vanished>>

(* The cross is part of a preview that shows a photo. *)
clearImage(f) ==
  /\ open /\ preview[f] # None
  /\ input' = [input EXCEPT ![f] = None]
  /\ cached' = [cached EXCEPT ![f] = None]
  /\ changed' = [changed EXCEPT ![f] = original[f]]
  /\ preview' = [preview EXCEPT ![f] = None]
  /\ Touch(f)
  /\ UNCHANGED <<stored, original, open, views, readers, post, vanished>>

----------------------------------------------------------------------------
(* The view requests. *)

ServeView(v) ==
  /\ views[v].state = "asked"
  /\ views' = [views EXCEPT ![v] = [state |-> "served", got |-> stored]]
  /\ UNCHANGED <<stored, fieldVars, preview, open, readers, post, touched, vanished>>

ViewFails(v) ==
  /\ views[v].state = "asked"
  /\ views' = [views EXCEPT ![v] = NoView]
  /\ UNCHANGED <<stored, fieldVars, preview, open, readers, post, touched, vanished>>

(* A photo is put into the input, the cache and the preview, its flag      *)
(* untouched; a missing one goes the way of clearImage.                    *)
loadBase64Preview(got) ==
  /\ input' = got /\ cached' = got /\ preview' = got
  /\ original' = [f \in Fields |-> got[f] # None]
  /\ changed' = [f \in Fields |-> IF got[f] = None THEN original[f] ELSE changed[f]]
  /\ vanished' = vanished \cup {f \in Fields : original[f] /\ got[f] = None}

AnswerView(v) ==
  /\ views[v].state = "served"
  /\ loadBase64Preview(views[v].got)
  /\ views' = [views EXCEPT ![v] = NoView]
  /\ UNCHANGED <<stored, open, readers, post, touched>>

----------------------------------------------------------------------------
(* Saving. *)

Valid == \A f \in Required : input[f] # None

updateDocument ==
  /\ open /\ Valid /\ post.state = Idle
  /\ post' = [state |-> "sent", touched |-> touched, vanished |-> vanished,
              file |-> [f \in Fields |-> IF changed[f] THEN input[f] ELSE Keep]]
  /\ UNCHANGED <<stored, fieldVars, preview, open, views, readers, touched, vanished>>

(* A photo whose flag is set is replaced, by none when no file came. *)
editIdDocument ==
  /\ post.state = "sent"
  /\ stored' = [f \in Fields |-> IF post.file[f] = Keep THEN stored[f] ELSE post.file[f]]
  /\ post' = [post EXCEPT !.state = "done"]
  /\ UNCHANGED <<fieldVars, preview, open, views, readers, touched, vanished>>

SaveFails ==
  /\ post.state = "sent"
  /\ post' = [post EXCEPT !.state = "failed"]
  /\ UNCHANGED <<stored, fieldVars, preview, open, views, readers, touched, vanished>>

(* Success hides the dialog, whichever one is open by then, and resets the *)
(* form and the flags.                                                     *)
Saved ==
  /\ post.state = "done" /\ post' = Unsent
  /\ open' = FALSE
  /\ Hidden
  /\ UNCHANGED <<stored, preview, views, readers, touched>>

SaveRefused ==
  /\ post.state = "failed" /\ post' = Unsent
  /\ UNCHANGED <<stored, fieldVars, preview, open, views, readers, touched, vanished>>

----------------------------------------------------------------------------
Gesture(f) ==
  \/ CancelBrowse(f)
  \/ PickTooLarge(f)
  \/ clearImage(f)
  \/ \E p \in Photos : previewImage(f, p) \/ ReaderLoads(f, p)

Next ==
  \/ goToEditDocument \/ resetEditDocument \/ Close
  \/ \E f \in Fields : Gesture(f)
  \/ \E v \in DOMAIN views : ServeView(v) \/ ViewFails(v) \/ AnswerView(v)
  \/ updateDocument \/ editIdDocument \/ SaveFails \/ Saved \/ SaveRefused

Spec == Init /\ [][Next]_vars

----------------------------------------------------------------------------
(* A browse that is cancelled gives back the very file the input held,     *)
(* wherever that file came from (previewImage, profile.js:831-841).        *)
CancelGivesBack == \A f \in Fields : input[f] # None => cached[f] = input[f]

(* A save changes only photos the manager picked or cleared since the      *)
(* dialog was opened, although flags, late answers and the dialog's reset  *)
(* all outlive a gesture (profile.js:34-72, 1056-1058); a photo no one     *)
(* touched is replaced only if an answer without it came after an answer   *)
(* with it, which clearImage takes for a deletion (profile.js:1153).       *)
OnlyTouchedPhotosChange ==
  \A f \in Fields : stored'[f] # stored[f] => f \in post.touched \cup post.vanished

(* A required photo that is stored is never deleted (profile.js:970-1034,  *)
(* AccountDocumentBO.java:265-267).                                        *)
RequiredPhotosStay ==
  \A f \in Required : stored[f] # None => stored'[f] # None

(* updateDocument says of an input it finds empty that the photo was       *)
(* "cleared by user" (profile.js:1048): a save deletes no photo that the   *)
(* manager did not clear or browse for.                                    *)
ClearedByUser ==
  post.state = "sent" =>
    \A f \in Fields : post.file[f] = None => f \in post.touched

----------------------------------------------------------------------------
(* What the proofs rest on. *)
Posts == [state : {Idle, "sent", "done", "failed"}, file : [Fields -> Files \cup {Keep}],
          touched : SUBSET Fields, vanished : SUBSET Fields]

(* A flag is set by a gesture in the dialog that is open or by an answer   *)
(* that lacks a photo.                                                     *)
FlagsInv ==
  \A f \in Fields : changed[f] => f \in vanished \/ (open /\ f \in touched)

(* What is posted was so when it was posted. *)
PostInv ==
  post.state = "sent" =>
    /\ \A f \in Fields : post.file[f] # Keep => f \in post.touched \cup post.vanished
    /\ \A f \in Required : post.file[f] # None

IInv == TypeOK /\ post \in Posts /\ CancelGivesBack /\ FlagsInv /\ PostInv
=============================================================================
