---------------------------- MODULE PasswordBox ----------------------------
(***************************************************************************)
(* The password dialogs of the member profile (a new password) and of the  *)
(* member list (a new account): a box lists what a password needs, marks   *)
(* what is met while the manager types and is shown or hidden by focus,    *)
(* input and reset.  What the box asks for and what the validator of the   *)
(* form asks for are written separately in the code.                       *)
(***************************************************************************)
EXTENDS Integers

CONSTANTS
  Pages,         \* the pages with a dialog: "profile", "search"
  Requirements,  \* the items of the box
  Passwords      \* [meets, plain, allowed]: the items met, no space or
                 \* unicode, only characters the validator's pattern allows

Empty == [meets |-> {}, plain |-> TRUE, allowed |-> TRUE]

PasswordBoxAssumption ==
  /\ Pages \subseteq {"profile", "search"}
  /\ \A p \in Passwords : p.meets \subseteq Requirements /\ p # Empty
  /\ \A p \in Passwords : p.allowed => p.plain

VARIABLES
  page,        \* the page of this dialog
  open,        \* whether the dialog is on the screen
  password,    \* the two fields
  confirm,
  met,         \* allRequirementsMet
  interacted,  \* userInteracted, kept by the member list only
  box,         \* whether passwordRequirements is shown
  marks,       \* the items marked as met
  post         \* the password in flight, Empty when there is none

fields == <<password, confirm>>
boxVars == <<met, interacted, box, marks>>
vars == <<page, open, fields, boxVars, post>>

MeetsAll(p) == p.meets = Requirements
Accepted(p) == MeetsAll(p) /\ p.plain /\ p.allowed

TypeOK ==
  /\ page \in Pages /\ open \in BOOLEAN
  /\ {password, confirm, post} \subseteq Passwords \cup {Empty}
  /\ met \in BOOLEAN /\ interacted \in BOOLEAN /\ box \in BOOLEAN
  /\ marks \subseteq Requirements
  /\ ~open => password = Empty /\ confirm = Empty /\ ~box

Init ==
  /\ page \in Pages /\ open = FALSE
  /\ password = Empty /\ confirm = Empty
  /\ met = FALSE /\ interacted = FALSE /\ box = FALSE /\ marks = {}
  /\ post = Empty

Open ==
  /\ ~open /\ open' = TRUE
  /\ UNCHANGED <<page, fields, boxVars, post>>

(* The member list waits until the manager has typed something. *)
ShownByFocus == box \/ (~met /\ (page = "search" => interacted))

Focus ==
  /\ open /\ box' = ShownByFocus
  /\ UNCHANGED <<page, open, fields, met, interacted, marks, post>>

Keydown ==
  /\ open /\ interacted' = (page = "search")
  /\ UNCHANGED <<page, open, fields, met, box, marks, post>>

(* The box hides when all is met, or when the password has a space or      *)
(* unicode, which the box does not list.                                   *)
Input(p) ==
  /\ open
  /\ password' = p
  /\ interacted' = (interacted \/ (page = "search" /\ p # Empty))
  /\ marks' = p.meets
  /\ met' = MeetsAll(p)
  /\ box' = IF met' \/ ~p.plain THEN FALSE
            ELSE IF page = "search" THEN box \/ interacted' ELSE TRUE
  /\ UNCHANGED <<page, open, confirm, post>>

InputConfirm(p) ==
  /\ open /\ confirm' = p
  /\ UNCHANGED <<page, open, password, boxVars, post>>

ResetBoxKeepsMet ==   \* mutant: the handler's state is not reset
  /\ password' = Empty /\ confirm' = Empty
  /\ box' = FALSE /\ marks' = {}
  /\ UNCHANGED <<met, interacted>>

(* The member list resets its handler; the profile resets the items only. *)
resetPasswordForm ==
  /\ password' = Empty /\ confirm' = Empty
  /\ box' = FALSE /\ marks' = {}
  /\ IF page = "search" THEN met' = FALSE /\ interacted' = FALSE
     ELSE UNCHANGED <<met, interacted>>

ResetButton == open /\ resetPasswordForm /\ UNCHANGED <<page, open, post>>

Hide == open' = FALSE /\ resetPasswordForm /\ UNCHANGED page

Close == open /\ Hide /\ UNCHANGED post

updatePasswordValidation ==
  /\ open /\ post = Empty
  /\ Accepted(password) /\ confirm = password
  /\ post' = password
  /\ UNCHANGED <<page, open, fields, boxVars>>

Saved == post # Empty /\ post' = Empty /\ Hide

Refused == post # Empty /\ post' = Empty /\ UNCHANGED <<page, open, fields, boxVars>>

Next ==
  \/ Open \/ Focus \/ Keydown \/ ResetButton \/ Close
  \/ \E p \in Passwords \cup {Empty} : Input(p) \/ InputConfirm(p)
  \/ updatePasswordValidation \/ Saved \/ Refused

Spec == Init /\ [][Next]_vars

----------------------------------------------------------------------------
(* The items marked are those the password meets, also after a reset, a    *)
(* close and a save (profile.js:1394-1410, search.js:671-682).             *)
MarksMatchPassword == marks = password.meets

(* On the member list, once a key was pressed, focus shows the box while a *)
(* requirement is not met, also after a reset: its handler is reset as     *)
(* well (search.js:618, 671-682).  The profile's is not.                   *)
FocusShowsUnmet ==
  page = "search" /\ open /\ interacted /\ ~MeetsAll(password) => ShownByFocus

----------------------------------------------------------------------------
(* What the proofs rest on: the handler of the member list takes all for   *)
(* met only when the password meets all.                                   *)
MetInv == page = "search" /\ met => MeetsAll(password)

IInv == TypeOK /\ MarksMatchPassword /\ MetInv
=============================================================================
