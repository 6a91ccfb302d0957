----------------------------- MODULE UpdateLog -----------------------------
(***************************************************************************)
(* The log of what was changed of a member, and the tab of the member's    *)
(* report that shows it (searchProfileUpdateLog in report.js).  A handler  *)
(* reads the member's row, commits its change and only then logs it, and   *)
(* each kind of change has its own text for "nothing was there": a dash,   *)
(* an empty text, or no row at all.  The page has to read all of them.     *)
(***************************************************************************)
EXTENDS Naturals, Sequences, FiniteSets

CONSTANTS
  Managers, \* managers who change the member
  Values,   \* what a photo's path, a date, a card, a bank, a status can be
  None,     \* nothing is stored
  Readable, \* the paths whose file this server can read
  Changes   \* bound: changes begun

UpdateLogAssumption ==
  /\ Values # {} /\ None \notin Values /\ Readable \subseteq Values /\ Changes \in Nat

VARIABLES
  stored,   \* the member: [Kinds -> Values \cup {None}]
  job,      \* job[m]: the change m's handler is at, {} or {[set, seen, phase]}
  log,      \* log[k]: the rows of kind k, oldest first
  left,     \* bound: the changes left
  asked,    \* the path the page asks the image of, None before
  dialog,   \* viewDocumentPhoto: [open, shows]
  clicked   \* history: the path of the last click

member == <<stored, job, log, left>>
page == <<asked, dialog, clicked>>
vars == <<member, page>>

Document == {"photo", "expiry", "kyc"}
Kinds == Document \cup {"status", "card", "bank"}
Content == Values \cup {None}

(* A side of a logged row. *)
Dash == [as |-> "dash", of |-> None]
Empty == [as |-> "empty", of |-> None]
Text(v) == [as |-> "value", of |-> v]

Init ==
  /\ stored = [k \in Kinds |-> IF k = "status" THEN CHOOSE v \in Values : TRUE ELSE None]
  /\ job = [m \in Managers |-> {}] /\ log = [k \in Kinds |-> <<>>] /\ left = Changes
  /\ asked = None /\ dialog = [open |-> FALSE, shows |-> None] /\ clicked = None

----------------------------------------------------------------------------
(* The handlers. *)

(* editIdDocument: the date is always sent, a photo may be kept; a first   *)
(* document is approved as it is added.                                    *)
DocumentEdits ==
  IF stored["kyc"] = None
  THEN {[photo |-> p, expiry |-> e, kyc |-> k] : p \in Content, e \in Values, k \in Values}
  ELSE {[photo |-> p, expiry |-> e] : p \in Content, e \in Values} \cup {[expiry |-> e] : e \in Values}

(* updateKycStatus: of a document with its photo, to another status. *)
StatusEdits ==
  {[kyc |-> v] : v \in IF None \in {stored["kyc"], stored["photo"]} THEN {} ELSE Values \ {stored["kyc"]}}
  \cup {[status |-> v] : v \in Values \ {stored["status"]}}

(* removeAccountCard, addAccountBank, deleteAccountBank; "bank" is one of  *)
(* the up to three accounts of the member.                                 *)
CardAndBankEdits ==
  {[card |-> None]} \cup
  IF stored["bank"] = None THEN {[bank |-> v] : v \in Values} ELSE {[bank |-> None]}

Read(m) ==
  /\ job[m] = {} /\ left > 0 /\ left' = left - 1
  /\ \E set \in DocumentEdits \cup StatusEdits \cup CardAndBankEdits :
       job' = [job EXCEPT ![m] = {[set |-> set, seen |-> stored, phase |-> "read"]}]
  /\ UNCHANGED <<stored, log, page>>

Set(j) == [k \in Kinds |-> IF k \in DOMAIN j.set THEN j.set[k] ELSE stored[k]]

----------------------------------------------------------------------------
(* What a handler logs. *)

Before(k, v) ==
  IF v # None THEN Text(v) ELSE IF k \in Document THEN Dash ELSE Empty

NotWhenCleared(j, k) == j.set[k] # None   \* mutant: what was cleared is not logged

(* updateRemarkOrImagePathOrExpiryDate logs the empty path of a cleared    *)
(* photo; the path of a photo a new document lacks is null and not logged. *)
IsLogged(j, k) ==
  CASE k = "photo" /\ j.seen["kyc"] = None -> j.set[k] # None
    [] k \in Document -> j.set[k] # j.seen[k] \/ j.set[k] = None
    [] OTHER -> TRUE

Row(j, k) ==
  [before |-> Before(k, j.seen[k]), was |-> j.seen[k],
   after |-> IF j.set[k] = None THEN Empty ELSE Text(j.set[k]), is |-> j.set[k]]

Log(j) ==
  log' = [k \in Kinds |-> IF k \in DOMAIN j.set /\ IsLogged(j, k) THEN Append(log[k], Row(j, k)) ELSE log[k]]

(* The card's row is logged by the transaction that removes it, and only   *)
(* when a card was removed.                                                *)
RemoveCard(m) ==
  /\ \E j \in job[m] :
       /\ DOMAIN j.set = {"card"}
       /\ IF stored["card"] # None THEN Log(j) ELSE UNCHANGED log
       /\ stored' = Set(j)
  /\ job' = [job EXCEPT ![m] = {}]
  /\ UNCHANGED <<left, page>>

Commit(m) ==
  /\ \E j \in job[m] :
       /\ j.phase = "read" /\ DOMAIN j.set # {"card"}
       /\ stored' = Set(j)
       /\ job' = [job EXCEPT ![m] = {[j EXCEPT !.phase = "committed"]}]
  /\ UNCHANGED <<log, left, page>>

LogChange(m) ==
  /\ \E j \in job[m] : j.phase = "committed" /\ Log(j)
  /\ job' = [job EXCEPT ![m] = {}]
  /\ UNCHANGED <<stored, left, page>>

(* The player adds a first card, in one transaction with its row. *)
AddCard(v) ==
  /\ stored["card"] = None /\ left > 0 /\ left' = left - 1
  /\ stored' = [stored EXCEPT !["card"] = v]
  /\ Log([set |-> [card |-> v], seen |-> stored])
  /\ UNCHANGED <<job, page>>

----------------------------------------------------------------------------
(* The tab. *)

(* What a cell shows: a value, a dash (None), or the table stops. *)
Shows(v) == [drawn |-> TRUE, value |-> v]
Throws == [drawn |-> FALSE, value |-> None]

(* DateUtil.convert: a date out of any text, an invalid one as well. *)
convert(text) == IF text.as = "value" THEN {text.of} ELSE {}

(* A date that is no date is refused as it is formatted. *)
ShownDate(text) ==
  IF text.as = "dash" THEN Shows(None)
  ELSE IF convert(text) = {} THEN Throws ELSE Shows(text.of)

(* An empty text is an object without entries; a dash does not parse. *)
ShownJson(text) == IF text.as = "dash" THEN Throws ELSE Shows(text.of)

getDisplayName(k, text) ==
  CASE k \in {"photo", "kyc"}  -> Shows(text.of)
    [] k = "expiry"            -> ShownDate(text)
    [] k \in {"card", "bank"}  -> ShownJson(text)
    [] k = "status"            -> IF text.as = "dash" THEN Throws ELSE Shows(text.of)

(* The cells of a row. *)
searchProfileUpdateLog(k, row) ==
  [before |-> getDisplayName(k, row.before), after |-> getDisplayName(k, row.after)]

(* The button of a photo's cell; the open dialog covers the table. *)
viewKycImage ==
  /\ asked = None /\ ~dialog.open
  /\ \E i \in DOMAIN log["photo"], side \in {"before", "after"} :
       LET cell == searchProfileUpdateLog("photo", log["photo"][i])[side] IN
         /\ cell.value # None
         /\ asked' = cell.value /\ clicked' = cell.value
  /\ UNCHANGED <<member, dialog>>

(* viewImageForUpdateLog and the answer: the image, or that there is none. *)
Image(path) == IF path \in Readable THEN path ELSE None

ImageCame ==
  /\ asked # None
  /\ dialog' = [open |-> TRUE, shows |-> Image(asked)]
  /\ asked' = None
  /\ UNCHANGED <<member, clicked>>

ImageFailed ==
  /\ asked # None /\ asked' = None
  /\ UNCHANGED <<member, dialog, clicked>>

CloseDialog ==
  /\ dialog.open /\ dialog' = [dialog EXCEPT !.open = FALSE]
  /\ UNCHANGED <<member, asked, clicked>>

Next ==
  \/ \E m \in Managers : Read(m) \/ Commit(m) \/ LogChange(m) \/ RemoveCard(m)
  \/ \E v \in Values : AddCard(v)
  \/ viewKycImage \/ ImageCame \/ ImageFailed \/ CloseDialog

Spec == Init /\ [][Next]_vars

----------------------------------------------------------------------------
(* Rows and jobs are well formed, and no job is left without a change. *)
TypeOK ==
  /\ stored \in [Kinds -> Content] /\ stored["status"] # None
  /\ \A m \in Managers : Cardinality(job[m]) <= 1
  /\ \A m \in Managers : \A j \in job[m] : DOMAIN j.set \subseteq Kinds /\ DOMAIN j.set # {}
  /\ asked \in Content /\ dialog \in [open : BOOLEAN, shows : Content]

(* Whatever the handlers of a kind write for nothing, the tab draws the    *)
(* row, and draws the value the handler found and the one it left.  One    *)
(* cell that throws leaves the whole tab empty (getDisplayName).           *)
EveryRowIsDrawn ==
  \A k \in Kinds : \A i \in DOMAIN log[k] :
    LET row == log[k][i] IN
      searchProfileUpdateLog(k, row) = [before |-> Shows(row.was), after |-> Shows(row.is)]

(* When one manager makes the changes, the last row of a kind is drawn     *)
(* with what is stored, a photo that was cleared included.                 *)
LastRowTellsStored ==
  (\A m, n \in Managers : m = n /\ job[m] = {}) =>
    \A k \in Kinds : log[k] # <<>> =>
      searchProfileUpdateLog(k, log[k][Len(log[k])]).after = Shows(stored[k])

(* The dialog shows the image of the button that was pressed last or that  *)
(* there is none, never that of an earlier row (viewKycImage).             *)
ImageOfLastClick == dialog.open => dialog.shows \in {clicked, None}

----------------------------------------------------------------------------
(* What the proofs rest on. *)
Sides == [as : {"dash", "empty", "value"}, of : Content]
Rows == [before : Sides, was : Content, after : Sides, is : Content]

(* A change: what it sets is never taken away but for a photo, a card or a *)
(* bank; a card is only removed, and alone, and a photo set only of a      *)
(* document or with a new one.                                               *)
IsEdit(set, seen) ==
  /\ DOMAIN set \subseteq Kinds /\ DOMAIN set # {} /\ \A k \in DOMAIN set : set[k] \in Content
  /\ \A k \in {"expiry", "kyc", "status"} \cap DOMAIN set : set[k] # None
  /\ "card" \in DOMAIN set => DOMAIN set = {"card"} /\ set["card"] = None
  /\ "photo" \in DOMAIN set => seen["kyc"] # None \/ "kyc" \in DOMAIN set

IsJob(j) ==
  /\ j = [set |-> j.set, seen |-> j.seen, phase |-> j.phase]
  /\ IsEdit(j.set, j.seen) /\ j.seen \in [Kinds -> Content] /\ j.phase \in {"read", "committed"}
  /\ j.phase = "committed" => DOMAIN j.set # {"card"}

JobInv ==
  /\ DOMAIN job = Managers
  /\ \A m \in Managers : job[m] = {} \/ \E j \in job[m] : job[m] = {j} /\ IsJob(j)

LogInv == log \in [Kinds -> Seq(Rows)] /\ EveryRowIsDrawn

PageInv == clicked \in Content /\ asked \in {clicked, None} /\ ImageOfLastClick

(* With one manager: a change that is committed and not logged is the only *)
(* one the log does not tell of.                                           *)
Told(k) == log[k] # <<>> => log[k][Len(log[k])].is = stored[k]

TellsOf(j) ==
  /\ j.phase = "read" => \A k \in Kinds \ {"card"} : j.seen[k] = stored[k]
  /\ j.phase = "committed" => /\ \A k \in DOMAIN j.set : stored[k] = j.set[k]
                              /\ "photo" \in DOMAIN j.set => stored["kyc"] # None

Untold(k) == \E m \in Managers : \E j \in job[m] : j.phase = "committed" /\ k \in DOMAIN j.set /\ IsLogged(j, k)

LastInv ==
  (\A m, n \in Managers : m = n) =>
    /\ stored["kyc"] = None => stored["photo"] = None /\ log["photo"] = <<>>
    /\ \A m \in Managers : \A j \in job[m] : TellsOf(j)
    /\ \A k \in Kinds : Told(k) \/ Untold(k)

IInv == TypeOK /\ JobInv /\ LogInv /\ PageInv /\ LastInv
=============================================================================
