-------------------------- MODULE PlayLimitSetting --------------------------
(***************************************************************************)
(* The page on which a manager sets the play limits of one member.  One    *)
(* request loads every setting; the answer draws all the forms anew, also  *)
(* those the manager is filling in.  Each form saves its own setting and a *)
(* success loads everything again.  The player and the job that applies    *)
(* pending values change the settings meanwhile.                           *)
(***************************************************************************)
EXTENDS Integers, FiniteSets

CONSTANTS
  Amounts,     \* forms with an amount, in halves of the currency unit
  TimeSpent,   \* forms with a list of play times
  Exclusions,  \* forms with a list of exclusions
  Typed,       \* amounts the manager types
  Choices,     \* members of the lists
  MaxAmount,   \* the largest amount the field keeps
  Slots        \* bound: requests in flight

(* How a new value of a limit or of an exclusion is taken: at once when it *)
(* is at least as strict as the current one, else after a waiting time.    *)
(* A setting is [cur, new, pending]; it is pending while new waits.        *)
NoLimit == 0       \* also: no exclusion
Indefinite == -1   \* an exclusion without an end

Active(v) == [cur |-> v, new |-> v, pending |-> FALSE]
Pending(c, v) == [cur |-> c, new |-> v, pending |-> TRUE]

LimitAtOnce(c, v) == c = NoLimit \/ v = c \/ (v < c /\ v # NoLimit)

ExclusionAtOnce(c, v) ==
  IF c = Indefinite THEN v = Indefinite
  ELSE c = NoLimit \/ v = Indefinite \/ v >= c

AtOnce(exclusion, c, v) == IF exclusion THEN ExclusionAtOnce(c, v) ELSE LimitAtOnce(c, v)

(* The requested value again changes nothing, the waiting time included.   *)
Decide(exclusion, r, v) ==
  IF v = r.new THEN r
  ELSE IF AtOnce(exclusion, r.cur, v) THEN Active(v) ELSE Pending(r.cur, v)

-----------------------------------------------------------------------------
Forms == Amounts \cup TimeSpent \cup Exclusions

PlayLimitSettingAssumption ==
  /\ Typed \subseteq Int /\ MaxAmount \in Nat /\ MaxAmount % 2 = 0
  /\ Choices \subseteq Int /\ NoLimit \in Choices
  /\ Amounts \cap (TimeSpent \cup Exclusions) = {} /\ TimeSpent \cap Exclusions = {}

VARIABLES
  row,        \* the settings of the member
  cacheData,  \* the settings the page drew last
  input,      \* the new value each form shows
  label,      \* the current value each form shows
  message,    \* forms that show a pending request and its Cancel Request link
  flight,     \* requests: [op, state, form, val, kept, data]
  edited,     \* history: forms changed by hand since they were drawn
  elsewhere,  \* history: a setting changed elsewhere since the last load was served
  disturbed   \* history: an answer was lost or overtook another

vars == <<row, cacheData, input, label, message, flight, edited,
          elsewhere, disturbed>>
page == <<cacheData, input, label, message, edited>>

Whole(v) == 2 * (v \div 2)   \* parseInt
Clamp(v) == IF v <= 0 THEN 0 ELSE IF v > MaxAmount THEN MaxAmount ELSE v

Posted == {Whole(Clamp(v)) : v \in Typed} \cup {NoLimit}
Values(f) == IF f \in Amounts THEN Posted
             ELSE IF f \in TimeSpent THEN Choices \ {Indefinite} ELSE Choices
Rows(f) ==
  {Active(v) : v \in Values(f)} \cup
  {Pending(c, v) : c, v \in Values(f)}
Reachable(f, r) == r.pending => r.cur # r.new /\ ~AtOnce(f \in Exclusions, r.cur, r.new)

NoForm == "none"
NoRows == [f \in Forms |-> Active(NoLimit)]
Free == [op |-> "free", state |-> "free", form |-> NoForm, val |-> NoLimit,
         kept |-> FALSE, data |-> NoRows]
Load == [Free EXCEPT !.op = "load", !.state = "asked"]
Out(op) == {s \in Slots : flight[s].op = op}
Quiet == \A s \in Slots : flight[s] = Free

TypeOK ==
  /\ \A f \in Forms : row[f] \in Rows(f) /\ Reachable(f, row[f])
  /\ \A f \in Forms : input[f] \in Values(f) \cup {Clamp(v) : v \in Typed}
  /\ \A f \in Forms : cacheData[f] \in Rows(f) /\ label[f] \in Values(f)
  /\ message \subseteq Forms /\ edited \subseteq Forms
  /\ \A s \in Slots : flight[s].op \in {"free", "load", "save"}

(* init asks for the settings; the page comes with zeros and no values.    *)
Init ==
  /\ row \in {r \in [Forms -> UNION {Rows(f) : f \in Forms}] :
                \A f \in Forms : r[f] \in Rows(f) /\ Reachable(f, r[f])}
  /\ cacheData = NoRows
  /\ input = [f \in Forms |-> NoLimit] /\ label = [f \in Forms |-> NoLimit]
  /\ message = {} /\ edited = {} /\ elsewhere = FALSE /\ disturbed = FALSE
  /\ \E s \in Slots : flight = [t \in Slots |-> IF t = s THEN Load ELSE Free]

----------------------------------------------------------------------------
(* Loading and drawing. *)

ServeLoad(s) ==
  /\ flight[s] = Load
  /\ flight' = [flight EXCEPT ![s].state = "served", ![s].data = row]
  /\ elsewhere' = FALSE
  /\ UNCHANGED <<row, page, disturbed>>

(* The current limit is written unless it is zero. *)
updateCurrentLimit(f, r) == IF f \in Amounts /\ r.cur = NoLimit THEN label[f] ELSE r.cur

(* The input gets the requested value; without a message the current one.  *)
handleMessage(f, r) ==
  IF ~r.pending THEN r.cur
  ELSE IF f \in Amounts /\ r.cur = NoLimit THEN input[f] ELSE r.new

renderPlayerResponsibilities(d) ==
  /\ cacheData' = d
  /\ label' = [f \in Forms |-> updateCurrentLimit(f, d[f])]
  /\ message' = {f \in Forms : d[f].pending}
  /\ input' = [f \in Forms |-> handleMessage(f, d[f])]
  /\ edited' = {}

getPlayerResponsibilities(s) ==
  /\ flight[s].op = "load" /\ flight[s].state = "served"
  /\ renderPlayerResponsibilities(flight[s].data)
  /\ flight' = [flight EXCEPT ![s] = Free]
  /\ disturbed' = (disturbed \/ Out("load") # {s})
  /\ UNCHANGED <<row, elsewhere>>

----------------------------------------------------------------------------
(* The forms. *)

SetInput(f, v) ==
  /\ input' = [input EXCEPT ![f] = v] /\ edited' = edited \cup {f}
  /\ UNCHANGED <<row, cacheData, label, message, flight, elsewhere, disturbed>>

onChangeSeparator(f, v) == f \in Amounts /\ SetInput(f, Clamp(v))
Choose(f, v) == f \notin Amounts /\ v \in Values(f) /\ SetInput(f, v)
clearText(f) == SetInput(f, NoLimit)

(* The link puts the current value back and hides the message.             *)
CancelRequest(f) ==
  /\ f \in message
  /\ input' = [input EXCEPT ![f] = cacheData[f].cur]
  /\ message' = message \ {f}
  /\ edited' = edited \cup {f}
  /\ UNCHANGED <<row, cacheData, label, flight, elsewhere, disturbed>>

CollectedShownCurrent(f) == cacheData[f].cur   \* mutant: the current value is posted

(* What a form posts: of an amount the whole units. *)
Collected(f) == IF f \in Amounts THEN Whole(input[f]) ELSE input[f]

(* The validators ask for a value; a field emptied by hand has become 0.   *)
Required(f) == input[f] \in Int

saveAction(f) ==
  /\ Required(f)
  /\ \E s \in Slots :
       /\ flight[s] = Free
       /\ flight' = [flight EXCEPT ![s] =
            [Free EXCEPT !.op = "save", !.state = "asked", !.form = f, !.val = Collected(f),
                         !.kept = f \notin edited /\ Quiet /\ ~elsewhere /\ ~disturbed]]
  /\ UNCHANGED <<row, cacheData, input, label, message, edited, elsewhere, disturbed>>

(* A change of a setting voids what the saves in flight were compared with. *)
Unkept(f) == [s \in Slots |-> IF flight[s].form = f THEN [flight[s] EXCEPT !.kept = FALSE]
                              ELSE flight[s]]
Change(f, v) == row' = [row EXCEPT ![f] = Decide(f \in Exclusions, row[f], v)]

updatePlayerResponsibility(s) ==
  /\ flight[s].op = "save" /\ flight[s].state = "asked"
  /\ Change(flight[s].form, flight[s].val)
  /\ flight' = [Unkept(flight[s].form) EXCEPT ![s] = [flight[s] EXCEPT !.state = "served"]]
  /\ UNCHANGED <<page, elsewhere, disturbed>>

Saved(s) ==
  /\ flight[s].op = "save" /\ flight[s].state = "served"
  /\ flight' = [flight EXCEPT ![s] = Load]
  /\ UNCHANGED <<row, page, elsewhere, disturbed>>

(* A refused save, or an answer that is lost, is only reported. *)
Fail(s) ==
  /\ flight[s] # Free
  /\ flight' = [flight EXCEPT ![s] = Free]
  /\ disturbed' = (disturbed \/ flight[s].op = "load" \/ flight[s].state = "served")
  /\ UNCHANGED <<row, page, elsewhere>>

----------------------------------------------------------------------------
(* The settings change elsewhere. *)

(* The player saves a setting; an exclusion of his is taken at once.       *)
PlayerUpdates(f, v) ==
  /\ v # row[f].new
  /\ IF f \in Exclusions THEN row' = [row EXCEPT ![f] = Active(v)] ELSE Change(f, v)
  /\ flight' = Unkept(f) /\ elsewhere' = TRUE
  /\ UNCHANGED <<cacheData, input, label, message, edited, disturbed>>

(* The job applies a pending value, or ends an exclusion and with it what  *)
(* is pending.                                                             *)
checkEffective(f) ==
  /\ \/ row[f].pending /\ row' = [row EXCEPT ![f] = Active(row[f].new)]
     \/ /\ f \in Exclusions /\ row[f].cur \notin {NoLimit, Indefinite}
        /\ row' = [row EXCEPT ![f] = Active(NoLimit)]
  /\ flight' = Unkept(f) /\ elsewhere' = TRUE
  /\ UNCHANGED <<cacheData, input, label, message, edited, disturbed>>

Manager(f) ==
  \/ \E v \in Typed : onChangeSeparator(f, v)
  \/ \E v \in Choices : Choose(f, v)
  \/ clearText(f) \/ CancelRequest(f) \/ saveAction(f)

Next ==
  \/ \E s \in Slots :
       ServeLoad(s) \/ getPlayerResponsibilities(s) \/ updatePlayerResponsibility(s)
       \/ Saved(s) \/ Fail(s)
  \/ \E f \in Forms :
       Manager(f) \/ checkEffective(f) \/ \E v \in Values(f) : PlayerUpdates(f, v)

Spec == Init /\ [][Next]_vars

----------------------------------------------------------------------------
Untouched == Forms \ edited
InStep == Quiet /\ ~disturbed /\ ~elsewhere

(* With every answer in, a form the manager left alone shows the request   *)
(* that waits, or the current value, and the link exactly when one waits   *)
(* (setting.js:70-83, 286-298); the current limit may be stale only once   *)
(* it is gone (setting.js:266-270).                                        *)
QuietPageIsFresh ==
  InStep => \A f \in Untouched :
    /\ input[f] = row[f].new
    /\ f \in message <=> row[f].pending
    /\ label[f] # row[f].cur => f \in Amounts /\ row[f].cur = NoLimit

(* Saving a form as it was drawn changes no setting and restarts no        *)
(* waiting time (setting.js:679-719, AccountPlayResponsiblyLimitsBO.java:  *)
(* 326-329).                                                               *)
UneditedSaveKeeps ==
  \A s \in Slots : flight[s].kept /\ updatePlayerResponsibility(s) => row' = row

----------------------------------------------------------------------------
(***************************************************************************)
(* What the proofs rest on.                                                *)
(***************************************************************************)
Settings == [cur : Int, new : Int, pending : BOOLEAN]
Requests ==
  [op : {"free", "load", "save"}, state : {"free", "asked", "served"}, form : Forms \cup {NoForm},
   val : Int, kept : BOOLEAN, data : [Forms -> Settings]]

(* Types; a save is of a form and of a value it may have. *)
RowFormed == row \in [Forms -> Settings] /\ \A f \in Forms : row[f] \in Rows(f) /\ Reachable(f, row[f])

PageFormed ==
  /\ cacheData \in [Forms -> Settings] /\ input \in [Forms -> Int] /\ label \in [Forms -> Int]
  /\ \A f \in Forms : /\ cacheData[f] \in Rows(f) /\ label[f] \in Values(f)
                      /\ input[f] \in Values(f) \/ (f \in Amounts /\ input[f] \in {Clamp(v) : v \in Typed})
  /\ message \subseteq Forms /\ edited \subseteq Forms

Fits(q) ==
  /\ q \in Requests
  /\ \A f \in Forms : q.data[f] \in Rows(f)
  /\ q.op = "save" => q.form \in Forms /\ q.val \in Values(q.form)

SlotsFormed == flight \in [Slots -> Requests] /\ \A s \in Slots : Fits(flight[s])

(* The form shows the setting r. *)
ShownAs(f, r) ==
  /\ input[f] = r.new
  /\ f \in message <=> r.pending
  /\ label[f] # r.cur => f \in Amounts /\ r.cur = NoLimit

(* A save was taken and its load is not asked yet. *)
LoadIsDue == \E s \in Out("save") : flight[s].state = "served"

(* The only load that is out brings what is stored, and without one the    *)
(* forms that were left alone show it, unless another load is due.         *)
FreshInv ==
  ~disturbed /\ ~elsewhere /\ ~LoadIsDue =>
    /\ \A s \in Slots : Out("load") = {s} /\ flight[s].state = "served" => flight[s].data = row
    /\ Out("load") = {} => \A f \in Untouched : ShownAs(f, row[f])

(* A save that is kept posts the value that was requested last. *)
KeptInv == \A s \in Slots : flight[s].kept => flight[s].op = "save" /\ flight[s].val = row[flight[s].form].new

IInv == RowFormed /\ PageFormed /\ SlotsFormed /\ FreshInv /\ KeptInv
=============================================================================
