----------------------------- MODULE DataTable -----------------------------
(***************************************************************************)
(* A server-side table of the back office: DataTableHandler.create over    *)
(* jQuery DataTables 1.9.4 with the bootstrap pager.  The table asks the   *)
(* server for a page of the rows that match the form; the whole page is    *)
(* blocked while it waits, but the timer of the length menu and the        *)
(* redraws that other handlers ask for do not wait for the overlay.        *)
(***************************************************************************)
EXTENDS Integers

CONSTANTS
  Criteria,      \* what the search form may hold
  Count,         \* [Criteria -> Nat], the rows that match
  Lengths,       \* the entries of the length menu
  InitLength,    \* iDisplayLength
  Filters,       \* dropdownOptions; one element when the table has none
  FullPageTurns, \* TRUE for depositSearchTable
  MaxDraws       \* bound: the draws of a behaviour

DataTableAssumption ==
  /\ Count \in [Criteria -> Nat]
  /\ Lengths \subseteq Nat \ {0} /\ InitLength \in Lengths
  /\ FullPageTurns \in BOOLEAN /\ MaxDraws \in Nat

VARIABLES
  form,      \* [criteria, valid, reinitPage]: the search form
  made,      \* the table was created
  start,     \* _iDisplayStart
  length,    \* _iDisplayLength
  desc,      \* aaSorting
  filter,    \* the value of the dropdown
  records,   \* _iRecordsDisplay
  loaded,    \* aoData.length
  pager,     \* [length, pages] captured by the page links
  rows,      \* the query whose answer is on the screen
  flight,    \* the requests not answered yet
  blocked,   \* App.blockUI(body)
  timer,     \* the setTimeout of the length menu
  sent,      \* number of requests sent
  \* history
  asked,     \* the query of the last request
  raced,     \* a draw that needs no click was sent while another was open
  missed     \* a draw was refused or failed

formVars == <<form, made, filter>>
pageVars == <<start, length, desc>>
dataVars == <<records, loaded, pager, rows>>
netVars == <<flight, blocked, timer, sent>>
histVars == <<asked, raced, missed>>
vars == <<formVars, pageVars, dataVars, netVars, histVars>>

None == [id |-> 0]
CeilDiv(a, b) == (a + b - 1) \div b
Least(a, b) == IF a < b THEN a ELSE b

(* The state is well formed: the page never starts before the first record,*)
(* and an open request was sent.                                           *)
TypeOK ==
  /\ form \in [criteria : Criteria, valid : BOOLEAN, reinitPage : BOOLEAN]
  /\ made \in BOOLEAN /\ blocked \in BOOLEAN /\ timer \in BOOLEAN /\ desc \in BOOLEAN
  /\ start \in Nat /\ length \in Lengths /\ filter \in Filters
  /\ records \in Nat /\ loaded \in Nat
  /\ pager \in [length : Lengths, pages : Nat]
  /\ sent \in 0..MaxDraws
  /\ \A r \in flight : r.id \in 1..sent
  /\ raced \in BOOLEAN /\ missed \in BOOLEAN

Init ==
  /\ form \in [criteria : Criteria, valid : {TRUE}, reinitPage : {FALSE}]
  /\ filter \in Filters
  /\ made = FALSE
  /\ start = 0 /\ length = InitLength /\ desc = TRUE
  /\ records = 0 /\ loaded = 0 /\ pager = [length |-> InitLength, pages |-> 0] /\ rows = None
  /\ flight = {} /\ blocked = FALSE /\ timer = FALSE /\ sent = 0
  /\ asked = None /\ raced = FALSE /\ missed = FALSE

----------------------------------------------------------------------------
(* The request of fnServerData; aoData, and with it sEcho, is not sent. *)
Request(f, at) ==
  [id |-> sent + 1, criteria |-> f.criteria, filter |-> filter',
   page |-> CeilDiv(at, length') + 1, size |-> length', desc |-> desc']

Send(f, at, unattended) ==
  /\ flight' = flight \cup {Request(f, at)} /\ asked' = Request(f, at)
  /\ sent' = sent + 1 /\ blocked' = TRUE /\ start' = at
  /\ raced' = (flight # {} /\ (raced \/ unattended))
  /\ UNCHANGED missed

(* A draw of the server-side table with the form f: nothing is sent for an *)
(* invalid form, and a form that says so starts again from the first page. *)
Draw(f, from, unattended) ==
  /\ sent < MaxDraws
  /\ form' = [f EXCEPT !.reinitPage = @ /\ ~f.valid]
  /\ IF f.valid
     THEN Send(f, IF f.reinitPage THEN 0 ELSE from, unattended)
     ELSE /\ start' = from
          /\ missed' = TRUE
          /\ UNCHANGED <<flight, blocked, sent, asked, raced>>

(* The manager edits the form; nothing is sent. *)
EditForm(c, ok) ==
  /\ ~blocked
  /\ form' = [form EXCEPT !.criteria = c, !.valid = ok]
  /\ UNCHANGED <<made, filter, pageVars, dataVars, netVars, histVars>>

(* create: the first call builds the table and sorts it, a later one       *)
(* clears the data and draws the page the table is on.                     *)
Create(f) ==
  /\ made' = TRUE
  /\ loaded' = 0
  /\ UNCHANGED <<filter, length, desc, records, pager, rows, timer>>
  /\ Draw(f, IF made THEN start ELSE 0, FALSE)

SearchAnyTime == Create(form)   \* mutant: App.blockUI is not called

Search == ~blocked /\ Create(form)

(* The openers of the details tables fill their form and set reinitPage. *)
OpenDetails(c) ==
  /\ ~blocked /\ form.valid
  /\ Create([form EXCEPT !.criteria = c, !.reinitPage = TRUE])

(* fnDisplayEnd of a server-side table. *)
DisplayEnd(from, size) == Least(from + size, records)

Previous == IF start < length THEN 0 ELSE start - length

NextStart == IF start + length < records THEN start + length ELSE start

(* The arrows of the bootstrap pager draw when the page changes, and on a  *)
(* full page of depositSearchTable always.                                 *)
Turn(to) ==
  /\ ~blocked /\ made
  /\ to # start \/ (FullPageTurns /\ loaded = length)
  /\ UNCHANGED <<made, filter, length, desc, dataVars, timer>>
  /\ Draw(form, to, FALSE)

TurnPage == Turn(Previous) \/ Turn(NextStart)

(* A numbered link keeps the length that was in force when it was drawn. *)
PageLink(n) ==
  /\ ~blocked /\ made
  /\ n \in 1..pager.pages
  /\ UNCHANGED <<made, filter, length, desc, dataVars, timer>>
  /\ Draw(form, (n - 1) * pager.length, FALSE)

(* The length menu draws at once, backing up from the end of the table,    *)
(* and again from the first page when its timer fires.                     *)
ChangeLengthNoTimer(l) ==   \* mutant: the select has no onchange
  /\ ~blocked /\ made /\ l # length
  /\ length' = l
  /\ UNCHANGED <<made, filter, desc, dataVars, timer>>
  /\ Draw(form, IF DisplayEnd(start, l) # records THEN start ELSE IF records < l THEN 0 ELSE records - l, FALSE)

ChangeLength(l) ==
  /\ ~blocked /\ made /\ l # length
  /\ length' = l
  /\ timer' = TRUE
  /\ UNCHANGED <<made, filter, desc, dataVars>>
  /\ Draw(form, IF DisplayEnd(start, l) # records THEN start ELSE IF records < l THEN 0 ELSE records - l, FALSE)

TimerFires ==
  /\ timer
  /\ timer' = FALSE
  /\ UNCHANGED <<made, filter, length, desc, dataVars>>
  /\ Draw(form, 0, TRUE)

(* _fnSort: a click on a column head goes back to the first page. *)
SortColumn ==
  /\ ~blocked /\ made
  /\ desc' = ~desc
  /\ UNCHANGED <<made, filter, length, dataVars, timer>>
  /\ Draw(form, 0, FALSE)

(* The dropdown of the toolbar, there once the table has been drawn. *)
ChooseFilter(f) ==
  /\ ~blocked /\ rows # None /\ f # filter
  /\ filter' = f
  /\ UNCHANGED <<made, length, desc, dataVars, timer>>
  /\ Draw(form, 0, FALSE)

(* fnDraw called from the answer to another request of the page. *)
Redraw ==
  /\ made
  /\ UNCHANGED <<made, filter, length, desc, dataVars, timer>>
  /\ Draw(form, 0, TRUE)

RowsOf(r) ==
  LET left == Count[r.criteria] - (r.page - 1) * r.size IN
  IF left < 0 THEN 0 ELSE Least(left, r.size)

(* _fnAjaxUpdateDraw: the answer replaces the rows, whichever request it   *)
(* belongs to, and the links of the pager are drawn for the present length.*)
Answered(r) ==
  /\ r \in flight
  /\ flight' = flight \ {r}
  /\ rows' = r
  /\ records' = Count[r.criteria]
  /\ loaded' = RowsOf(r)
  /\ pager' = [length |-> length, pages |-> CeilDiv(records', length)]
  /\ blocked' = FALSE
  /\ UNCHANGED <<formVars, pageVars, timer, sent, histVars>>

(* An answer with an error, or none: only the overlay goes away. *)
Failed(r) ==
  /\ r \in flight
  /\ flight' = flight \ {r}
  /\ blocked' = FALSE
  /\ missed' = TRUE
  /\ UNCHANGED <<formVars, pageVars, dataVars, timer, sent, asked, raced>>

Click ==
  \/ \E c \in Criteria, ok \in BOOLEAN : EditForm(c, ok)
  \/ Search
  \/ \E c \in Criteria : OpenDetails(c)
  \/ TurnPage
  \/ \E n \in 1..pager.pages : PageLink(n)
  \/ \E l \in Lengths : ChangeLength(l)
  \/ SortColumn
  \/ \E f \in Filters : ChooseFilter(f)

Net == \E r \in flight : Answered(r) \/ Failed(r)

Next == Click \/ TimerFires \/ Redraw \/ Net

Spec == Init /\ [][Next]_vars

----------------------------------------------------------------------------
(* When nothing is open the screen shows the answer to the last request,   *)
(* unless one failed or an unattended draw overtook a click: the overlay   *)
(* is what keeps two clicks from racing.                                   *)
ClicksDoNotRace == flight = {} /\ ~raced /\ ~missed => rows = asked

(* When nothing is open, _fnUpdateInfo tells the records that are shown:   *)
(* the rows are those of the page that starts at _iDisplayStart.  A change *)
(* of the length may leave the start between two pages of the new length,  *)
(* until its timer takes the table back to the first page.                 *)
InfoTellsRows ==
  flight = {} /\ ~timer /\ ~raced /\ ~missed /\ rows # None =>
    (rows.page - 1) * rows.size = start /\ rows.size = length

(* The pager never asks for a page after the last one of the rows it shows:*)
(* a numbered link while the length it was drawn for is in force, an arrow *)
(* once the timer has fired and no draw was overtaken, refused or lost.    *)
PagerStaysInside ==
  \A r \in flight' \ flight :
       (\/ pager.length = length /\ \E n \in 1..pager.pages : PageLink(n)
        \/ ~timer /\ ~raced /\ ~missed /\ Turn(NextStart))
         => (r.page - 1) * r.size < records \/ records = 0

(* The overlay is never left behind when every request was answered. *)
OverlayGoesAway == flight = {} => ~blocked

----------------------------------------------------------------------------
(***************************************************************************)
(* What the proofs rest on.                                                *)
(***************************************************************************)
(* A page starts at a multiple of its length once the timer has fired. *)
PagesAreAligned == ~timer /\ ~missed => start % length = 0

Requests ==
  [id : Nat, criteria : Criteria, filter : Filters, page : Nat, size : Lengths,
   desc : BOOLEAN]

(* Types, with what is asked and shown. *)
Typed ==
  /\ TypeOK
  /\ flight \subseteq Requests
  /\ asked \in Requests \cup {None} /\ rows \in Requests \cup {None}

(* As long as nobody raced, one request at most is open, behind the        *)
(* overlay, and it is the last one.                                        *)
RaceInv ==
  ~raced => /\ flight = {} \/ (flight = {asked} /\ blocked)
            /\ flight = {} /\ ~missed => rows = asked

(* The numbers of the pager belong to the rows on the screen, and the last *)
(* request to the page the table is on.                                    *)
PagerInv ==
  /\ pager.pages = CeilDiv(records, pager.length)
  /\ ~missed /\ ~blocked => pager.length = length
  /\ IF rows = None THEN loaded = 0
     ELSE records = Count[rows.criteria] /\ loaded \in {0, RowsOf(rows)}
  /\ ~missed /\ asked # None => asked.page = CeilDiv(start, length) + 1 /\ asked.size = length

IInv == Typed /\ OverlayGoesAway /\ RaceInv /\ PagerInv /\ PagesAreAligned

(* What a click, the timer or a redraw makes of the table: a request for   *)
(* the page it goes to, or a refusal of the form.                          *)
Forms == [criteria : Criteria, valid : BOOLEAN, reinitPage : BOOLEAN]

Drawn(from, unattended) ==
  \/ /\ start' \in {0, from}
     /\ asked' \in Requests /\ asked'.id = sent + 1
     /\ asked'.page = CeilDiv(start', length') + 1 /\ asked'.size = length'
     /\ flight' = flight \cup {asked'} /\ blocked' = TRUE
     /\ sent + 1 <= MaxDraws /\ sent' = sent + 1
     /\ raced' = (flight # {} /\ (raced \/ unattended))
     /\ missed' = missed
  \/ /\ start' = from /\ missed' = TRUE
     /\ UNCHANGED <<flight, blocked, sent, asked, raced>>

Draws(from, unattended) ==
  /\ Drawn(from, unattended)
  /\ form' \in Forms /\ made' \in BOOLEAN /\ filter' \in Filters
  /\ length' \in Lengths /\ desc' \in BOOLEAN /\ timer' \in BOOLEAN
  /\ UNCHANGED <<records, pager, rows>> /\ loaded' \in {0, loaded}
  /\ blocked => unattended
  /\ timer' \/ missed \/ from % length' = 0

(* An edit of the form. *)
Edits ==
  /\ form' \in Forms
  /\ UNCHANGED <<made, filter, pageVars, dataVars, netVars, histVars>>
=============================================================================
