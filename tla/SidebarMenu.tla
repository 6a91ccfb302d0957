---------------------------- MODULE SidebarMenu ----------------------------
(***************************************************************************)
(* The navigation of a page (Sidebar.js): drawn once by initMenu, drawn    *)
(* again by every refresh that brings menus, opened and closed by clicks,  *)
(* resized at its divider.                                                 *)
(*                                                                         *)
(* A drawing and the binding of its clicks are one timer for a refresh and *)
(* two steps for initMenu, which draws in the answer and binds in a timer. *)
(* Timers without delay fire in order; answers come between them.          *)
(***************************************************************************)
EXTENDS Naturals, Sequences, FiniteSets

CONSTANTS
  Menus,         \* the menus that have entries below them
  Current,       \* the menu of the page shown, or a page without one
  Wide,          \* the window is wider than 767 pixels
  Positions,     \* places of the mouse
  DividerWidth,  \* pixels of the divider
  MaxRefreshes   \* bound on the refreshes answered

SidebarAssumption ==
  /\ Wide \in BOOLEAN
  /\ Positions \subseteq Nat
  /\ {DividerWidth, MaxRefreshes} \subseteq Nat

VARIABLES
  asked,      \* the request of initMenu is out
  timers,     \* drawings still to run
  nav,        \* menus drawn
  handlers,   \* click handlers of each link
  open,       \* menus whose entries are shown
  wanted,     \* menus the clicks since the last drawing leave open
  dividers,   \* mousedown handlers of the divider
  moves,      \* mousemove handlers of the document
  pressed,    \* the mouse is held on the divider
  width,      \* pixels of the sidebar
  refreshes,  \* refreshes answered, at most MaxRefreshes
  raced       \* initMenu bound what a refresh had drawn and bound

drawing == <<asked, timers, nav, handlers, open, wanted, refreshes, raced>>
dragging == <<moves, pressed, width>>
vars == <<drawing, dividers, dragging>>

Init ==
  /\ asked = TRUE
  /\ timers = <<>>
  /\ nav = {}
  /\ handlers = 0
  /\ open = {}
  /\ wanted = {}
  /\ dividers = 0
  /\ moves = 0
  /\ pressed = FALSE
  /\ width = 250
  /\ refreshes = 0
  /\ raced = FALSE

-----------------------------------------------------------------------------

(* The answer of initMenu draws the menus and leaves the clicks to a timer.*)
initMenu ==
  /\ asked
  /\ asked' = FALSE
  /\ nav' = Menus
  /\ handlers' = 0
  /\ open' = {}
  /\ wanted' = {}
  /\ timers' = Append(timers, "bind")
  /\ UNCHANGED <<dividers, dragging, refreshes, raced>>

(* An answer of the refresh: the menus, or the object of an error, which   *)
(* is an answer with content too.                                          *)
updateMenuBar(data) ==
  /\ refreshes < MaxRefreshes
  /\ \A i \in DOMAIN timers : timers[i] = "bind"
  /\ refreshes' = refreshes + 1
  /\ timers' = Append(timers, data)
  /\ UNCHANGED <<asked, nav, handlers, open, wanted, raced, dividers, dragging>>

(* handleSidebarMenu adds its handlers to what is drawn, bindMenuEvent     *)
(* opens the menu of the current page.                                     *)
bindOn(drawn, bound, shown) ==
  /\ handlers' = bound + 1
  /\ open' = shown \union ({Current} \intersect drawn)
  /\ wanted' = open'
  /\ dividers' = dividers + 1

BindTimer ==
  /\ timers # <<>> /\ Head(timers) = "bind"
  /\ timers' = Tail(timers)
  /\ bindOn(nav, handlers, open)
  /\ raced' = (raced \/ handlers > 0)
  /\ UNCHANGED <<asked, nav, refreshes, dragging>>

DrawTimer ==
  /\ timers # <<>> /\ Head(timers) = "menus"
  /\ timers' = Tail(timers)
  /\ nav' = Menus
  /\ bindOn(Menus, 0, {})
  /\ UNCHANGED <<asked, refreshes, raced, dragging>>

(* writeSideBar empties the navigation, then throws on the menus that the  *)
(* object of an error does not have.                                       *)
ErrorTimer ==
  /\ timers # <<>> /\ Head(timers) = "error"
  /\ timers' = Tail(timers)
  /\ nav' = {}
  /\ handlers' = 0
  /\ open' = {}
  /\ wanted' = {}
  /\ UNCHANGED <<asked, refreshes, raced, dividers, dragging>>

-----------------------------------------------------------------------------

\* mutant: the other menus stay open on a wide window as well
othersKept(p) == open

others(p) == IF Wide THEN {} ELSE open \ {p}

(* Each handler of the link toggles in turn. A menu that slides down or up *)
(* is visible, so every handler after the first closes.                    *)
toggle(p) ==
  /\ p \in nav
  /\ handlers > 0
  /\ open' = others(p) \union (IF p \notin open /\ handlers = 1 THEN {p} ELSE {})
  /\ wanted' = others(p) \union ({p} \ open)
  /\ UNCHANGED <<asked, timers, nav, handlers, refreshes, raced, dividers, dragging>>

(* Every mousedown handler binds a mousemove handler of its own.           *)
MouseDown ==
  /\ dividers > 0 /\ ~pressed
  /\ pressed' = TRUE
  /\ moves' = moves + dividers
  /\ UNCHANGED <<drawing, dividers, width>>

MouseMove(x) ==
  LET w == x + DividerWidth
  IN  /\ moves > 0
      /\ w <= 300 /\ w >= DividerWidth * 2 - 3
      /\ width' = IF w \in 240..260 THEN 250 ELSE w
      /\ UNCHANGED <<drawing, dividers, moves, pressed>>

MouseUp ==
  /\ pressed
  /\ pressed' = FALSE
  /\ moves' = 0
  /\ UNCHANGED <<drawing, dividers, width>>

Next ==
  \/ initMenu
  \/ \E data \in {"menus", "error"} : updateMenuBar(data)
  \/ BindTimer \/ DrawTimer \/ ErrorTimer
  \/ \E p \in Menus : toggle(p)
  \/ MouseDown
  \/ \E x \in Positions : MouseMove(x)
  \/ MouseUp

Spec == Init /\ [][Next]_vars

-----------------------------------------------------------------------------

TypeOK ==
  /\ {asked, pressed, raced} \subseteq BOOLEAN
  /\ \A i \in DOMAIN timers : timers[i] \in {"bind", "menus", "error"}
  /\ nav \in {{}, Menus}
  /\ open \subseteq nav
  /\ handlers \in 0..2
  /\ dividers \in 0..MaxRefreshes + 1
  /\ moves \in 0..MaxRefreshes + 1
  /\ width \in 0..300
  /\ refreshes \in 0..MaxRefreshes

(* On a wide window the menus are an accordion: at most one is open, after *)
(* any clicks and refreshes, unless initMenu was overtaken by a refresh    *)
(* (Sidebar.js:155-163, 286-309).                                          *)
Accordion == Wide /\ ~raced => Cardinality(open) <= 1

(* Every click turned the menu it was on, whatever was refreshed before,   *)
(* unless initMenu was overtaken by a refresh (Sidebar.js:149-190).        *)
ClicksTurnMenus == ~raced => open = wanted

(* The sidebar keeps its width while the mouse is not held on the divider, *)
(* though every refresh binds the divider again (Sidebar.js:211-245).      *)
StillWhenReleased == ~pressed => width' = width

-----------------------------------------------------------------------------
(* What the proofs rest on.  One timer binds what initMenu drew, and while *)
(* it is to come the links have the handler of a refresh at most.          *)
ToBind == {i \in DOMAIN timers : timers[i] = "bind"}

TimersInv ==
  /\ timers \in Seq({"bind", "menus", "error"})
  /\ \A i, j \in ToBind : i = j
  /\ asked => ToBind = {}
  /\ asked \/ ToBind # {} => handlers <= 1
  /\ dividers + Len(timers) + (IF asked THEN 1 ELSE 0) <= refreshes + 1

(* Without a handler nothing is open; one handler for each click, and what *)
(* is open, belong together until initMenu is overtaken.                   *)
OpenInv ==
  /\ handlers = 0 => open = {}
  /\ ~raced => handlers <= 1 /\ open = wanted
  /\ Wide /\ ~raced => \E p \in Menus \cup {Current} : open \subseteq {p}

(* The document follows the mouse while it is held, never longer. *)
DragInv == moves <= dividers /\ (moves > 0 => pressed)

IInv == TypeOK /\ TimersInv /\ OpenInv /\ DragInv
=============================================================================
