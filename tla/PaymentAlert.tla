--------------------------- MODULE PaymentAlert ---------------------------
(***************************************************************************)
(* The badges and the bell of the payments that wait (Top.js,              *)
(* renderPaymentNotification).  Every window of the back office polls on   *)
(* its own; the windows share what localStorage keeps, so that one bell    *)
(* rings for all of them.  A poll is answered from the payments of some    *)
(* moment and shown later, after what another window showed meanwhile.     *)
(***************************************************************************)
EXTENDS Integers, FiniteSets, Functions

CONSTANTS
  Windows,   \* the windows of one browser
  Kinds,     \* "deposit", "withdrawal"
  MaxCount,  \* bound: payments of a kind that wait
  Gap        \* bound: the ticks that stand for the 30 seconds between two bells

PaymentAlertAssumption ==
  IsFiniteSet(Kinds) /\ MaxCount \in Nat \ {0} /\ Gap \in Nat \ {0}

VARIABLES
  pending,   \* kind -> [count, due]: what the server answers
  stored,    \* kind -> the count in localStorage, None without an entry
  lastRing,  \* kind -> the age of lastRing...Time, None without an entry
  flight,    \* window -> the answer under way, or {}
  badge,     \* window -> kind -> the number at the menu's entry, 0 for none
  menu,      \* window -> the number at the menu above them, 0 when hidden
  rang,      \* history: the bells of the last step
  heard      \* history: kinds that rang since their list was seen empty

vars == <<pending, stored, lastRing, flight, badge, menu, rang, heard>>

None == -1
Waiting == {p \in [count : 0..MaxCount, due : BOOLEAN] : p.due => p.count > 0}

Init ==
  /\ pending \in [Kinds -> {[count |-> 0, due |-> FALSE]}]
  /\ stored = [k \in Kinds |-> None]
  /\ lastRing = [k \in Kinds |-> None]
  /\ flight = [w \in Windows |-> {}]
  /\ badge = [w \in Windows |-> [k \in Kinds |-> 0]]
  /\ menu = [w \in Windows |-> 0]
  /\ rang = {} /\ heard = {}

----------------------------------------------------------------------------
(* paymentNotification: the answer is of some moment after the request. *)
Poll(w) ==
  /\ flight[w] = {}
  /\ flight' = [flight EXCEPT ![w] = {pending}]
  /\ rang' = {}
  /\ UNCHANGED <<pending, stored, lastRing, badge, menu, heard>>

(* A due payment rings again and again, others only when there are more. *)
Rings(k, a) ==
  /\ a.count > 0
  /\ IF a.due THEN lastRing[k] = None \/ lastRing[k] >= Gap
     ELSE stored[k] < a.count

KeepTime(k, a) ==   \* mutant: an empty list leaves the time of the bell
  IF a.due /\ Rings(k, a) THEN 0 ELSE lastRing[k]

RingTime(k, a) ==
  IF a.count = 0 THEN None
  ELSE IF a.due /\ Rings(k, a) THEN 0 ELSE lastRing[k]

Total(c) == FoldFunction(+, 0, c)
MenuCount(a) == Total([k \in Kinds |-> a[k].count])

(* renderPaymentNotification. *)
Show(w, a) ==
  /\ flight[w] = {a}
  /\ flight' = [flight EXCEPT ![w] = {}]
  /\ lastRing' = [k \in Kinds |-> RingTime(k, a[k])]
  /\ stored' = [k \in Kinds |-> a[k].count]
  /\ badge' = [badge EXCEPT ![w] = [k \in Kinds |-> a[k].count]]
  /\ menu' = [menu EXCEPT ![w] = MenuCount(a)]
  /\ rang' = {k \in Kinds : Rings(k, a[k])}
  /\ heard' = {k \in heard \cup rang' : a[k].count > 0}
  /\ UNCHANGED pending

----------------------------------------------------------------------------
(* The server: payments come, are handled, become due. *)
Change(k, p) ==
  /\ p # pending[k] /\ p.count - pending[k].count \in {-1, 0, 1}
  /\ pending' = [pending EXCEPT ![k] = p]
  /\ rang' = {}
  /\ UNCHANGED <<stored, lastRing, flight, badge, menu, heard>>

(* A manager logs in with this browser (login.js, removeLocalStorage). *)
removeLocalStorage ==
  /\ stored' = [k \in Kinds |-> None]
  /\ lastRing' = [k \in Kinds |-> None]
  /\ rang' = {} /\ heard' = {}
  /\ UNCHANGED <<pending, flight, badge, menu>>

Tick ==
  /\ \E k \in Kinds : lastRing[k] \in 0..(Gap - 1)
  /\ lastRing' = [k \in Kinds |-> IF lastRing[k] \in 0..(Gap - 1) THEN lastRing[k] + 1 ELSE lastRing[k]]
  /\ rang' = {}
  /\ UNCHANGED <<pending, stored, flight, badge, menu, heard>>

Next ==
  \/ \E w \in Windows : Poll(w) \/ (\E a \in flight[w] : Show(w, a))
  \/ \E k \in Kinds : \E p \in Waiting : Change(k, p)
  \/ removeLocalStorage
  \/ Tick

(* The timers of a window send its polls and the server answers them; time *)
(* passes.  A failed poll, after which a window never polls again, is the  *)
(* subject of BackgroundTasks.                                             *)
Fairness ==
  /\ \A w \in Windows : WF_vars(Poll(w)) /\ WF_vars(\E a \in flight[w] : Show(w, a))
  /\ WF_vars(Tick)

Spec == Init /\ [][Next]_vars /\ Fairness

----------------------------------------------------------------------------
(* Counts are whole and bounded, an answer under way is one the server gave. *)
TypeOK ==
  /\ pending \in [Kinds -> Waiting]
  /\ stored \in [Kinds -> {None} \cup 0..MaxCount]
  /\ lastRing \in [Kinds -> {None} \cup 0..Gap]
  /\ \A w \in Windows : flight[w] \subseteq [Kinds -> Waiting] /\ Cardinality(flight[w]) <= 1
  /\ badge \in [Windows -> [Kinds -> 0..MaxCount]]
  /\ rang \subseteq Kinds /\ heard \subseteq Kinds

(* The first payment of an empty list is heard: whatever the order of the   *)
(* windows' answers and whether it is due or new, a browser that remembers  *)
(* payments has rung since it last saw none (renderPaymentNotification: the *)
(* two ways to ring and what each of them remembers).                       *)
NoSilentList == \A k \in Kinds : stored[k] > 0 => k \in heard

(* The menu's number is the sum of the badges under it, in every window. *)
MenuCountsBoth == \A w \in Windows : menu[w] = Total(badge[w])

(* The remembered count rises with a bell, but for a due payment whose bell *)
(* rang less than 30 seconds ago.                                           *)
RiseIsHeard ==
  \A k \in Kinds : stored'[k] > stored[k] /\ stored'[k] > 0
       => k \in rang' \/ lastRing[k] \in 0..(Gap - 1)

(* As long as a payment of a kind stays due its bell goes on ringing, *)
(* however often the windows poll.                                    *)
Due(k) == pending[k].due
Rang(k) == k \in rang
DueKeepsRinging ==
  \A k \in Kinds : <>[]Due(k) => []<>Rang(k)

----------------------------------------------------------------------------
(* What the proofs rest on: a bell that is remembered was heard. *)
BellInv == \A k \in Kinds : lastRing[k] # None => k \in heard

MenuInv == menu = [w \in Windows |-> Total(badge[w])]

IInv == TypeOK /\ NoSilentList /\ BellInv /\ MenuInv
============================================================================
