----------------------------- MODULE Adjustment -----------------------------
(***************************************************************************)
(* Balance adjustments: the create dialog of the adjustment page, which    *)
(* asks for the wallet of the chosen member and limits the amount to it,   *)
(* and createAdjustment of the server, which caps the amount again, writes *)
(* the row and moves the wallet before the row commits.                    *)
(***************************************************************************)
EXTENDS Integers, Sequences

CONSTANTS
  Members,
  MaxAmount,     \* PageConfig.maxAmount and the cap of the servlet
  Typed,         \* the amounts a manager types
  InitWallet,    \* the balances members start with
  MaxWallet,     \* bound: the balance up to which a member wins
  MaxRequests    \* bound: the requests of a behaviour

AdjustmentAssumption ==
  /\ MaxAmount \in Nat /\ Typed \subseteq Int /\ InitWallet \subseteq Nat
  /\ MaxWallet \in Nat /\ MaxRequests \in Nat

VARIABLES
  dialog,    \* the create dialog is shown
  chosen,    \* searchUserId
  general,   \* [shown, of, balance, amount]: generalDiv
  minAmount, \* PageConfig.minAmount
  flight,    \* the balance requests on their way
  posts,     \* the createAdjustment requests, by number
  sent,
  wallet,    \* [Members -> Int], kept by the wallet service
  \* history
  raced,     \* a balance request was sent while one was open, or one failed
  without,   \* what the wallets would hold without the adjustments
  overtaken, \* members whose wallet fell between a cap and its adjustment
  misposted  \* a post named another member than the one shown, with nothing open

pageVars == <<dialog, chosen, general, minAmount, flight>>
vars == <<pageVars, posts, sent, wallet, raced, without, overtaken, misposted>>

NoOne == "none"
Empty == 0   \* no amount and the amount 0 are both refused
Stages == {"posted", "capped", "adjusted", "committed", "told", "failed", "lost"}

(* The state is well formed, and an amount can be typed only for a member. *)
TypeOK ==
  /\ dialog \in BOOLEAN /\ raced \in BOOLEAN /\ overtaken \subseteq Members /\ misposted \in BOOLEAN
  /\ chosen \in Members \cup {NoOne}
  /\ general.shown \in BOOLEAN /\ general.of \in Members \cup {NoOne} /\ general.balance \in Int
  /\ general.shown => general.of \in Members
  /\ minAmount \in Int
  /\ sent \in 0..MaxRequests
  /\ \A r \in flight : r.of \in Members
  /\ \A i \in DOMAIN posts : posts[i].of \in Members /\ posts[i].stage \in Stages /\ posts[i].amount \in Int
  /\ wallet \in [Members -> Int]

Blank == [shown |-> FALSE, of |-> NoOne, balance |-> 0, amount |-> Empty]

Init ==
  /\ dialog = FALSE /\ chosen = NoOne /\ general = Blank /\ minAmount = 0
  /\ flight = {} /\ posts = << >> /\ sent = 0
  /\ wallet \in [Members -> InitWallet]
  /\ without = wallet
  /\ raced = FALSE /\ overtaken = {} /\ misposted = FALSE

----------------------------------------------------------------------------
(* gotoCreateAdjustment: both forms are emptied, minAmount stays. *)
OpenDialog ==
  /\ ~dialog /\ dialog' = TRUE
  /\ chosen' = NoOne /\ general' = Blank
  /\ UNCHANGED <<minAmount, flight, posts, sent, wallet, raced, misposted, without, overtaken>>

(* The reset button and the cross of the dialog. *)
ResetDialog ==
  /\ dialog /\ dialog' \in BOOLEAN
  /\ chosen' = NoOne /\ general' = Blank
  /\ UNCHANGED <<minAmount, flight, posts, sent, wallet, raced, misposted, without, overtaken>>

(* A change of the member asks for its balance; what is shown stays. *)
ChooseMember(a) ==
  /\ dialog /\ chosen # a /\ sent < MaxRequests
  /\ chosen' = a
  /\ sent' = sent + 1
  /\ flight' = flight \cup {[id |-> sent', of |-> a, served |-> FALSE, balance |-> 0]}
  /\ raced' = (raced \/ flight # {})
  /\ UNCHANGED <<dialog, general, minAmount, posts, wallet, misposted, without, overtaken>>

(* The server answers 0 when the wallet cannot be read. *)
ReadBalance(r) ==
  /\ r \in flight /\ ~r.served
  /\ \E b \in {wallet[r.of], 0} : flight' = (flight \ {r}) \cup {[r EXCEPT !.served = TRUE, !.balance = b]}
  /\ UNCHANGED <<dialog, chosen, general, minAmount, posts, sent, wallet, raced, misposted, without, overtaken>>

(* Its answer fills the form for the member that was asked about. *)
ShowBalance(r) ==
  /\ r \in flight /\ r.served
  /\ minAmount' = -r.balance
  /\ general' = [shown |-> TRUE, of |-> r.of, balance |-> r.balance, amount |-> Empty]
  /\ flight' = flight \ {r}
  /\ UNCHANGED <<dialog, chosen, posts, sent, wallet, raced, misposted, without, overtaken>>

BalanceFails(r) ==
  /\ r \in flight
  /\ flight' = flight \ {r} /\ raced' = TRUE
  /\ UNCHANGED <<dialog, chosen, general, minAmount, posts, sent, wallet, misposted, without, overtaken>>

Clamp(x, lo, hi) == IF x < lo THEN lo ELSE IF x > hi THEN hi ELSE x

(* validateAmount on change. *)
TypeAmount(x) ==
  /\ dialog /\ general.shown
  /\ general' = [general EXCEPT !.amount = Clamp(x, minAmount, MaxAmount)]
  /\ UNCHANGED <<dialog, chosen, minAmount, flight, posts, sent, wallet, raced, misposted, without, overtaken>>

(* create: the member of the select, the amount of the form; the button    *)
(* can be clicked again.                                                   *)
Create ==
  /\ dialog /\ chosen # NoOne /\ sent < MaxRequests
  /\ general.amount # Empty
  /\ sent' = sent + 1
  /\ posts' = Append(posts, [of |-> chosen, amount |-> general.amount, stage |-> "posted"])
  /\ misposted' = (misposted \/ (flight = {} /\ ~raced /\ general.of # chosen))
  /\ UNCHANGED <<pageVars, wallet, raced, without, overtaken>>

----------------------------------------------------------------------------
(* The adjustments of a that were capped and not yet made. *)
Capped(a) == {i \in DOMAIN posts : posts[i].of = a /\ posts[i].stage = "capped"}

(* The wallet of a falls while another adjustment than i relies on what    *)
(* was read.                                                               *)
Overtaking(a, i) ==
  overtaken' = IF Capped(a) \ {i} = {} \/ wallet'[a] >= wallet[a] THEN overtaken ELSE overtaken \cup {a}

Move(i, from, to) == posts[i].stage = from /\ posts' = [posts EXCEPT ![i].stage = to]

CapUpOnly(i) ==   \* mutant: negative amounts are not capped
  /\ posts[i].stage = "posted"
  /\ posts' = [posts EXCEPT ![i].stage = "capped", ![i].amount = IF @ > MaxAmount THEN MaxAmount ELSE @]
  /\ UNCHANGED <<pageVars, sent, wallet, raced, misposted, without, overtaken>>

(* createAdjustment of the servlet: the wallet is read for the cap. *)
Cap(i) ==
  /\ posts[i].stage = "posted"
  /\ posts' = [posts EXCEPT ![i].stage = "capped",
       ![i].amount = IF @ > MaxAmount THEN MaxAmount
                     ELSE IF @ < 0 /\ -@ > wallet[posts[i].of] THEN -wallet[posts[i].of] ELSE @]
  /\ UNCHANGED <<pageVars, sent, wallet, raced, misposted, without, overtaken>>

(* The row is inserted and the wallet moved in one open transaction. *)
Adjust(i) ==
  /\ Move(i, "capped", "adjusted")
  /\ wallet' = [wallet EXCEPT ![posts[i].of] = @ + posts[i].amount]
  /\ Overtaking(posts[i].of, i)
  /\ UNCHANGED <<pageVars, sent, raced, misposted, without>>

(* The insert or the call throws: the row is gone, and the wallet may have *)
(* been moved before the call threw.                                       *)
AdjustFails(i) ==
  /\ \/ Move(i, "capped", "failed") /\ UNCHANGED <<wallet, overtaken>>
     \/ /\ Move(i, "capped", "lost")
        /\ wallet' = [wallet EXCEPT ![posts[i].of] = @ + posts[i].amount]
        /\ Overtaking(posts[i].of, i)
  /\ UNCHANGED <<pageVars, sent, raced, misposted, without>>

Commit(i) ==
  /\ Move(i, "adjusted", "committed")
  /\ UNCHANGED <<pageVars, sent, wallet, raced, without, overtaken, misposted>>

(* The success reaches the page: the dialog is hidden, whoever it is for. *)
Succeed(i) ==
  /\ Move(i, "committed", "told")
  /\ dialog' = FALSE
  /\ UNCHANGED <<chosen, general, minAmount, flight, sent, wallet, raced, without, overtaken, misposted>>

(* The account, the update time or the commit fails: the row is gone, the  *)
(* money stays moved.                                                      *)
CommitFails(i) ==
  /\ Move(i, "adjusted", "lost")
  /\ UNCHANGED <<pageVars, sent, wallet, raced, misposted, without, overtaken>>

(* Bets, wins and withdrawals of the member move the wallet meanwhile. *)
Play(a) ==
  \/ /\ wallet[a] > 0
     /\ wallet' = [wallet EXCEPT ![a] = @ - 1] /\ without' = [without EXCEPT ![a] = @ - 1]
     /\ Overtaking(a, 0)
     /\ UNCHANGED <<pageVars, posts, sent, raced, misposted>>
  \/ /\ wallet[a] < MaxWallet
     /\ wallet' = [wallet EXCEPT ![a] = @ + 1] /\ without' = [without EXCEPT ![a] = @ + 1]
     /\ UNCHANGED <<pageVars, posts, sent, raced, misposted, overtaken>>

Page ==
  \/ OpenDialog \/ ResetDialog \/ Create
  \/ \E a \in Members : ChooseMember(a)
  \/ \E x \in Typed : TypeAmount(x)
  \/ \E r \in flight : ShowBalance(r) \/ BalanceFails(r)
  \/ \E i \in DOMAIN posts : Succeed(i)

Server ==
  \/ \E r \in flight : ReadBalance(r)
  \/ \E i \in DOMAIN posts : Cap(i) \/ Adjust(i) \/ AdjustFails(i) \/ Commit(i) \/ CommitFails(i)

Next == Page \/ Server \/ \E a \in Members : Play(a)

Spec == Init /\ [][Next]_vars

----------------------------------------------------------------------------
Sum(c) ==
  LET sum[i \in 0..Len(c)] == IF i = 0 THEN 0 ELSE sum[i - 1] + c[i]
  IN sum[Len(c)]

(* What a post moved of the wallet of a. *)
Part(p, a) ==
  IF p.of = a /\ p.stage \in {"adjusted", "committed", "told"} THEN p.amount ELSE 0

Moved(a) == Sum([i \in DOMAIN posts |-> Part(posts[i], a)])

(* Beside what was bet, won and withdrawn, a wallet holds exactly the      *)
(* adjustments that have a row, unless one of the member was lost: the     *)
(* wallet was moved and the row did not commit.                            *)
RowsExplainWallet ==
  \A a \in Members : (\A i \in DOMAIN posts : posts[i].of = a => posts[i].stage # "lost") =>
    wallet[a] = without[a] + Moved(a)

(* The cap of the server keeps a wallet from going below zero, unless a    *)
(* bet, a withdrawal or a second adjustment of the member came between a   *)
(* cap and its adjustment.                                                 *)
CapKeepsWallet == \A a \in Members \ overtaken : wallet[a] >= 0

(* An amount is posted for the member whose balance is on the page, once   *)
(* every answer has come in order.                                         *)
PostsShownMember == ~misposted

----------------------------------------------------------------------------
(* What the proofs rest on. *)
Posts == [of : Members, amount : Int, stage : Stages]
Questions == [id : Nat, of : Members, served : BOOLEAN, balance : Int]

TypedInv ==
  /\ general \in [shown : BOOLEAN, of : Members \cup {NoOne}, balance : Int, amount : Int]
  /\ flight \subseteq Questions /\ posts \in Seq(Posts) /\ without \in [Members -> Int]

(* While no two questions were open at once, an open one is about the      *)
(* member that is chosen, and the last answer was.                         *)
ShownInv ==
  ~raced =>
    /\ \A q, r \in flight : q = r
    /\ chosen # NoOne => \A r \in flight : r.of = chosen
    /\ chosen # NoOne /\ flight = {} => general.of = chosen

(* An amount that was capped fits in its wallet. *)
CapInv ==
  \A i \in DOMAIN posts : posts[i].stage = "capped" /\ posts[i].of \notin overtaken =>
    wallet[posts[i].of] + posts[i].amount >= 0

IInv ==
  /\ TypeOK /\ TypedInv
  /\ PostsShownMember /\ ShownInv
  /\ CapKeepsWallet /\ CapInv
  /\ RowsExplainWallet

(* The sums of a sequence. *)
IsSum(f, c, n) == f \in [0..n -> Int] /\ f[0] = 0 /\ \A i \in 1..n : f[i] = f[i - 1] + c[i]
=============================================================================
