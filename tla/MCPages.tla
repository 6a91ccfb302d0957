------------------------------ MODULE MCPages ------------------------------
(* Small pages for TLC: one or two of each script. *)
EXTENDS Pages

(* A search that finds three rows, and one that finds one. *)
Found == [all |-> 3, one |-> 1]

(* Texts to paste: signs, separators in the wrong place, two points. *)
Texts == { <<"-", "1", "0">>, <<"-", "0", ".", "0", "0", "1">>,
            <<"1", ",", "0", ".", "1", ".", "1">>, <<"-", ".">> }

TwoMonths == [from |-> 3, to |-> 5]

(* Amounts in ten-thousandths: nothing, half a hundredth, a trace below    *)
(* zero, ten, twenty and minus thirty hundredths, one with a comma.        *)
SomeAmounts == {0, 50, -40, 1000, 2000, -3000, 700, 12340050}

(* Amounts in millions: a server that reads ten characters cuts            *)
(* 100,000,000.00 to 100,000,00.                                           *)
TenCharacters == [a \in {50, 100} |-> IF a = 100 THEN 10 ELSE a]

(* Two weak passwords, a good one, one with a space and one with a symbol  *)
(* outside the validator's pattern.                                        *)
Word(m, p, a) == [meets |-> m, plain |-> p, allowed |-> a]
Both == {"length", "symbol"}
SomePasswords ==
  {Word({"symbol"}, TRUE, TRUE), Word({"length"}, TRUE, TRUE), Word(Both, TRUE, TRUE),
   Word({"symbol"}, FALSE, FALSE), Word(Both, TRUE, FALSE)}

(* The cycles of 5 and 15 seconds are cut to 1 and 2: untimed, a longer    *)
(* cycle only adds checks of the same kind.  The page of an unknown        *)
(* address starts the task of the menu twice.                              *)
Cycle == [menu |-> 1, payment |-> 1, report |-> 2]
Twice == [menu |-> 2, payment |-> 1, report |-> 1]
-----------------------------------------------------------------------------
TheReviewPages ==
  [ deposits |-> [Managers |-> {"m1"}, Payments |-> {"p1", "p2"},
                  Page |-> "deposit", Gateway |-> {"p1"}, MaxRequests |-> 3],
    withdrawals |-> [Managers |-> {"m1", "m2"}, Payments |-> {"p1"},
                     Page |-> "withdrawal", Gateway |-> {}, MaxRequests |-> 3],
    batches |-> [Managers |-> {"m1"}, Payments |-> {"p1", "p2"},
                 Page |-> "withdrawal", Gateway |-> {}, MaxRequests |-> 3] ]

TheAdjustPages ==
  [ adjustment |-> [Members |-> {"ann", "bob"}, MaxAmount |-> 1,
                    Typed |-> {-2, -1, 2}, InitWallet |-> {1}, MaxWallet |-> 1,
                    MaxRequests |-> 3] ]

TheWithdrawPages ==
  [ withdraw |-> [Members |-> {"ann", "bob"}, HasCard |-> {"ann"},
                  InitBalance |-> {1}, Typed |-> {-1, 1, 2},
                  MaxRequests |-> 5] ]

TheAmountFields ==
  [ amount |-> [Digits |-> {"0", "1"}, Restricts |-> FALSE,
                KeyFilter |-> TRUE, Pasted |-> Texts, MaxLen |-> 6],
    plain |-> [Digits |-> {"1"}, Restricts |-> TRUE, KeyFilter |-> TRUE,
               Pasted |-> {<<"-", "1">>}, MaxLen |-> 3] ]

TheTables ==
  [ list |-> [Criteria |-> {"all", "one"}, Count |-> Found,
              Lengths |-> {1, 2}, InitLength |-> 1, Filters |-> {"latest"},
              FullPageTurns |-> FALSE, MaxDraws |-> 3],
    choice |-> [Criteria |-> {"all", "one"}, Count |-> Found,
                Lengths |-> {1, 2}, InitLength |-> 2,
                Filters |-> {"latest", "all"}, FullPageTurns |-> TRUE,
                MaxDraws |-> 2] ]

TheReportPages ==
  [ bets |-> [Offered |-> {"Login", "Settled"}, Picks |-> {},
              LastMonth |-> TwoMonths, Period |-> 2, Days |-> {1},
              DayPages |-> <<1>>, Games |-> {"sport", "slot"},
              Sport |-> "sport", Pages |-> 1, MaxOut |-> 3],
    days |-> [Offered |-> {"Login", "Settled"}, Picks |-> {},
              LastMonth |-> TwoMonths, Period |-> 2, Days |-> {1, 2},
              DayPages |-> <<1, 1>>, Games |-> {"sport"},
              Sport |-> "sport", Pages |-> 1, MaxOut |-> 2],
    dates |-> [Offered |-> {"Login", "Adjustment", "Unsettled"},
               Picks |-> {[from |-> 3, to |-> 4]}, LastMonth |-> TwoMonths,
               Period |-> 2, Days |-> {1}, DayPages |-> <<1>>,
               Games |-> {"sport"}, Sport |-> "sport", Pages |-> 1,
               MaxOut |-> 1],
    records |-> [Offered |-> {"UpdateLog", "Deposit", "Withdrawal"},
                 Picks |-> {}, LastMonth |-> TwoMonths, Period |-> 2,
                 Days |-> {1}, DayPages |-> <<1>>, Games |-> {"sport"},
                 Sport |-> "sport", Pages |-> 2, MaxOut |-> 1] ]

TheBetPages ==
  [ report |-> [Amounts |-> {50, 100}, Read |-> TenCharacters,
                Sorts |-> {2, 9}, MaxOut |-> 2] ]

TheBetWindows ==
  [ window |-> [Days |-> {1, 2}, Infos |-> {"", "object", "null", "broken"},
                Steps |-> 3] ]

TheMoneyTables ==
  [ texts |-> [Amounts |-> SomeAmounts, Counts |-> {7, 1000, 1020034},
               Mode |-> "HALF_UP", MaxRows |-> 3],
    cut |-> [Amounts |-> {199996, 2000, -199996, -40}, Counts |-> {7},
             Mode |-> "DOWN", MaxRows |-> 1] ]

TheExportPages ==
  [ export |-> [Pages |-> {"p1"}, None |-> "none",
                Orders |-> {"o1", "o2", "o3"}] ]

ThePhotoDialogs ==
  [ photo |-> [Fields |-> {"back"}, Required |-> {},
               Photos |-> {"old"}, AtFirst |-> [back |-> "old"],
               None |-> "none", Views |-> 2],
    front |-> [Fields |-> {"front"}, Required |-> {"front"},
               Photos |-> {"old", "new"}, AtFirst |-> [front |-> "old"],
               None |-> "none", Views |-> 1] ]

TheProfilePages ==
  [ profile |-> [Items |-> {"status", "contact"}, Values |-> {1},
                 Blank |-> 0, Slots |-> {1, 2}],
    status |-> [Items |-> {"status"}, Values |-> {1, 2}, Blank |-> 0,
                Slots |-> {1, 2}],
    contact |-> [Items |-> {"contact"}, Values |-> {1, 2}, Blank |-> 0,
                 Slots |-> {1, 2}],
    dialogs |-> [
                 Items |-> {"status", "remark", "kycStatus", "addBank", "removeBank", "accountCard"},
                 Values |-> {1}, Blank |-> 0, Slots |-> {1}] ]

ThePasswordForms ==
  [ password |-> [Pages |-> {"profile", "search"},
                  Requirements |-> {"length", "symbol"},
                  Passwords |-> SomePasswords] ]

TheSearchPages ==
  [ members |-> [Kinds |-> {"kycStatus"}, Members |-> {"ann", "bob"},
                 AtFirst |-> {"ann"}, Statuses |-> {"active", "locked"},
                 New |-> "active", None |-> "none", Slots |-> {1, 2}],
    statuses |-> [Kinds |-> {"status", "kycStatus"},
                  Members |-> {"ann", "bob"}, AtFirst |-> {"ann"},
                  Statuses |-> {"active"}, New |-> "active", None |-> "none",
                  Slots |-> {1}] ]

TheLimitPages ==
  [ limits |-> [Amounts |-> {"wager"}, TimeSpent |-> {}, Exclusions |-> {},
                Typed |-> {3}, Choices |-> {0, 2}, MaxAmount |-> 2,
                Slots |-> {1}],
    excluded |-> [Amounts |-> {}, TimeSpent |-> {},
                  Exclusions |-> {"selfExclusion"}, Typed |-> {},
                  Choices |-> {0, 7}, MaxAmount |-> 4, Slots |-> {1, 2}],
    forever |-> [Amounts |-> {}, TimeSpent |-> {},
                 Exclusions |-> {"selfExclusion"}, Typed |-> {},
                 Choices |-> {0, 7, -1}, MaxAmount |-> 4, Slots |-> {1}] ]

TheLogPages ==
  [ log |-> [Managers |-> {"m1"}, Values |-> {"a", "b"}, None |-> "none",
             Readable |-> {"a"}, Changes |-> 3],
    logs |-> [Managers |-> {"m1", "m2"}, Values |-> {"a", "b"},
              None |-> "none", Readable |-> {"a"}, Changes |-> 2] ]

TheIconPages ==
  [ games |-> [Pages |-> {{"g1", "g2"}, {"g3"}}, MaxDraws |-> 3] ]

TheGamePages ==
  [ game |-> [Page |-> "profile", Statuses |-> {0, 1}, Orders |-> {0},
              Typed |-> {0, 99, 100, 101}, Slots |-> {1, 2}],
    order |-> [Page |-> "setting", Statuses |-> {0, 1}, Orders |-> {0, 7},
               Typed |-> {0, 99, 100, 101}, Slots |-> {1, 2}] ]

TheProviderPages ==
  [ providers |-> [OnProfile |-> FALSE,
                   Statuses |-> {"active", "maintenance"},
                   Windows |-> {"today"}, Today |-> "today",
                   Names |-> {"n1"}, LongNames |-> {}, Cut |-> "cut",
                   Slots |-> {1, 2}],
    provider |-> [OnProfile |-> TRUE, Statuses |-> {"active", "maintenance"},
                  Windows |-> {"w1", "today"}, Today |-> "today",
                  Names |-> {"n1"}, LongNames |-> {}, Cut |-> "cut",
                  Slots |-> {1}],
    renamed |-> [OnProfile |-> TRUE, Statuses |-> {"active", "maintenance"},
                 Windows |-> {"today"}, Today |-> "today",
                 Names |-> {"n1", "n2"}, LongNames |-> {"n2"}, Cut |-> "cut",
                 Slots |-> {1}] ]

TheMenuBars ==
  [ menu |-> [Menus |-> {"member", "payment"}, Current |-> "member",
              Wide |-> TRUE, Positions |-> {0, 100, 240, 293, 400},
              DividerWidth |-> 7, MaxRefreshes |-> 2],
    small |-> [Menus |-> {"member", "payment"}, Current |-> "member",
               Wide |-> FALSE, Positions |-> {100}, DividerWidth |-> 7,
               MaxRefreshes |-> 2] ]

TheBells ==
  [ bell |-> [Windows |-> {"w1", "w2"}, Kinds |-> {"deposit"},
              MaxCount |-> 2, Gap |-> 2],
    badge |-> [Windows |-> {"w1"}, Kinds |-> {"deposit", "withdrawal"},
               MaxCount |-> 1, Gap |-> 1] ]

TheTaskQueues ==
  [ tasks |-> [Tasks |-> {"menu", "payment", "report"}, CycleTime |-> Cycle,
               Starts |-> Twice, Silent |-> {"payment"}] ]

NoPage == <<>>

-----------------------------------------------------------------------------
(***************************************************************************)
(* What must go on (MCPagesLive.cfg): the login of a manager on two        *)
(* servers, the tasks that every page runs in the background, the bell,    *)
(* the dialogs of a member's profile and the export button.  A behaviour   *)
(* picks one of these pages and is fair to the steps that the servers, the *)
(* timers and the browser promise.                                         *)
(***************************************************************************)
(* The manager is closed or changes his password; a server dies and its    *)
(* sessions move.                                                          *)
LiveLogins ==
  [ change |-> [Servers |-> {"A", "B"}, Sessions |-> {"s1"}, None |-> "none",
                Logins |-> 2, Changes |-> 1, Crashes |-> 0, Adoptions |-> 1],
    death |-> [Servers |-> {"A", "B"}, Sessions |-> {"s1", "s2"}, None |-> "none",
               Logins |-> 2, Changes |-> 0, Crashes |-> 1, Adoptions |-> 1] ]

(* The cycles of 5 and 15 seconds, cut to 1 and 2. *)
LiveTaskQueues ==
  [ tasks |-> [Tasks |-> {"menu", "payment", "report"},
               CycleTime |-> [menu |-> 1, payment |-> 1, report |-> 2],
               Starts |-> [menu |-> 1, payment |-> 1, report |-> 1],
               Silent |-> {"payment"}] ]

LiveBells ==
  [ bell |-> [Windows |-> {"w1", "w2"}, Kinds |-> {"deposit"}, MaxCount |-> 2, Gap |-> 2] ]

LiveProfilePages ==
  [ profile |-> [Items |-> {"status", "remark", "kycStatus", "addBank",
                            "removeBank", "accountCard"},
                 Values |-> {1}, Blank |-> 0, Slots |-> {1}] ]

LiveExportPages ==
  [ export |-> [Pages |-> {"p1", "p2"}, None |-> "none", Orders |-> {"o1", "o2"}] ]

-----------------------------------------------------------------------------
(* The fairness of each module, for the behaviours that picked it. *)
Is(s, k) == script = s /\ page = k
Step(s, k, A) == Is(s, k) /\ A

LoginFairness(k) ==
  LET c == Logins[k] IN
  /\ \A s \in c.Sessions : WF_vars(Step("login", k, Login(k)!Serve(s) /\ Same11))
  /\ \A v \in c.Servers : WF_vars(Step("login", k, Login(k)!RefreshRead(v) /\ Same11))
  /\ \A x \in Login(k)!Threads : WF_vars(Step("login", k, Login(k)!RefreshApply(x) /\ Same11))

TaskFairness(k) ==
  /\ \A t \in TaskQueues[k].Tasks :
       /\ WF_vars(Step("tasks", k, Tasks(k)!CheckTimer(t) /\ Same7))
       /\ WF_vars(Step("tasks", k, Tasks(k)!run(t) /\ Same7))
       /\ WF_vars(Step("tasks", k, (Tasks(k)!Answered(t) \/ Tasks(k)!PaymentFailed(t)) /\ Same7))
  /\ WF_vars(Step("tasks", k, Tasks(k)!LoopTimer /\ Same7))

BellFairness(k) ==
  /\ \A w \in Bells[k].Windows :
       /\ WF_vars(Step("bell", k, Bell(k)!Poll(w) /\ Same9))
       /\ WF_vars(Step("bell", k, (\E a \in x4[w] : Bell(k)!Show(w, a)) /\ Same9))
  /\ WF_vars(Step("bell", k, Bell(k)!Tick /\ Same9))

ExportFairness(k) ==
  \A o \in ExportPages[k].Orders :
    /\ WF_vars(Step("export", k, (Export(k)!CheckAnswered(o) \/ Export(k)!CheckIsError(o)
                                    \/ Export(k)!CheckFails(o)) /\ Same7))
    /\ WF_vars(Step("export", k, Export(k)!Answer(o) /\ Same7))
    /\ WF_vars(Step("export", k, Export(k)!Complete(o) /\ Same7))

ProfileFairness(k) ==
  \A s \in ProfilePages[k].Slots : WF_vars(Step("profile", k, Profile(k)!Answered(s) /\ Same8))

FairSpec ==
  /\ Spec
  /\ LoginFairness("change") /\ LoginFairness("death") /\ TaskFairness("tasks")
  /\ BellFairness("bell") /\ ExportFairness("export") /\ ProfileFairness("profile")

-----------------------------------------------------------------------------
(* Once logins and deaths of servers are over, one session of the manager  *)
(* at most is named by the cache of its server; and a manager who is       *)
(* closed for good is out of every server, whatever the filter and the     *)
(* refresh did meanwhile (ManagerSession).                                 *)
SessionsSettle ==
  /\ <>[](\A k \in On("login", Logins) : Login(k)!OneNamed)
  /\ <>[](Is("login", "change") /\ Login("change")!Closed)
       => <>[](Is("login", "change") => Login("change")!Out)

(* Nothing in the browser stays stuck: a task whose request goes on after  *)
(* an error is sent again and again, the bell of a due payment goes on     *)
(* ringing, the buttons of a dialog come back after every answer, and so   *)
(* does the export button unless its question failed or the table was      *)
(* drawn meanwhile.                                                        *)
NothingStaysStuck ==
  /\ \A t \in {"menu", "report"} : []<>(Is("tasks", "tasks") => Tasks("tasks")!Runs(t))
  /\ <>[](Is("bell", "bell") /\ Bell("bell")!Due("deposit"))
       => []<>(Is("bell", "bell") => Bell("bell")!Rang("deposit"))
  /\ \A i \in ProfilePages["profile"].Items \cap Profile("profile")!Guarded :
       []<>(Is("profile", "profile") => ~Profile("profile")!Busy(i))
  /\ \A p \in ExportPages["export"].Pages :
       []<>(Is("export", "export") => ~Export("export")!Disabled(p))
=============================================================================
