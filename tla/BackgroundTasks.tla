-------------------------- MODULE BackgroundTasks --------------------------
(***************************************************************************)
(* The tasks every page of the back office keeps running: the refresh of   *)
(* the menu (Sidebar.js) and the polls of pending payments and of finished *)
(* reports (Top.js), driven by TaskHelper and TaskExecuter (JSUtil.js).    *)
(*                                                                         *)
(* A task is a chain of a request, one-second checks that count it down, a *)
(* last timer that queues it, and a loop of the executer that pops it. The *)
(* chain has no owner: what goes on is what some callback starts again, so *)
(* a callback that starts nothing ends it. Time is not measured: any       *)
(* pending timer may be the next to fire.                                  *)
(***************************************************************************)
EXTENDS Integers, Sequences, FiniteSets

CONSTANTS
  Tasks,      \* the tasks of the page
  CycleTime,  \* task -> the checks between an answer and the next run
  Starts,     \* task -> how often the page runs it directly
  Silent      \* tasks whose error callback is empty

TasksAssumption ==
  /\ CycleTime \in [Tasks -> Nat]
  /\ Starts \in [Tasks -> Nat \ {0}]
  /\ Silent \subseteq Tasks

VARIABLES
  queue,      \* the stack of TaskExecuter
  loops,      \* pending setTimeout(TaskExecuter.execute, 500)
  cycleTick,  \* task -> its counter, -1 while its last timer runs
  flights,    \* task -> requests not answered yet
  checks,     \* task -> pending setTimeout(check, 1000)
  runs        \* task -> pending setTimeout(run, 100)

vars == <<queue, loops, cycleTick, flights, checks, runs>>

Zero == [t \in Tasks |-> 0]

Init ==
  /\ queue = <<>>
  /\ loops = 0
  /\ cycleTick = Zero
  /\ flights = Starts
  /\ checks = Zero
  /\ runs = Zero

-----------------------------------------------------------------------------

(* The task queued last is run, or the loop sets its timer (again).        *)
execute(sent, waiting) ==
  IF queue # <<>>
  THEN /\ flights' = [sent EXCEPT ![queue[Len(queue)]] = @ + 1]
       /\ queue' = SubSeq(queue, 1, Len(queue) - 1)
       /\ loops' = waiting
  ELSE /\ flights' = sent
       /\ loops' = waiting + 1
       /\ UNCHANGED queue

check(t, pending) ==
  CASE cycleTick[t] < 0 ->
         checks' = pending /\ UNCHANGED <<cycleTick, runs>>
    [] cycleTick[t] = 0 ->
         /\ cycleTick' = [cycleTick EXCEPT ![t] = -1]
         /\ runs' = [runs EXCEPT ![t] = @ + 1]
         /\ checks' = pending
    [] OTHER ->
         /\ cycleTick' = [cycleTick EXCEPT ![t] = @ - 1]
         /\ checks' = [pending EXCEPT ![t] = @ + 1]
         /\ UNCHANGED runs

\* mutant: an error callback that leaves the executer alone
AnswerAndRest(t) ==
  /\ flights[t] > 0
  /\ flights' = [flights EXCEPT ![t] = @ - 1]
  /\ check(t, checks)
  /\ UNCHANGED <<queue, loops>>

(* The callbacks that go on: every success, and the error of the menu and  *)
(* of the reports.                                                         *)
Answered(t) ==
  /\ flights[t] > 0
  /\ check(t, checks)
  /\ execute([flights EXCEPT ![t] = @ - 1], loops)

(* The error callback of the pending payments is empty: neither the task   *)
(* nor the loop of the executer that ran it goes on.                       *)
PaymentFailed(t) ==
  /\ t \in Silent
  /\ flights[t] > 0
  /\ flights' = [flights EXCEPT ![t] = @ - 1]
  /\ UNCHANGED <<queue, loops, cycleTick, checks, runs>>

CheckTimer(t) ==
  /\ checks[t] > 0
  /\ check(t, [checks EXCEPT ![t] = @ - 1])
  /\ UNCHANGED <<queue, loops, flights>>

\* mutant: a task is queued without setting its counter
RunUncounted(t) ==
  /\ runs[t] > 0
  /\ runs' = [runs EXCEPT ![t] = @ - 1]
  /\ queue' = Append(queue, t)
  /\ UNCHANGED <<loops, cycleTick, flights, checks>>

run(t) ==
  /\ runs[t] > 0
  /\ runs' = [runs EXCEPT ![t] = @ - 1]
  /\ cycleTick' = [cycleTick EXCEPT ![t] = CycleTime[t]]
  /\ queue' = Append(queue, t)
  /\ UNCHANGED <<loops, flights, checks>>

LoopTimer ==
  /\ loops > 0
  /\ execute(flights, loops - 1)
  /\ UNCHANGED <<cycleTick, checks, runs>>

Next ==
  \/ \E t \in Tasks :
       Answered(t) \/ PaymentFailed(t) \/ CheckTimer(t) \/ run(t)
  \/ LoopTimer

(* A timer fires, and a request is answered or fails: the browser promises *)
(* both. Nothing promises a silent task that its request succeeds.         *)
Fairness ==
  /\ \A t \in Tasks : WF_vars(CheckTimer(t)) /\ WF_vars(run(t))
  /\ \A t \in Tasks : WF_vars(Answered(t) \/ PaymentFailed(t))
  /\ WF_vars(LoopTimer)

Spec == Init /\ [][Next]_vars /\ Fairness

-----------------------------------------------------------------------------

Queued(t) == Cardinality({i \in DOMAIN queue : queue[i] = t})
Chains(t) == flights[t] + checks[t] + runs[t] + Queued(t)

TypeOK ==
  /\ queue \in Seq(Tasks)
  /\ loops \in Nat
  /\ \A t \in Tasks : cycleTick[t] \in -1..CycleTime[t]
  /\ {flights, checks, runs} \subseteq [Tasks -> Nat]

(* A task never runs in more chains than the page started it in, however   *)
(* the answers and the timers interleave: the shared counter of two chains *)
(* lets them join, never split (JSUtil.js:912-931).                        *)
ChainsNeverMultiply == \A t \in Tasks : Chains(t) <= Starts[t]

(* Every queued task has a waiting loop of the executer of its own, though *)
(* nothing pairs them: each answer gives back the loop its request was     *)
(* popped with, and an answer that fails in silence takes the task and the *)
(* loop away together (JSUtil.js:879-887, Top.js:347-349).                 *)
LoopForEveryQueuedTask == Len(queue) <= loops

(* A task whose request goes on after an error is sent again and again:    *)
(* the stack of the executer, which serves the last task first, starves    *)
(* nobody (JSUtil.js:879-887).                                             *)
Runs(t) == flights[t] > 0
EveryTaskRunsAgain == \A t \in Tasks \ Silent : []<>Runs(t)

-----------------------------------------------------------------------------
(* What the proofs rest on.  The timers of a kind, of all tasks.           *)
Timers(c) == UNION {{t} \X (1..c[t]) : t \in Tasks}

(* Every chain that runs no request has a loop: each timer, each queued    *)
(* task.                                                                   *)
LoopsInv ==
  /\ IsFiniteSet(Timers(checks)) /\ IsFiniteSet(Timers(runs))
  /\ Cardinality(Timers(checks)) + Cardinality(Timers(runs)) + Len(queue) <= loops

Typed ==
  /\ queue \in Seq(Tasks) /\ loops \in Nat
  /\ cycleTick \in [Tasks -> Int] /\ \A t \in Tasks : cycleTick[t] \in -1..CycleTime[t]
  /\ flights \in [Tasks -> Nat] /\ checks \in [Tasks -> Nat] /\ runs \in [Tasks -> Nat]

IInv == Typed /\ ChainsNeverMultiply /\ LoopsInv
=============================================================================
