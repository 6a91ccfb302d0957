--------------------------- MODULE DepositLedger ---------------------------
(***************************************************************************)
(* What the deposit component promises, without requests, locks or stale   *)
(* reads: a row is decided only after the wallet was told, in one atomic   *)
(* step per database transaction, and only from a status it may be decided *)
(* from.                                                                   *)
(***************************************************************************)
CONSTANTS Deposits, Gateway

VARIABLES status, told

Init ==
  /\ status = [t \in Deposits |-> IF t \in Gateway THEN "none" ELSE "NEW"]
  /\ told = [t \in Deposits |-> {}]

Create(t) ==
  /\ t \in Gateway
  /\ status[t] = "none"
  /\ status' = [status EXCEPT ![t] = "NEW"]
  /\ UNCHANGED told

(* The wallet accepts an outcome for a deposit that exists. *)
Tell(t, outcome) ==
  /\ status[t] # "none"
  /\ told' = [told EXCEPT ![t] = @ \cup {outcome}]
  /\ UNCHANGED status

Confirm(t) ==
  /\ status[t] = "NEW" \/ (t \in Gateway /\ status[t] = "CLOSE")
  /\ "COMPLETED" \in told[t]
  /\ status' = [status EXCEPT ![t] = "CONFIRMED"]
  /\ UNCHANGED told

(* A rejection closes a batch at once, whatever the rows hold. *)
Close(batch) ==
  /\ \A t \in batch : status[t] # "none" /\ "FAILED" \in told[t]
  /\ status' = [t \in Deposits |-> IF t \in batch THEN "CLOSE" ELSE status[t]]
  /\ UNCHANGED told

Next ==
  \/ \E t \in Deposits :
       \/ Create(t)
       \/ \E outcome \in {"COMPLETED", "FAILED"} : Tell(t, outcome)
       \/ Confirm(t)
  \/ \E batch \in SUBSET Deposits : Close(batch)

Spec == Init /\ [][Next]_<<status, told>>
=============================================================================
