------------------------------- MODULE TxLedger -------------------------------
(***************************************************************************)
(* What ydb-tpcc-tcpdump-parse reports of a complete capture: a transaction*)
(* is reported when its commit is answered, each of its own, and nothing   *)
(* else is ever reported.  The answer itself is not looked at, so a commit *)
(* that the server refused is reported as well (comment in                 *)
(* start_transaction: "some transactions are aborted, but we don't handle  *)
(* it in response processing").                                            *)
(***************************************************************************)
CONSTANT TxIds

VARIABLES
  stage,     \* what the client and the server did with each transaction
  reported   \* for each line of the report, the transactions it was made from

vars == <<stage, reported>>

Init ==
  /\ stage = [t \in TxIds |-> "new"]
  /\ reported = {}

\* The client sends the first query.
Begin(t) ==
  /\ stage[t] = "new"
  /\ stage' = [stage EXCEPT ![t] = "open"]
  /\ UNCHANGED reported

\* The server refuses a query.
Abort(t) ==
  /\ stage[t] = "open"
  /\ stage' = [stage EXCEPT ![t] = "aborted"]
  /\ UNCHANGED reported

\* The server answers the commit.
AnswerCommit(t) ==
  /\ stage[t] = "open"
  /\ stage' \in {[stage EXCEPT ![t] = "committed"], [stage EXCEPT ![t] = "refused"]}
  /\ reported' = reported \cup {{t}}

Next == \E t \in TxIds : Begin(t) \/ Abort(t) \/ AnswerCommit(t)

Spec == Init /\ [][Next]_vars

=============================================================================
