------------------------------ MODULE IndexBuild ------------------------------
(***************************************************************************)
(* The two secondary indices of the TPC-C tables, built after the load:    *)
(* "tpcc_helper.py index" (class AsyncCreateIndices) sends two ALTER TABLE *)
(* and leaves as soon as it believes that they are being executed, then    *)
(* "tpcc_helper.py wait-index" (class WaitIndicesReady) polls the list of  *)
(* build operations with the ydb CLI.  The two processes share nothing but *)
(* the database, whose list also holds the operations of earlier builds.   *)
(*                                                                         *)
(* External: YDB's build operations and the CLI.  An operation's order in  *)
(* the list is left open.                                                  *)
(***************************************************************************)
EXTENDS Integers, Sequences

CONSTANTS
  Indices,   \* keys of the dict "indices", in its order
  Earlier,   \* earlier operations that may still be in the list
  MaxTries   \* CLI calls per poll (10)

ASSUME IndexAssumption ==
  /\ Indices \in Seq(STRING) /\ Indices # <<>>
  /\ MaxTries \in Nat \ {0}

Names == {Indices[i] : i \in 1 .. Len(Indices)}

ASSUME EarlierAssumption == Names \cap Earlier = {}

VARIABLES
  pc,       \* "send", "results", "try", "judge", "ready" or "failed"
  next,     \* the index whose request is sent or whose future is looked at
  future,   \* per index: "none", "pending", "ok" or "error"
  op,       \* per operation: its state in YDB, "none" before it is listed
  tries,    \* CLI calls made in this poll
  result,   \* of the last one: "failed", "empty" or "listed", and the list
  late      \* history: requests neither answered nor listed when "index" went on

vars == <<pc, next, future, op, tries, result, late>>

InProgress == {"building"}          \* PREPARING, TRANSFERING_DATA, APPLYING
Bad        == {"cancelled"}         \* UNSPECIFIED, CANCELLED, REJECTED, ...
Unready    == {"unready"}           \* DONE, but "ready" is still false
Failed     == {"unsuccessful"}      \* DONE with a status other than SUCCESS
OpStates   == {"none", "done"} \cup InProgress \cup Bad \cup Unready \cup Failed

-----------------------------------------------------------------------------
(* YDB                                                                     *)

\* A request that was sent is listed as an operation, or refused.
Register(x) ==
  /\ future[x] = "pending"
  /\ op[x] = "none"
  /\ \/ op' = [op EXCEPT ![x] = "building"] /\ UNCHANGED future
     \/ future' = [future EXCEPT ![x] = "error"] /\ UNCHANGED op
  /\ UNCHANGED <<pc, next, tries, result, late>>

Progress(x) ==
  /\ op' \in {[op EXCEPT ![x] = s] : s \in
                CASE op[x] = "building" -> Bad \cup Unready \cup Failed
                  [] op[x] = "unready"  -> {"done"}
                  [] OTHER              -> {}}
  /\ UNCHANGED <<pc, next, future, tries, result, late>>

\* The response to the ALTER TABLE reaches the client.
Respond(x) ==
  /\ future[x] = "pending"
  /\ op[x] \in {"done"} \cup Bad \cup Failed
  /\ future' = [future EXCEPT ![x] = IF op[x] = "done" THEN "ok" ELSE "error"]
  /\ UNCHANGED <<pc, next, op, tries, result, late>>

-----------------------------------------------------------------------------
(* class AsyncCreateIndices                                                *)

\* Mutant: the second loop does not start at the first future.
SendRequestNoReset ==
  /\ pc = "send"
  /\ future' = [future EXCEPT ![Indices[next]] = "pending"]
  /\ pc' = IF next < Len(Indices) THEN "send" ELSE "results"
  /\ next' = next + 1
  /\ UNCHANGED <<op, tries, result, late>>

\* create_index: no session, no request; the earlier requests have been sent.
SendRequest ==
  /\ pc = "send"
  /\ \/ /\ future' = [future EXCEPT ![Indices[next]] = "pending"]
        /\ pc'   = IF next < Len(Indices) THEN "send" ELSE "results"
        /\ next' = IF next < Len(Indices) THEN next + 1 ELSE 1
     \/ /\ pc' = "failed"
        /\ UNCHANGED <<next, future>>
  /\ UNCHANGED <<op, tries, result, late>>

\* future.result(timeout=1): a result, an exception, or neither after 1 s, and then
\* the request is taken to be executing.
CheckFuture ==
  /\ pc = "results"
  /\ LET x == Indices[next] IN
       \/ /\ future[x] \in {"ok", "pending"}
          /\ pc'   = IF next < Len(Indices) THEN "results" ELSE "try"
          /\ next' = IF next < Len(Indices) THEN next + 1 ELSE next
          /\ late' = IF op[x] = "none" THEN late \cup {x} ELSE late
       \/ /\ future[x] = "error"
          /\ pc' = "failed"
          /\ UNCHANGED <<next, late>>
  /\ UNCHANGED <<future, op, tries, result>>

-----------------------------------------------------------------------------
(* class WaitIndicesReady                                                  *)

NoList(out) == [out |-> out, list |-> [o \in {} |-> "none"]]

Listed == {o \in DOMAIN op : op[o] # "none"}

\* All MaxTries calls are made, whatever they return; the last one counts.
CallCLI ==
  /\ pc = "try"
  /\ \/ \E out \in {"failed", "empty"} : result' = NoList(out)
     \/ result' = [out |-> "listed", list |-> [o \in Listed |-> op[o]]]
  /\ tries' = tries + 1
  /\ pc' = IF tries' = MaxTries THEN "judge" ELSE "try"
  /\ UNCHANGED <<next, future, op, late>>

Holding(list, S) == {o \in DOMAIN list : list[o] \in S}

\* Mutants: one finished operation is enough; operations that were cancelled are
\* not looked for; an operation that is done counts although it is not ready.
VerdictsAny(list) ==
  (IF Holding(list, {"done"}) # {} THEN {"ready"} ELSE {"wait"})
VerdictsPatient(list) ==
  (IF Holding(list, InProgress \cup Bad \cup Unready) # {} THEN {"wait"} ELSE {}) \cup
  (IF Holding(list, InProgress \cup Bad \cup Unready \cup Failed) = {}
   THEN {"ready"} ELSE {})

\* The loop over the operations: the first one that is bad, or in progress,
\* decides; "else" when there is neither.
Verdicts(list) ==
  (IF Holding(list, Bad \cup Failed)         # {} THEN {"error"} ELSE {}) \cup
  (IF Holding(list, InProgress \cup Unready) # {} THEN {"wait"}  ELSE {}) \cup
  (IF Holding(list, Bad \cup Failed \cup InProgress \cup Unready) = {}
   THEN {"ready"} ELSE {})

Judge ==
  /\ pc = "judge"
  /\ IF result.out \in {"failed", "empty"}
     THEN pc' = "failed"
     ELSE \E v \in Verdicts(result.list) :
            pc' = CASE v = "error" -> "failed"
                    [] v = "wait"  -> "try"
                    [] v = "ready" -> "ready"
  /\ tries' = 0
  /\ result' = NoList("none")
  /\ UNCHANGED <<next, future, op, late>>

-----------------------------------------------------------------------------
Init ==
  /\ pc = "send" /\ next = 1 /\ tries = 0 /\ result = NoList("none")
  /\ late = {}
  /\ future = [x \in Names |-> "none"]
  /\ op \in {f \in [Names \cup Earlier -> {"none", "done"} \cup Bad] :
               \A x \in Names : f[x] = "none"}

YDBStep(x) == Register(x) \/ Progress(x) \/ Respond(x)

HelperStep == SendRequest \/ CheckFuture \/ CallCLI \/ Judge

Next == HelperStep \/ \E x \in Names : YDBStep(x)

\* The script goes on; YDB deals with every request and finishes every build.
Fairness ==
  /\ WF_vars(HelperStep)
  /\ \A x \in Names : WF_vars(YDBStep(x))

Spec == Init /\ [][Next]_vars /\ Fairness

-----------------------------------------------------------------------------
\* The types of the variables.
TypeOK ==
  /\ pc \in {"send", "results", "try", "judge", "ready", "failed"}
  /\ next \in 1 .. Len(Indices)
  /\ future \in [Names -> {"none", "pending", "ok", "error"}]
  /\ op \in [Names \cup Earlier -> OpStates]
  /\ tries \in 0 .. MaxTries
  /\ late \subseteq Names
  /\ result.out \in {"none", "failed", "empty", "listed"}
  /\ \A o \in DOMAIN result.list : result.list[o] \in OpStates

\* Whatever else is in the list and however often the CLI failed, wait-index succeeds
\* only when every index is built whose build YDB had listed, or answered, when
\* "index" looked at its request: what is left out is what was late.
ReadyMeansBuilt == pc = "ready" => \A x \in Names \ late : op[x] = "done"

\* "Indices are ready" (tpcc_helper.py:819), as it stands: every index is built when
\* wait-index succeeds.  A build that was late need not be in any list it reads.
ReadyMeansAllBuilt == pc = "ready" => \A x \in Names : op[x] = "done"

\* wait-index does not poll forever: it reports success or an error.
Ends == <>(pc \in {"ready", "failed"})

=============================================================================
