--------------------------- MODULE IndexBuild_proofs ---------------------------
(***************************************************************************)
(* wait-index says "Indices are ready" only when what "index" started is   *)
(* built.                                                                  *)
(*                                                                         *)
(* Its verdict is about a list that was taken at an earlier moment, and an *)
(* operation that is not in the list is not waited for.  So the invariant  *)
(* has two parts: but for what was late, "index" leaves no index behind    *)
(* that is not listed, and what a list says is done stays done.            *)
(***************************************************************************)
EXTENDS IndexBuild, TLAPS

\* Futures that were looked at: their operations are listed, because they are
\* answered or because they were not late.
AllListed ==
  /\ \A x \in Names : future[x] = "ok" => op[x] = "done"
  /\ pc = "results" => \A i \in 1 .. (next - 1) : op[Indices[i]] # "none" \/ Indices[i] \in late
  /\ pc \in {"try", "judge", "ready"} => \A x \in Names \ late : op[x] # "none"

\* What was listed is a past state of the operations.
ListIsPast ==
  /\ pc = "judge" => result.out # "none"
  /\ result.out = "listed" =>
       pc \in {"try", "judge"} /\ Names \ late \subseteq DOMAIN result.list
  /\ \A x \in DOMAIN result.list : result.list[x] # "none"
  /\ \A x \in Names \cap DOMAIN result.list :
       result.list[x] = "done" => op[x] = "done"

\* The CLI is called again only while calls are left.
CallsLeft == pc \in {"send", "results", "try"} => tries < MaxTries

TypeInv == TypeOK /\ CallsLeft

IInv == TypeInv /\ AllListed /\ ListIsPast /\ ReadyMeansBuilt

-----------------------------------------------------------------------------
\* Every name is a key of the dict.
LEMMA IndexFacts ==
  /\ Len(Indices) \in Nat \ {0}
  /\ \A i \in 1 .. Len(Indices) : Indices[i] \in Names
  /\ \A x \in Names : \E i \in 1 .. Len(Indices) : x = Indices[i]
  /\ MaxTries \in Nat \ {0}
  BY IndexAssumption DEF Names

\* The initial state is typed.
LEMMA TypeInit == Init => TypeInv
  <1> SUFFICES ASSUME Init PROVE TypeInv
    OBVIOUS
  <1>1. op \in [Names \cup Earlier -> OpStates]
    BY DEF Init, OpStates, InProgress, Bad, Unready, Failed
  <1>2. result.out = "none" /\ DOMAIN result.list = {}
    BY DEF Init, NoList
  <1> QED BY <1>1, <1>2, IndexFacts DEF Init, TypeInv, TypeOK, CallsLeft

\* Every step keeps the types.
LEMMA TypeStep == TypeInv /\ [Next]_vars => TypeInv'
  <1> SUFFICES ASSUME TypeInv, [Next]_vars PROVE TypeInv'
    OBVIOUS
  <1> USE IndexFacts DEF TypeInv, TypeOK, CallsLeft
  <1>1. ASSUME NEW x \in Names, Register(x) PROVE TypeInv'
    BY <1>1 DEF Register, OpStates, InProgress
  <1>2. ASSUME NEW x \in Names, Progress(x) PROVE TypeInv'
    <2>1. PICK s \in OpStates : op' = [op EXCEPT ![x] = s]
      BY <1>2 DEF Progress, OpStates, Bad, Unready, Failed
    <2> QED BY <1>2, <2>1 DEF Progress
  <1>3. ASSUME NEW x \in Names, Respond(x) PROVE TypeInv'
    BY <1>3 DEF Respond
  <1>4. CASE SendRequest
    BY <1>4 DEF SendRequest
  <1>5. CASE CheckFuture
    BY <1>5 DEF CheckFuture
  <1>6. CASE CallCLI
    <2>1. result'.out \in {"failed", "empty", "listed"}
      BY <1>6 DEF CallCLI, NoList
    <2>2. \A o \in DOMAIN result'.list : result'.list[o] \in OpStates
      BY <1>6 DEF CallCLI, NoList, Listed
    <2> QED BY <1>6, <2>1, <2>2 DEF CallCLI
  <1>7. CASE Judge
    <2>1. result'.out = "none" /\ DOMAIN result'.list = {}
      BY <1>7 DEF Judge, NoList
    <2>2. pc' \in {"failed", "try", "ready"}
      BY <1>7 DEF Judge, Verdicts
    <2> QED BY <1>7, <2>1, <2>2 DEF Judge
  <1>8. CASE UNCHANGED vars
    BY <1>8 DEF vars
  <1> QED
    BY <1>1, <1>2, <1>3, <1>4, <1>5, <1>6, <1>7, <1>8 DEF Next, HelperStep, YDBStep

\* The types of the variables, whatever the CLI and YDB do.
THEOREM TypeCorrect == Spec => []TypeOK
  <1>1. TypeInv => TypeOK
    BY DEF TypeInv
  <1> QED BY TypeInit, TypeStep, <1>1, PTL DEF Spec

-----------------------------------------------------------------------------
\* An operation that is listed stays listed, and one that is done stays done.
LEMMA OpStable ==
  ASSUME TypeInv, [Next]_vars, NEW x \in Names
  PROVE  /\ op[x] # "none" => op'[x] # "none"
         /\ op[x] = "done" => op'[x] = "done"
         /\ late \subseteq late'
         /\ pc # "results" => late' = late
  <1> USE DEF TypeInv, TypeOK
  <1>1. ASSUME NEW y \in Names, Register(y)
        PROVE  op[x] # "none" => op'[x] = op[x]
    BY <1>1 DEF Register
  <1>2. ASSUME NEW y \in Names, Progress(y)
        PROVE  op'[x] = op[x] \/ (op[x] \in {"building", "unready"} /\ op'[x] # "none")
    BY <1>2 DEF Progress, Bad, Unready, Failed
  <1>3. ASSUME NEW y \in Names, Respond(y) PROVE UNCHANGED op
    BY <1>3 DEF Respond
  <1>4. ASSUME HelperStep PROVE UNCHANGED op
    BY <1>4 DEF HelperStep, SendRequest, CheckFuture, CallCLI, Judge
  <1>5. late \subseteq late' /\ (pc # "results" => late' = late)
    BY DEF Next, YDBStep, Register, Progress, Respond, HelperStep, SendRequest,
           CheckFuture, CallCLI, Judge, vars
  <1> QED BY <1>1, <1>2, <1>3, <1>4, <1>5 DEF Next, YDBStep, vars

\* A verdict "ready" is about a list in which nothing but "done" was found.
LEMMA ReadyVerdict ==
  ASSUME NEW list, "ready" \in Verdicts(list),
         \A o \in DOMAIN list : list[o] \in OpStates \ {"none"}
  PROVE  \A o \in DOMAIN list : list[o] = "done"
  BY DEF Verdicts, Holding, OpStates

\* Everything holds at the beginning.
LEMMA BuiltInit == Init => IInv
  <1> SUFFICES ASSUME Init PROVE IInv
    OBVIOUS
  <1>1. result.out = "none" /\ DOMAIN result.list = {}
    BY DEF Init, NoList
  <1> QED
    BY <1>1, TypeInit DEF Init, IInv, AllListed, ListIsPast, ReadyMeansBuilt

\* "index" leaves no index behind that is not listed, but for those that were late.
LEMMA AllListedStep ==
  ASSUME IInv, [Next]_vars
  PROVE  AllListed'
  <1> USE DEF IInv, TypeInv, TypeOK
  <1>1. \A x \in Names : future'[x] = "ok" => op'[x] = "done"
    <2>1. ASSUME NEW x \in Names, Respond(x)
          PROVE  \A y \in Names : future'[y] = "ok" => op'[y] = "done"
      BY <2>1 DEF Respond, AllListed, Bad, Failed
    <2>2. ASSUME NEW x \in Names, Register(x)
          PROVE  \A y \in Names : future'[y] = "ok" => future[y] = "ok"
      BY <2>2 DEF Register
    <2>3. ASSUME NEW x \in Names, Progress(x) PROVE UNCHANGED future
      BY <2>3 DEF Progress
    <2>4. ASSUME HelperStep
          PROVE  \A y \in Names : future'[y] = "ok" => future[y] = "ok"
      BY <2>4, IndexFacts
         DEF HelperStep, SendRequest, CheckFuture, CallCLI, Judge
    <2> QED
      BY <2>1, <2>2, <2>3, <2>4, OpStable DEF AllListed, Next, YDBStep, vars
  <1>2. ASSUME pc' = "results", NEW i \in 1 .. (next' - 1)
        PROVE  op'[Indices[i]] # "none" \/ Indices[i] \in late'
    <2>1. CASE SendRequest
      BY <2>1, <1>2, IndexFacts DEF SendRequest
    <2>2. CASE CheckFuture
      <3>1. UNCHANGED op /\ pc = "results" /\ next' = next + 1
        BY <2>2, <1>2, IndexFacts DEF CheckFuture
      <3>2. op[Indices[next]] # "none" \/ Indices[next] \in late'
        BY <2>2, <1>2, IndexFacts DEF CheckFuture
      <3> QED BY <3>1, <3>2, OpStable, IndexFacts DEF AllListed
    <2>3. CASE CallCLI
      BY <2>3, <1>2 DEF CallCLI
    <2>4. CASE Judge
      BY <2>4, <1>2 DEF Judge, Verdicts
    <2>5. CASE UNCHANGED <<pc, next>>
      BY <2>5, <1>2, OpStable, IndexFacts DEF AllListed
    <2> QED
      BY <2>1, <2>2, <2>3, <2>4, <2>5
         DEF Next, HelperStep, YDBStep, Register, Progress, Respond, vars
  <1>3. ASSUME pc' \in {"try", "judge", "ready"}, NEW x \in Names \ late'
        PROVE  op'[x] # "none"
    <2>1. CASE CheckFuture
      <3>1. UNCHANGED op /\ pc = "results" /\ next = Len(Indices)
        BY <2>1, <1>3, IndexFacts DEF CheckFuture
      <3>2. op[Indices[next]] # "none" \/ Indices[next] \in late'
        BY <2>1, <1>3, IndexFacts DEF CheckFuture
      <3>3. PICK i \in 1 .. Len(Indices) : x = Indices[i]
        BY IndexFacts
      <3> QED BY <3>1, <3>2, <3>3, OpStable, IndexFacts DEF AllListed
    <2>2. CASE SendRequest
      BY <2>2, <1>3 DEF SendRequest
    <2>3. CASE CallCLI \/ Judge
      BY <2>3, <1>3, OpStable DEF CallCLI, Judge, AllListed
    <2>4. CASE UNCHANGED pc
      BY <2>4, <1>3, OpStable DEF AllListed
    <2> QED
      BY <2>1, <2>2, <2>3, <2>4
         DEF Next, HelperStep, YDBStep, Register, Progress, Respond, vars
  <1> QED BY <1>1, <1>2, <1>3 DEF AllListed

\* A list is never ahead of the operations.
LEMMA ListIsPastStep ==
  ASSUME IInv, [Next]_vars
  PROVE  ListIsPast'
  <1> USE DEF IInv, TypeInv, TypeOK
  <1>1. CASE CallCLI
    <2>1. \/ /\ result'.out \in {"failed", "empty"}
             /\ DOMAIN result'.list = {}
          \/ /\ result'.out = "listed" /\ DOMAIN result'.list = Listed
             /\ \A x \in Listed : result'.list[x] = op[x]
      BY <1>1 DEF CallCLI, NoList
    <2>2. Names \ late \subseteq Listed
      BY <1>1 DEF CallCLI, Listed, AllListed
    <2> QED BY <1>1, <2>1, <2>2 DEF CallCLI, ListIsPast, Listed
  <1>2. CASE Judge
    <2>1. /\ result'.out = "none" /\ DOMAIN result'.list = {}
          /\ pc' # "judge"
      BY <1>2 DEF Judge, NoList, Verdicts
    <2> QED BY <2>1 DEF ListIsPast
  <1>3. CASE SendRequest \/ CheckFuture
    BY <1>3 DEF SendRequest, CheckFuture, ListIsPast
  <1>4. CASE UNCHANGED <<pc, result>>
    BY <1>4, OpStable DEF ListIsPast
  <1> QED
    BY <1>1, <1>2, <1>3, <1>4
       DEF Next, HelperStep, YDBStep, Register, Progress, Respond, vars

\* The verdict "ready" is right.
LEMMA ReadyStep ==
  ASSUME IInv, [Next]_vars
  PROVE  ReadyMeansBuilt'
  <1> USE DEF IInv, TypeInv, TypeOK
  <1> SUFFICES ASSUME pc' = "ready", NEW x \in Names \ late' PROVE op'[x] = "done"
    BY DEF ReadyMeansBuilt
  <1>1. CASE Judge
    <2>1. result.out = "listed" /\ "ready" \in Verdicts(result.list)
      <3>1. result.out \notin {"failed", "empty"}
        BY <1>1 DEF Judge
      <3>2. PICK v \in Verdicts(result.list) :
               pc' = CASE v = "error" -> "failed"
                       [] v = "wait"  -> "try"
                       [] v = "ready" -> "ready"
        BY <1>1, <3>1 DEF Judge
      <3>3. v \in {"error", "wait", "ready"}
        BY DEF Verdicts
      <3>4. v = "ready"
        BY <3>2, <3>3
      <3>5. result.out # "none"
        BY <1>1 DEF Judge, ListIsPast
      <3> QED BY <3>1, <3>4, <3>5
    <2>2. \A o \in DOMAIN result.list : result.list[o] = "done"
      <3>1. \A o \in DOMAIN result.list : result.list[o] \in OpStates \ {"none"}
        BY DEF ListIsPast
      <3> QED BY <2>1, <3>1, ReadyVerdict
    <2> QED BY <1>1, <2>1, <2>2 DEF Judge, ListIsPast
  <1>2. CASE SendRequest \/ CheckFuture \/ CallCLI
    BY <1>2 DEF SendRequest, CheckFuture, CallCLI
  <1>3. CASE UNCHANGED pc
    BY <1>3, OpStable DEF ReadyMeansBuilt
  <1> QED
    BY <1>1, <1>2, <1>3
       DEF Next, HelperStep, YDBStep, Register, Progress, Respond, vars

\* For any indices, any number of CLI calls and whatever builds went before: what
\* "index" saw started is built when wait-index says so.
THEOREM BuiltWhenReady == Spec => []ReadyMeansBuilt
  <1>1. IInv /\ [Next]_vars => IInv'
    BY TypeStep, AllListedStep, ListIsPastStep, ReadyStep DEF IInv
  <1>2. IInv => ReadyMeansBuilt
    BY DEF IInv
  <1> QED BY BuiltInit, <1>1, <1>2, PTL DEF Spec

=============================================================================
