------------------------------ MODULE TxCapture ------------------------------
(***************************************************************************)
(* The transaction tracker fed by real sessions through a capture.         *)
(*                                                                         *)
(* The clients and the server are external: what they do is what client.cpp*)
(* says of them (comment above TrasnactionState): a session runs one       *)
(* transaction, one request at a time; the first request begins it, later  *)
(* ones carry its id, the last one commits it.  The server may refuse any  *)
(* request, which ends the transaction.  The sessions share one HTTP/2     *)
(* connection, whose stream numbers grow and are never used twice.         *)
(* tcpdump may miss a message or record a response late.                   *)
(* With none of that the tracker implements TxLedger.                      *)
(***************************************************************************)
EXTENDS TxTracker

CONSTANTS
  AllTypes,   \* option --all-types: no filter on the first query
  Lossy,      \* tcpdump may miss messages
  Reordering  \* tcpdump may record a response after later requests

ASSUME CaptureAssumption ==
  /\ {AllTypes, Lossy, Reordering} \subseteq BOOLEAN
  /\ Streams \subseteq Nat \ {0}

VARIABLES
  sess,       \* the transaction each session runs, or Idle
  stage,      \* how far each transaction is
  newOrder,   \* the transactions whose first query is NewOrder's
  used,       \* streams used so far
  late,       \* streams whose response is recorded later
  outOfOrder, \* whether a response was recorded late (history)
  members     \* transactions whose requests each object took in (history)

captureVars == <<sess, stage, newOrder, used, late, outOfOrder, members>>
allVars == <<vars, captureVars>>

Idle == [tx |-> NoTx, stream |-> NoStream, committing |-> FALSE]

-----------------------------------------------------------------------------
\* The object that took in the request sent on stream st, if any, remembers t.
Remember(se, st, t, isBegin) ==
  LET a == active'[se]
  IN  members' = IF a # NoAddr /\ heap'[a].cur = st
                 THEN [members EXCEPT ![a] = {t} \cup IF isBegin THEN {} ELSE @]
                 ELSE members

Missed == Lossy /\ status = "running" /\ UNCHANGED vars

\* The session sends its transaction t's next request on the next free stream.
Send(se, st, t, isCommit) ==
  /\ st \notin used
  /\ \A other \in Streams \ used : st <= other
  /\ used' = used \cup {st}
  /\ sess' = [sess EXCEPT ![se] =
                [tx |-> t, stream |-> st, committing |-> isCommit]]
  /\ UNCHANGED <<late, outOfOrder>>

\* ExecuteDataQueryRequest with begin_tx.
SendBegin(se, st, t, isNewOrder) ==
  /\ sess[se] = Idle
  /\ stage[t] = "new"
  /\ stage' = [stage EXCEPT ![t] = "open"]
  /\ newOrder' = IF isNewOrder THEN newOrder \cup {t} ELSE newOrder
  /\ Send(se, st, t, FALSE)
  /\ \/ Missed
     \/ /\ AllTypes \/ isNewOrder
        /\ \/ BeginTransaction(st, se, now)
           \/ BeginOnBusyStream(st, se, now)
     \/ /\ ~(AllTypes \/ isNewOrder)
        /\ SkipQuery(now)
  /\ Remember(se, st, t, TRUE)

\* ExecuteDataQueryRequest with tx_id, or CommitTransactionRequest.
SendNext(se, st, isCommit) ==
  LET t == sess[se].tx IN
  /\ t # NoTx
  /\ sess[se].stream = NoStream
  /\ Send(se, st, t, isCommit)
  /\ UNCHANGED <<stage, newOrder>>
  /\ Missed \/ HandleRequest(st, se, t, now, isCommit)
  /\ Remember(se, st, t, FALSE)

Outcome(committing, ok) ==
  IF ok THEN "committed" ELSE IF committing THEN "refused" ELSE "aborted"

\* The server answers: it may refuse, and it may be done.  A late response that is
\* never recorded is a missed one.
Reply(se, ok) ==
  LET s == sess[se] IN
  /\ s.stream # NoStream
  /\ IF ok /\ ~s.committing
     THEN /\ sess' = [sess EXCEPT ![se].stream = NoStream]
          /\ UNCHANGED stage
     ELSE /\ sess' = [sess EXCEPT ![se] = Idle]
          /\ stage' = [stage EXCEPT ![s.tx] = Outcome(s.committing, ok)]
  /\ \/ ~Reordering /\ Missed /\ UNCHANGED late
     \/ Reordering /\ late' = late \cup {s.stream} /\ UNCHANGED vars
     \/ HandleResponse(s.stream, now) /\ UNCHANGED late
  /\ UNCHANGED <<newOrder, used, outOfOrder, members>>

\* A response is recorded late.
RecordLate(st) ==
  /\ st \in late
  /\ late' = late \ {st}
  /\ outOfOrder' = TRUE
  /\ HandleResponse(st, now)
  /\ UNCHANGED <<sess, stage, newOrder, used, members>>

CaptureInit ==
  /\ Init
  /\ sess     = [se \in Sessions |-> Idle]
  /\ stage    = [t \in TxIds |-> "new"]
  /\ newOrder = {}
  /\ used     = {}
  /\ late     = {}
  /\ outOfOrder = FALSE
  /\ members  = [a \in Addrs |-> {}]

CaptureNext ==
  \/ \E se \in Sessions, st \in Streams :
       \/ \E t \in TxIds, isNewOrder \in BOOLEAN : SendBegin(se, st, t, isNewOrder)
       \/ \E isCommit \in BOOLEAN : SendNext(se, st, isCommit)
  \/ \E se \in Sessions, ok \in BOOLEAN : Reply(se, ok)
  \/ \E st \in late : RecordLate(st)
  \/ PrintResults /\ UNCHANGED captureVars

CaptureSpec == CaptureInit /\ [][CaptureNext]_allVars

-----------------------------------------------------------------------------
\* For each reported transaction, the transactions its requests came from.
Reported == {members[a] : a \in finished}

Ledger == INSTANCE TxLedger WITH stage <- stage, reported <- Reported

\* The tracker reports a transaction exactly when its commit is answered, and
\* each line of the report is about that one transaction.
ImplementsLedger == Ledger!Spec

\* Every pointer in TransactionsByStream leads to an open transaction that waits
\* for a response on that very stream, and such a transaction is always found
\* that way: a response can be attributed by its stream alone.
PointersExact ==
  \A st \in Streams, a \in Addrs :
    byStream[st] = a <=> Live(a) /\ heap[a].cur = st

\* Lost messages never end the analysis with an exception or in undefined
\* behaviour; only a response that was recorded late may do so.
FailsOnlyOutOfOrder == outOfOrder \/ status \in {"running", "done"}

\* However many messages were missed, what is reported ended with an answered
\* commit, and no transaction shows up in two lines of the report.
ReportedOnce ==
  /\ \A a \in finished :
       \E t \in members[a] : stage[t] \in {"committed", "refused"}
  /\ \A a, b \in finished : a # b => members[a] \cap members[b] = {}

\* A transaction that a begin replaces has no request in progress, as the comment
\* in start_transaction says: "since it is missing in TransactionsByStream, there
\* is no active request".
ReplacedIsIdle ==
  [][\A se \in Sessions, st \in Streams :
       BeginTransaction(st, se, now) /\ active[se] # NoAddr
         => heap[active[se]].cur = NoStream]_allVars

=============================================================================
