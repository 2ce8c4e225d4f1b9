------------------------------ MODULE TxTracker ------------------------------
(***************************************************************************)
(* The transaction tracker of ydb-tpcc-tcpdump-parse (client.cpp): class   *)
(* PacketParser::TransactionHandler with its TrasnactionState objects,     *)
(* driven by the gRPC messages found in a packet capture.                  *)
(*                                                                         *)
(* A YDB session runs one transaction at a time: a data query that begins  *)
(* it, data queries that carry its id, a commit.  Requests name their      *)
(* session, responses only their HTTP/2 stream.  The handler owns the open *)
(* transactions by session (ActiveTransactions, unique_ptr) and finds them *)
(* by stream for responses (TransactionsByStream, raw pointer), so the     *)
(* heap is part of the state: an object that is destroyed leaves its       *)
(* address to the allocator, which may hand it out again.                  *)
(*                                                                         *)
(* A transaction keeps the number and the sum of its request latencies in  *)
(* place of the vector of them.  Parsing (Ethernet, IP, TCP, HTTP/2,       *)
(* protobuf) is left out: a step consumes one recognised message.          *)
(***************************************************************************)
EXTENDS Integers, FiniteSets

CONSTANTS
  Sessions,   \* YDB session ids
  Streams,    \* Http2StreamId: client endpoint and HTTP/2 stream number
  NoStream,   \* the cleared Http2StreamId
  TxIds,      \* transaction ids
  NoTx,       \* the empty transaction id
  Addrs,      \* heap addresses of TrasnactionState objects
  NoAddr,     \* a key that is missing from one of the maps
  Freed,      \* content of an address that holds no object
  MaxTs,      \* bound on TsUs
  MaxFrames   \* option -n: no message is read beyond this number

ASSUME TrackerAssumption ==
  /\ NoStream \notin Streams
  /\ NoTx \notin TxIds
  /\ NoAddr \notin Addrs
  /\ MaxTs \in Nat \ {0}
  /\ MaxFrames \in Nat

VARIABLES
  status,     \* "running", "done", "error" (exception) or "undefined"
  heap,       \* TrasnactionState at each address, or Freed
  active,     \* ActiveTransactions: session -> owned address
  byStream,   \* TransactionsByStream: stream -> address, not owned
  finished,   \* FinishedTransactions, as a set of owned addresses
  now,        \* timestamp of the last message read
  count,      \* ParsedCount and the five counters of the handler
  stepped     \* transactions that were open when time went back (history)

vars == <<status, heap, active, byStream, finished, now, count, stepped>>

Counters == {"parsed", "processed", "skipped", "aborted",
             "idMismatch", "mismatch"}

-----------------------------------------------------------------------------
(* class TrasnactionState                                                  *)

TxState == [session: Sessions, startTs: Nat, endTs: Nat, serverUs: Nat,
            cur: Streams \cup {NoStream}, curTs: Nat, committing: BOOLEAN,
            txid: TxIds \cup {NoTx}, requests: Nat, latency: Nat]

ASSUME FreedAssumption == Freed \notin TxState

\* Constructor: the request that begins the transaction is in progress.
NewTransaction(st, se, ts) ==
  [session |-> se, startTs |-> ts, endTs |-> 0, serverUs |-> 0,
   cur |-> st, curTs |-> ts, committing |-> FALSE, txid |-> NoTx,
   requests |-> 0, latency |-> 0]

\* Mutants: the stream, or the time, of the request is not noted down.
StartRequestNoStream(t, st, ts) == [t EXCEPT !.curTs = ts]
StartRequestNoTime(t, st, ts) == [t EXCEPT !.cur = st]

StartRequest(t, st, ts) == [t EXCEPT !.cur = st, !.curTs = ts]

\* Mutant: nothing says that the request is a commit.
StartCommitUnmarked(t, st, ts) == StartRequest(t, st, ts)

StartCommit(t, st, ts) == [StartRequest(t, st, ts) EXCEPT !.committing = TRUE]

\* set_transaction_id, then start_request or start_commit.
NextRequest(t, st, tx, ts, isCommit) ==
  LET u == [t EXCEPT !.txid = tx]
  IN  IF isCommit THEN StartCommit(u, st, ts) ELSE StartRequest(u, st, ts)

\* Mutants: a response before its request is not clamped; the request stays in
\* progress after its response.
FinishRequestNoClamp(t, ts) ==
  [t EXCEPT !.latency = @ + ts - t.curTs, !.requests = @ + 1,
            !.cur = NoStream, !.curTs = 0]
FinishRequestNotCleared(t, ts) ==
  [t EXCEPT !.latency = @ + ts - t.curTs, !.requests = @ + 1]

\* A capture may step back: the latency of such a request is taken for 0.
FinishRequest(t, ts) ==
  [t EXCEPT !.latency  = @ + (IF ts >= t.curTs THEN ts - t.curTs ELSE 0),
            !.requests = @ + 1,
            !.cur      = NoStream,
            !.curTs    = 0]

\* Mutant: the transaction ends when its commit is sent.
FinishTransactionAtCommit(t, ts) ==
  LET f == FinishRequest(t, ts)
  IN  [f EXCEPT !.endTs = t.curTs, !.serverUs = @ + f.latency]

FinishTransaction(t, ts) ==
  LET f == FinishRequest(t, ts)
  IN  [f EXCEPT !.endTs = ts, !.serverUs = @ + f.latency]

\* The code subtracts unsigned numbers: what is negative here wraps around there.
TotalTime(t) == t.endTs - t.startTs

-----------------------------------------------------------------------------
(* The maps.  Erasing a session destroys the transaction it owns; pointers *)
(* to it in byStream stay.                                                 *)

Live(a) == heap[a] # Freed

HeapWithout(se) ==
  IF active[se] = NoAddr THEN heap ELSE [heap EXCEPT ![active[se]] = Freed]

\* Mutant: the object is destroyed, its entry stays in the map.
EraseSessionKeepsEntry(se) ==
  /\ heap' = HeapWithout(se)
  /\ UNCHANGED active

EraseSession(se) ==
  /\ heap'   = HeapWithout(se)
  /\ active' = [active EXCEPT ![se] = NoAddr]

EraseStream(st) == byStream' = [byStream EXCEPT ![st] = NoAddr]

\* Mutant: a begin that replaces a transaction counts as aborted only.
ParseAbortedOnly(ts, C) ==
  /\ status = "running"
  /\ count["parsed"] < MaxFrames
  /\ now' = ts
  /\ LET counted == IF "aborted" \in C THEN {"aborted", "parsed"} ELSE C \cup {"parsed"}
     IN  count' = [c \in Counters |-> IF c \in counted THEN count[c] + 1 ELSE count[c]]

\* A message of time ts is parsed, and the counters in C go up by one.
Parse(ts, C) ==
  /\ status = "running"
  /\ count["parsed"] < MaxFrames
  /\ now' = ts
  /\ count' = [c \in Counters |-> IF c \in C \cup {"parsed"}
                                  THEN count[c] + 1 ELSE count[c]]

\* The transactions over which time has gone back once ts follows now.
SteppedAt(ts) ==
  IF ts < now THEN stepped \cup {a \in Addrs : Live(a) /\ a \notin finished}
              ELSE stepped

\* A message is read that begins no transaction.
Read(ts, C) == Parse(ts, C) /\ stepped' = SteppedAt(ts)

-----------------------------------------------------------------------------
(* handle_data_query_request with a begin_tx selector.                     *)

\* The session still owns a transaction that was given up, or none.
BeginTransaction(st, se, ts) ==
  /\ byStream[st] = NoAddr
  /\ Parse(ts, {"processed"} \cup IF active[se] = NoAddr THEN {} ELSE {"aborted"})
  /\ \E a \in Addrs :
       /\ HeapWithout(se)[a] = Freed
       /\ heap'     = [HeapWithout(se) EXCEPT ![a] = NewTransaction(st, se, ts)]
       /\ active'   = [active EXCEPT ![se] = a]
       /\ byStream' = [byStream EXCEPT ![st] = a]
       /\ stepped'  = SteppedAt(ts) \ {a}
  /\ UNCHANGED <<status, finished>>

\* The stream already carries a request: both entries are dropped.
BeginOnBusyStream(st, se, ts) ==
  /\ byStream[st] # NoAddr
  /\ Read(ts, {"mismatch"})
  /\ EraseStream(st)
  /\ EraseSession(se)
  /\ UNCHANGED <<status, finished>>

\* The filter rejects the query, or the selector is neither tx_id nor begin_tx.
SkipQuery(ts) ==
  /\ Read(ts, {"skipped"})
  /\ UNCHANGED <<status, heap, active, byStream, finished>>

-----------------------------------------------------------------------------
(* handle_request: a data query with a tx_id, or a commit.                 *)

RequestOfUnknownSession(se, ts) ==
  /\ active[se] = NoAddr
  /\ SkipQuery(ts)

RequestWhileWaiting(se, ts) ==
  /\ active[se] # NoAddr
  /\ LET t == heap[active[se]] IN
       /\ t.cur # NoStream
       /\ EraseStream(t.cur)
  /\ EraseSession(se)
  /\ Read(ts, {"mismatch"})
  /\ UNCHANGED <<status, finished>>

\* The first stream found that points to the transaction is erased with it.
RequestOfOtherTransaction(se, tx, ts) ==
  /\ active[se] # NoAddr
  /\ LET a   == active[se]
         ofA == {s \in Streams : byStream[s] = a}
     IN /\ heap[a].cur = NoStream
        /\ heap[a].txid \notin {NoTx, tx}
        /\ IF ofA = {} THEN UNCHANGED byStream
                       ELSE \E s \in ofA : EraseStream(s)
  /\ EraseSession(se)
  /\ Read(ts, {"idMismatch"})
  /\ UNCHANGED <<status, finished>>

StartNextRequest(st, se, tx, ts, isCommit) ==
  /\ active[se] # NoAddr
  /\ LET a == active[se] IN
       /\ heap[a].cur = NoStream
       /\ heap[a].txid \in {NoTx, tx}
       /\ heap' = [heap EXCEPT ![a] = NextRequest(heap[a], st, tx, ts, isCommit)]
       /\ byStream' = [byStream EXCEPT ![st] = a]
  /\ Read(ts, {"processed"})
  /\ UNCHANGED <<status, active, finished>>

HandleRequest(st, se, tx, ts, isCommit) ==
  \/ RequestOfUnknownSession(se, ts)
  \/ RequestWhileWaiting(se, ts)
  \/ RequestOfOtherTransaction(se, tx, ts)
  \/ StartNextRequest(st, se, tx, ts, isCommit)

-----------------------------------------------------------------------------
(* try_handle_data_query_response, then try_handle_commit_response.        *)

\* No request is known on this stream: both handlers return false.
ResponseOfUnknownStream(st, ts) ==
  /\ byStream[st] = NoAddr
  /\ Read(ts, {})
  /\ UNCHANGED <<status, heap, active, byStream, finished>>

\* The pointer dangles: is_committing() reads a destroyed object.
ResponseThroughDanglingPointer(st, ts) ==
  /\ byStream[st] # NoAddr
  /\ ~Live(byStream[st])
  /\ Read(ts, {})
  /\ status' = "undefined"
  /\ UNCHANGED <<heap, active, byStream, finished>>

\* finish_request throws: the object at that address waits for another stream.
ResponseOfOtherRequest(st, ts) ==
  /\ byStream[st] # NoAddr
  /\ Live(byStream[st])
  /\ heap[byStream[st]].cur # st
  /\ Read(ts, {})
  /\ status' = "error"
  /\ UNCHANGED <<heap, active, byStream, finished>>

ResponseToQuery(st, ts) ==
  /\ byStream[st] # NoAddr
  /\ LET a == byStream[st] IN
       /\ Live(a)
       /\ heap[a].cur = st
       /\ ~heap[a].committing
       /\ heap' = [heap EXCEPT ![a] = FinishRequest(heap[a], ts)]
  /\ EraseStream(st)
  /\ Read(ts, {"processed"})
  /\ UNCHANGED <<status, active, finished>>

\* Mutant: the finished transaction stays in ActiveTransactions.
ResponseToCommitCopies(st, ts) ==
  /\ byStream[st] # NoAddr
  /\ LET a == byStream[st] IN
       /\ Live(a) /\ heap[a].cur = st /\ heap[a].committing
       /\ heap' = [heap EXCEPT ![a] = FinishTransaction(heap[a], ts)]
       /\ finished' = finished \cup {a}
  /\ EraseStream(st)
  /\ Read(ts, {"processed"})
  /\ UNCHANGED <<status, active>>

\* handle_commit_response moves what the session owns to FinishedTransactions.
ResponseToCommit(st, ts) ==
  /\ byStream[st] # NoAddr
  /\ LET a  == byStream[st]
         se == heap[a].session
     IN /\ Live(a)
        /\ heap[a].cur = st
        /\ heap[a].committing
        /\ heap' = [heap EXCEPT ![a] = FinishTransaction(heap[a], ts)]
        /\ IF active[se] = NoAddr
           THEN /\ status' = "error"
                /\ Read(ts, {})
                /\ UNCHANGED <<active, byStream, finished>>
           ELSE /\ finished' = finished \cup {active[se]}
                /\ active' = [active EXCEPT ![se] = NoAddr]
                /\ EraseStream(st)
                /\ Read(ts, {"processed"})
                /\ UNCHANGED status

HandleResponse(st, ts) ==
  \/ ResponseOfUnknownStream(st, ts)
  \/ ResponseThroughDanglingPointer(st, ts)
  \/ ResponseOfOtherRequest(st, ts)
  \/ ResponseToQuery(st, ts)
  \/ ResponseToCommit(st, ts)

\* The capture ends, or -n messages were read: process_print_results.
PrintResults ==
  /\ status = "running"
  /\ status' = "done"
  /\ UNCHANGED <<heap, active, byStream, finished, now, count, stepped>>

-----------------------------------------------------------------------------
Init ==
  /\ status   = "running"
  /\ heap     = [a \in Addrs |-> Freed]
  /\ active   = [se \in Sessions |-> NoAddr]
  /\ byStream = [st \in Streams |-> NoAddr]
  /\ finished = {}
  /\ now      = 1
  /\ count    = [c \in Counters |-> 0]
  /\ stepped  = {}

\* Any message may follow any other, at any time: captures may step back.
Next ==
  \/ \E ts \in 1 .. MaxTs : SkipQuery(ts)
  \/ \E ts \in 1 .. MaxTs, st \in Streams :
       \/ HandleResponse(st, ts)
       \/ \E se \in Sessions :
            \/ BeginTransaction(st, se, ts)
            \/ BeginOnBusyStream(st, se, ts)
            \/ \E tx \in TxIds \cup {NoTx} : HandleRequest(st, se, tx, ts, FALSE)
            \/ \E tx \in TxIds : HandleRequest(st, se, tx, ts, TRUE)
  \/ PrintResults

Spec == Init /\ [][Next]_vars

-----------------------------------------------------------------------------
(* Properties that hold for every capture, however damaged.                *)

\* The types of the variables.
TypeOK ==
  /\ status \in {"running", "done", "error", "undefined"}
  /\ heap \in [Addrs -> TxState \cup {Freed}]
  /\ active \in [Sessions -> Addrs \cup {NoAddr}]
  /\ byStream \in [Streams -> Addrs \cup {NoAddr}]
  /\ finished \in SUBSET Addrs
  /\ now \in Nat
  /\ count \in [Counters -> Nat]
  /\ stepped \in SUBSET Addrs

\* Each transaction object has one owner, and the right one: the session it was
\* begun in, or the list of finished transactions.  handle_commit_response
\* finishes the object the stream points to but moves the one the session owns,
\* after entries of both maps were erased separately: they must be the same.
SingleOwner ==
  /\ \A se \in Sessions : active[se] # NoAddr =>
       /\ Live(active[se])
       /\ heap[active[se]].session = se
       /\ active[se] \notin finished
  /\ \A a \in Addrs : Live(a) =>
       \/ a \in finished
       \/ active[heap[a].session] = a

\* A commit is only ever in progress, after at least one answered request, and
\* between requests one was answered.
OpenBooks(t) ==
  /\ t.serverUs = 0
  /\ t.committing => t.cur # NoStream /\ t.requests >= 1
  /\ t.cur = NoStream => t.requests >= 1

\* While a request is in progress the latencies so far fit before it was sent,
\* between requests they fit before n, the present.
OpenTimes(t, n) ==
  IF t.cur = NoStream
  THEN t.startTs + t.latency <= n
  ELSE t.startTs + t.latency <= t.curTs /\ t.curTs <= n

\* Begun, answered, committed and answered again.
FinishedBooks(t) ==
  /\ t.committing
  /\ t.cur = NoStream
  /\ t.requests >= 2
  /\ t.serverUs = t.latency

\* The server's share of the total time is at most that time: get_client_time,
\* an unsigned subtraction, does not wrap around.
TimesFit(t) == t.serverUs <= TotalTime(t)

\* The latencies of an unfinished transaction never overlap, whatever requests and
\* responses were lost, unless time went back while it was open: each one lies
\* between the previous and the present.
OpenConsistent ==
  \A a \in Addrs : Live(a) /\ a \notin finished =>
    /\ OpenBooks(heap[a])
    /\ a \notin stepped => OpenTimes(heap[a], now)

\* A reported transaction is complete, and unless time went back while it was open
\* its server time fits into its total time.  (Where it went back, finish_request
\* clamps each latency but not the total, and get_client_time may wrap around.)
FinishedConsistent ==
  \A a \in finished :
    /\ Live(a)
    /\ FinishedBooks(heap[a])
    /\ a \notin stepped => TimesFit(heap[a])

\* Nothing touches a finished transaction any more, although stale pointers to
\* its address may be left in TransactionsByStream.
FinishedImmutable ==
  [][\A a \in finished : a \in finished' /\ heap'[a] = heap[a]]_vars

\* The messages a transaction has seen: its requests and the responses to them.
Seen(t) == 2 * t.requests + (IF t.cur = NoStream THEN 0 ELSE 1)

Messages == UNION {{a} \X (1 .. Seen(heap[a])) : a \in {b \in Addrs : Live(b)}}

\* Every response that was measured, and the request it answers, was counted as
\* processed once, and so was a message of every transaction that was aborted: the
\* printed total is at least what the objects have seen.
AccountedFor ==
  /\ count["processed"] >= Cardinality(Messages) + count["aborted"]
  /\ count["processed"] >= 4 * Cardinality(finished) + count["aborted"]

=============================================================================
