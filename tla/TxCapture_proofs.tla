--------------------------- MODULE TxCapture_proofs ---------------------------
(***************************************************************************)
(* What the transaction tracker guarantees.  The first part is about       *)
(* TxTracker, and holds for every capture: any order of messages, any      *)
(* sessions, streams and transaction ids, any allocator.  The others are   *)
(* about what it does with the messages of real sessions.  The second      *)
(* holds for every capture, with messages that were missed or were         *)
(* recorded late: the invariant follows each transaction of the clients    *)
(* into the one object that may hold its requests.  The third is about a   *)
(* complete capture: the tracker implements TxLedger.                      *)
(***************************************************************************)
EXTENDS TxCapture, FiniteSetTheorems, TLAPS

\* The inductive invariant.  SingleOwner makes the object a commit response
\* finishes the one its session owns; OpenConsistent gives FinishedConsistent
\* when that object moves to the finished ones.
Inv == TypeOK /\ SingleOwner /\ OpenConsistent /\ FinishedConsistent

-----------------------------------------------------------------------------
(* class TrasnactionState.                                                 *)

\* A new transaction is well typed and its first request is in progress.
LEMMA NewTransactionProps ==
    ASSUME NEW st \in Streams, NEW se \in Sessions, NEW ts \in Nat
    PROVE  LET t == NewTransaction(st, se, ts)
           IN  /\ t \in TxState
               /\ t.session = se /\ t.cur = st /\ t.curTs = ts
               /\ t.startTs = ts /\ t.latency = 0 /\ t.serverUs = 0
               /\ ~t.committing /\ t.requests = 0
  BY DEF NewTransaction, TxState

\* Finishing a request in time adds what it took, and never takes anything away.
LEMMA FinishRequestProps ==
    ASSUME NEW t \in TxState, NEW ts \in Nat
    PROVE  LET v == FinishRequest(t, ts)
           IN  /\ v \in TxState
               /\ v.cur = NoStream
               /\ t.curTs <= ts => v.latency = t.latency + (ts - t.curTs)
               /\ v.requests = t.requests + 1
               /\ v.session = t.session /\ v.startTs = t.startTs
               /\ v.committing = t.committing /\ v.serverUs = t.serverUs
<1> DEFINE L == t.latency + (IF ts >= t.curTs THEN ts - t.curTs ELSE 0)
           R == t.requests + 1
           v == [t EXCEPT !.latency = L, !.requests = R,
                          !.cur = NoStream, !.curTs = 0]
<1>1. t.latency \in Nat /\ t.requests \in Nat /\ t.curTs \in Nat
  BY DEF TxState
<1>2. L \in Nat /\ R \in Nat
  BY <1>1
<1>3. t.curTs <= ts => L = t.latency + (ts - t.curTs)
  BY <1>1
<1>4. FinishRequest(t, ts) = v
  BY DEF FinishRequest
<1> HIDE DEF L, R
<1>5. /\ v \in TxState
      /\ v.cur = NoStream /\ v.latency = L /\ v.requests = R
      /\ v.session = t.session /\ v.startTs = t.startTs
      /\ v.committing = t.committing /\ v.serverUs = t.serverUs
  BY <1>2 DEF TxState
<1> QED
  BY <1>3, <1>4, <1>5 DEF R

\* Finishing a transaction finishes its commit request and sums up.
LEMMA FinishTransactionProps ==
    ASSUME NEW t \in TxState, NEW ts \in Nat
    PROVE  LET v == FinishTransaction(t, ts)
           IN  /\ v \in TxState
               /\ v.cur = NoStream
               /\ t.curTs <= ts => v.latency = t.latency + (ts - t.curTs)
               /\ v.requests = t.requests + 1
               /\ v.session = t.session /\ v.startTs = t.startTs
               /\ v.committing = t.committing
               /\ v.endTs = ts
               /\ v.serverUs = t.serverUs + v.latency
<1> DEFINE f == FinishRequest(t, ts)
           S == f.serverUs + f.latency
           v == [f EXCEPT !.endTs = ts, !.serverUs = S]
<1>1. /\ f \in TxState /\ f.cur = NoStream
      /\ t.curTs <= ts => f.latency = t.latency + (ts - t.curTs)
      /\ f.requests = t.requests + 1
      /\ f.session = t.session /\ f.startTs = t.startTs
      /\ f.committing = t.committing /\ f.serverUs = t.serverUs
  BY FinishRequestProps
<1>2. S \in Nat
  BY <1>1 DEF TxState
<1>3. FinishTransaction(t, ts) = v
  BY DEF FinishTransaction
<1> HIDE DEF f, S
<1>4. /\ v \in TxState /\ v.endTs = ts /\ v.serverUs = S
      /\ v.cur = f.cur /\ v.latency = f.latency /\ v.requests = f.requests
      /\ v.session = f.session /\ v.startTs = f.startTs
      /\ v.committing = f.committing
  BY <1>1, <1>2 DEF TxState
<1>5. S = t.serverUs + v.latency
  BY <1>1, <1>4 DEF S
<1> QED
  BY <1>1, <1>3, <1>4, <1>5

-----------------------------------------------------------------------------
(* What the actions have in common.                                        *)

\* Parsing a message sets the clock and counts.
LEMMA ParseProps ==
    ASSUME TypeOK, NEW ts \in 1 .. MaxTs, NEW C, Parse(ts, C)
    PROVE  now' = ts /\ now' \in Nat /\ count' \in [Counters -> Nat]
<1>1. now' = ts /\ MaxTs \in Nat
  BY TrackerAssumption DEF Parse
<1>2. count' \in [Counters -> Nat]
  BY DEF Parse, TypeOK
<1> QED
  BY <1>1, <1>2

\* Reading a message also notes over which transactions the clock went back.
LEMMA ReadProps ==
    ASSUME TypeOK, NEW ts \in 1 .. MaxTs, NEW C, Read(ts, C)
    PROVE  /\ now' = ts /\ now' \in Nat
           /\ count' \in [Counters -> Nat]
           /\ stepped' = SteppedAt(now')
<1>1. Parse(ts, C) /\ stepped' = SteppedAt(ts)
  BY DEF Read
<1>2. now' = ts /\ now' \in Nat /\ count' \in [Counters -> Nat]
  BY <1>1, ParseProps
<1> QED
  BY <1>1, <1>2

\* The conjuncts of TypeOK that no action can break but by what it reads.
Scalars ==
  /\ status' \in {"running", "done", "error", "undefined"}
  /\ byStream' \in [Streams -> Addrs \cup {NoAddr}]
  /\ now' \in Nat
  /\ count' \in [Counters -> Nat]
  /\ stepped' = SteppedAt(now')

\* The times of an open transaction stay in order when time passes.
LEMMA TimesLater ==
    ASSUME NEW t \in TxState, NEW m \in Nat, NEW n \in Nat, m <= n,
           OpenTimes(t, m)
    PROVE  OpenTimes(t, n)
<1>1. t.startTs \in Nat /\ t.latency \in Nat /\ t.curTs \in Nat
  BY DEF TxState
<1> QED
  BY <1>1 DEF OpenTimes

\* Unless the clock goes back over it, an open transaction has its times in order.
LEMMA TimesStay ==
    ASSUME Inv, now' \in Nat, NEW b \in Addrs, Live(b), b \notin finished,
           b \notin SteppedAt(now')
    PROVE  now <= now' /\ b \notin stepped /\ OpenTimes(heap[b], now')
<1>1. now <= now' /\ b \notin stepped
  BY DEF SteppedAt, Inv, TypeOK
<1>2. OpenTimes(heap[b], now) /\ heap[b] \in TxState
  BY <1>1 DEF Inv, TypeOK, OpenConsistent, Live
<1> QED
  BY <1>1, <1>2, TimesLater DEF Inv, TypeOK

\* The history only grows, but for a transaction that begins.
LEMMA SteppedGrows ==
    ASSUME Inv, NEW n
    PROVE  stepped \subseteq SteppedAt(n) /\ SteppedAt(n) \in SUBSET Addrs
  BY DEF SteppedAt, Inv, TypeOK

\* What OpenConsistent says of one object after a step that leaves it alone.
LEMMA OpenStays ==
    ASSUME Inv, now' \in Nat, NEW b \in Addrs, Live(b), b \notin finished,
           heap'[b] = heap[b], b \notin stepped' => b \notin SteppedAt(now')
    PROVE  /\ OpenBooks(heap'[b])
           /\ b \notin stepped' => OpenTimes(heap'[b], now')
<1>1. OpenBooks(heap[b])
  BY DEF Inv, OpenConsistent
<1>2. ASSUME b \notin stepped' PROVE OpenTimes(heap[b], now')
  BY <1>2, TimesStay
<1> QED
  BY <1>1, <1>2

\* A step that changes no transaction and no owner.
LEMMA QuietStep ==
    ASSUME Inv, Scalars, UNCHANGED <<heap, active, finished>>
    PROVE  Inv'
<1>1. TypeOK'
  BY SteppedGrows DEF Inv, TypeOK, Scalars
<1>2. SingleOwner'
  BY DEF Inv, SingleOwner, Live
<1>3. OpenConsistent'
  BY OpenStays DEF Scalars, OpenConsistent, Live
<1>4. FinishedConsistent'
  BY SteppedGrows DEF Scalars, Inv, FinishedConsistent, Live
<1> QED
  BY <1>1, <1>2, <1>3, <1>4 DEF Inv

\* A step that destroys the transaction a session owns, if there is one.
LEMMA EraseStep ==
    ASSUME Inv, Scalars, NEW se \in Sessions, EraseSession(se),
           UNCHANGED finished
    PROVE  Inv'
<1>1. CASE active[se] = NoAddr
  <2>1. UNCHANGED <<heap, active, finished>>
    BY <1>1 DEF EraseSession, HeapWithout, Inv, TypeOK
  <2> QED
    BY <2>1, QuietStep
<1>2. CASE active[se] # NoAddr
  <2> DEFINE a == active[se]
  <2>1. /\ a \in Addrs /\ heap' = [heap EXCEPT ![a] = Freed]
        /\ active' = [active EXCEPT ![se] = NoAddr]
        /\ Live(a) /\ heap[a].session = se /\ a \notin finished
    BY <1>2 DEF EraseSession, HeapWithout, Inv, TypeOK, SingleOwner
  <2>2. TypeOK'
    BY <2>1, SteppedGrows DEF Inv, TypeOK, Scalars
  <2>3. \A b \in Addrs : b # a => heap'[b] = heap[b]
    BY <2>1 DEF Inv, TypeOK
  <2>4. heap'[a] = Freed
    BY <2>1 DEF Inv, TypeOK
  <2>5. \A s \in Sessions : s # se => active'[s] = active[s] /\ active[s] # a
    BY <2>1, TrackerAssumption DEF Inv, TypeOK, SingleOwner
  <2>6. SingleOwner'
    <3>1. ASSUME NEW s \in Sessions, active'[s] # NoAddr
          PROVE  /\ heap'[active'[s]] # Freed
                 /\ heap'[active'[s]].session = s
                 /\ active'[s] \notin finished'
      <4>1. s # se
        BY <2>1, <3>1 DEF Inv, TypeOK
      <4> QED
        BY <2>3, <2>5, <3>1, <4>1 DEF Inv, TypeOK, SingleOwner, Live
    <3>2. ASSUME NEW b \in Addrs, Live(b)', b \notin finished'
          PROVE  active'[heap'[b].session] = b
      <4>1. b # a /\ heap'[b] = heap[b]
        BY <2>3, <2>4, <3>2 DEF Live
      <4>2. active[heap[b].session] = b /\ heap[b].session \in Sessions
        BY <3>2, <4>1 DEF Inv, TypeOK, SingleOwner, Live, TxState
      <4>3. heap[b].session # se
        BY <4>1, <4>2
      <4> QED
        BY <2>5, <4>1, <4>2, <4>3
    <3> QED
      BY <3>1, <3>2 DEF SingleOwner, Live
  <2>7. OpenConsistent'
    <3> SUFFICES ASSUME NEW b \in Addrs, Live(b)', b \notin finished'
                 PROVE  /\ OpenBooks(heap'[b])
                        /\ b \notin stepped' => OpenTimes(heap'[b], now')
      BY DEF OpenConsistent, Live
    <3>1. heap'[b] = heap[b] /\ Live(b) /\ b \notin finished
      BY <2>3, <2>4 DEF Live
    <3> QED
      BY <3>1, OpenStays DEF Scalars
  <2>8. FinishedConsistent'
    BY <2>1, <2>3, SteppedGrows DEF Scalars, Inv, TypeOK, FinishedConsistent, Live
  <2> QED
    BY <2>2, <2>6, <2>7, <2>8 DEF Inv
<1> QED
  BY <1>1, <1>2

\* A step that changes an open transaction and keeps its books in order.
LEMMA UpdateStep ==
    ASSUME Inv, Scalars, NEW a \in Addrs, Live(a), a \notin finished,
           NEW v \in TxState, v.session = heap[a].session, OpenBooks(v),
           a \notin SteppedAt(now') => OpenTimes(v, now'),
           heap' = [heap EXCEPT ![a] = v], UNCHANGED <<active, finished>>
    PROVE  Inv'
<1>1. /\ \A b \in Addrs : b # a => heap'[b] = heap[b]
      /\ heap'[a] = v /\ v # Freed
  BY FreedAssumption DEF Inv, TypeOK
<1>2. TypeOK'
  BY SteppedGrows DEF Inv, TypeOK, Scalars
<1>3. SingleOwner'
  BY <1>1 DEF Inv, TypeOK, SingleOwner, Live
<1>4. OpenConsistent'
  <2> SUFFICES ASSUME NEW b \in Addrs, Live(b)', b \notin finished'
               PROVE  /\ OpenBooks(heap'[b])
                      /\ b \notin stepped' => OpenTimes(heap'[b], now')
    BY DEF OpenConsistent, Live
  <2>1. CASE b = a
    BY <1>1, <2>1 DEF Scalars
  <2>2. CASE b # a
    <3>1. heap'[b] = heap[b] /\ Live(b) /\ b \notin finished
      BY <1>1, <2>2 DEF Live
    <3> QED
      BY <3>1, OpenStays DEF Scalars
  <2> QED
    BY <2>1, <2>2
<1>5. FinishedConsistent'
  BY <1>1, SteppedGrows DEF Scalars, Inv, TypeOK, FinishedConsistent, Live
<1> QED
  BY <1>2, <1>3, <1>4, <1>5 DEF Inv

-----------------------------------------------------------------------------
(* One lemma per action that does more than these.                         *)

\* A begin replaces what the session owned by a new object.
LEMMA BeginStep ==
    ASSUME Inv, NEW ts \in 1 .. MaxTs, NEW st \in Streams,
           NEW se \in Sessions, BeginTransaction(st, se, ts)
    PROVE  Inv'
<1>1. /\ now' = ts /\ ts \in Nat /\ now' \in Nat
      /\ count' \in [Counters -> Nat]
      /\ UNCHANGED <<status, finished>>
  BY ParseProps DEF BeginTransaction, Inv, TypeOK
<1>2. PICK a \in Addrs :
        /\ HeapWithout(se)[a] = Freed
        /\ heap'     = [HeapWithout(se) EXCEPT ![a] = NewTransaction(st, se, ts)]
        /\ active'   = [active EXCEPT ![se] = a]
        /\ byStream' = [byStream EXCEPT ![st] = a]
        /\ stepped'  = SteppedAt(ts) \ {a}
  BY DEF BeginTransaction
<1> DEFINE v == NewTransaction(st, se, ts)
           old == active[se]
<1>3. /\ v \in TxState /\ v.session = se /\ v # Freed
      /\ OpenBooks(v) /\ OpenTimes(v, ts)
  BY <1>1, NewTransactionProps, FreedAssumption, TrackerAssumption
  DEF OpenBooks, OpenTimes
<1> HIDE DEF v
<1>4. /\ HeapWithout(se) \in [Addrs -> TxState \cup {Freed}]
      /\ \A b \in Addrs : HeapWithout(se)[b] = IF b = old THEN Freed ELSE heap[b]
  BY TrackerAssumption DEF HeapWithout, Inv, TypeOK
<1>5. /\ heap'[a] = v
      /\ \A b \in Addrs : b # a => heap'[b] = IF b = old THEN Freed ELSE heap[b]
  BY <1>2, <1>4 DEF v
<1>6. TypeOK'
  <2>1. stepped' \in SUBSET Addrs
    BY <1>2, SteppedGrows
  <2> QED
    BY <1>1, <1>2, <1>3, <1>4, <2>1 DEF Inv, TypeOK, v
<1>7. /\ a \notin finished
      /\ a = old \/ ~Live(a)
      /\ old \notin finished
  <2>1. old \notin finished
    BY TrackerAssumption DEF Inv, TypeOK, SingleOwner
  <2>2. a = old \/ ~Live(a)
    BY <1>2, <1>4 DEF Live
  <2>3. a \notin finished
    BY <2>1, <2>2 DEF Inv, FinishedConsistent
  <2> QED
    BY <2>1, <2>2, <2>3
<1>8. \A s \in Sessions : s # se =>
        active'[s] = active[s] /\ (active[s] # NoAddr => active[s] \notin {a, old})
  BY <1>2, <1>7 DEF Inv, TypeOK, SingleOwner, Live
<1>9. active'[se] = a
  BY <1>2 DEF Inv, TypeOK
<1>10. SingleOwner'
  <2>1. ASSUME NEW s \in Sessions, active'[s] # NoAddr
        PROVE  /\ heap'[active'[s]] # Freed
               /\ heap'[active'[s]].session = s
               /\ active'[s] \notin finished'
    <3>1. CASE s = se
      BY <1>1, <1>3, <1>5, <1>7, <1>9, <3>1 DEF Live
    <3>2. CASE s # se
      <4>1. /\ active'[s] = active[s] /\ active[s] \in Addrs
            /\ active[s] \notin {a, old}
        BY <1>8, <2>1, <3>2 DEF Inv, TypeOK
      <4>2. heap'[active[s]] = heap[active[s]]
        BY <1>5, <4>1
      <4> QED
        BY <1>1, <2>1, <4>1, <4>2 DEF Inv, SingleOwner, Live
    <3> QED
      BY <3>1, <3>2
  <2>2. ASSUME NEW b \in Addrs, Live(b)', b \notin finished'
        PROVE  active'[heap'[b].session] = b
    <3>1. CASE b = a
      BY <1>3, <1>5, <1>9, <3>1
    <3>2. CASE b # a
      <4>1. heap'[b] = heap[b] /\ b # old /\ Live(b) /\ b \notin finished
        BY <1>1, <1>5, <2>2, <3>2 DEF Live
      <4>2. active[heap[b].session] = b /\ heap[b].session \in Sessions
        BY <4>1 DEF Inv, TypeOK, SingleOwner, Live, TxState
      <4>3. heap[b].session # se
        BY <4>1, <4>2
      <4> QED
        BY <1>8, <4>1, <4>2, <4>3
    <3> QED
      BY <3>1, <3>2
  <2> QED
    BY <2>1, <2>2 DEF SingleOwner, Live
<1>11. OpenConsistent'
  <2> SUFFICES ASSUME NEW b \in Addrs, Live(b)', b \notin finished'
               PROVE  /\ OpenBooks(heap'[b])
                      /\ b \notin stepped' => OpenTimes(heap'[b], now')
    BY DEF OpenConsistent, Live
  <2>1. CASE b = a
    BY <1>1, <1>3, <1>5, <2>1
  <2>2. CASE b # a
    <3>1. heap'[b] = heap[b] /\ Live(b) /\ b \notin finished
      BY <1>1, <1>5, <2>2 DEF Live
    <3>2. b \notin stepped' => b \notin SteppedAt(now')
      BY <1>1, <1>2, <2>2
    <3> QED
      BY <1>1, <3>1, <3>2, OpenStays
  <2> QED
    BY <2>1, <2>2
<1>12. FinishedConsistent'
  <2> SUFFICES ASSUME NEW b \in finished
               PROVE  heap'[b] = heap[b] /\ (b \notin stepped' => b \notin stepped)
    BY <1>1 DEF Inv, FinishedConsistent, Live
  <2> QED
    BY <1>2, <1>5, <1>7, SteppedGrows DEF Inv, TypeOK
<1> QED
  BY <1>6, <1>10, <1>11, <1>12 DEF Inv

\* A commit response finishes the object that its session owns, and that one
\* moves to the finished transactions: the lookup by session cannot fail.
LEMMA CommitStep ==
    ASSUME Inv, NEW ts \in 1 .. MaxTs, NEW st \in Streams,
           ResponseToCommit(st, ts)
    PROVE  /\ Inv'
           /\ status' = status
           /\ finished' = finished \cup {byStream[st]}
<1> DEFINE a == byStream[st]
           se == heap[a].session
           t == heap[a]
           v == FinishTransaction(t, ts)
<1>1. /\ a \in Addrs /\ Live(a) /\ t.cur = st /\ t.committing
      /\ heap' = [heap EXCEPT ![a] = v]
  BY DEF ResponseToCommit, Inv, TypeOK
<1>2. t \in TxState /\ se \in Sessions
  BY <1>1 DEF Inv, TypeOK, Live, TxState
<1>3. a \notin finished
  BY <1>1, TrackerAssumption DEF Inv, FinishedConsistent, FinishedBooks
<1>4. active[se] = a /\ active[se] # NoAddr
  BY <1>1, <1>3, TrackerAssumption DEF Inv, SingleOwner
<1>5. /\ finished' = finished \cup {a}
      /\ active' = [active EXCEPT ![se] = NoAddr]
      /\ EraseStream(st) /\ Read(ts, {"processed"}) /\ UNCHANGED status
  BY <1>4 DEF ResponseToCommit
<1>6. /\ now' = ts /\ ts \in Nat /\ now' \in Nat
      /\ count' \in [Counters -> Nat] /\ stepped' = SteppedAt(now')
  BY <1>5, ReadProps DEF Inv, TypeOK
<1>7. OpenBooks(t) /\ (a \notin stepped' => OpenTimes(t, ts))
  BY <1>1, <1>3, <1>6, TimesStay DEF Inv, OpenConsistent
<1>8. /\ t.curTs \in Nat /\ t.startTs \in Nat /\ t.latency \in Nat
      /\ t.requests \in Nat /\ t.requests >= 1 /\ t.serverUs = 0
      /\ a \notin stepped' => t.startTs + t.latency <= t.curTs /\ t.curTs <= ts
  BY <1>1, <1>2, <1>6, <1>7, TrackerAssumption DEF OpenBooks, OpenTimes, TxState
<1>9. /\ v \in TxState /\ v # Freed /\ v.cur = NoStream
      /\ t.curTs <= ts => v.latency = t.latency + (ts - t.curTs)
      /\ v.requests = t.requests + 1
      /\ v.session = t.session /\ v.startTs = t.startTs
      /\ v.committing = t.committing /\ v.endTs = ts
      /\ v.serverUs = t.serverUs + v.latency
  <2>1. t \in TxState /\ ts \in Nat
    BY <1>2, <1>6
  <2>2. v \in TxState
    BY <2>1, FinishTransactionProps
  <2>3. v # Freed
    BY <2>2, FreedAssumption
  <2> HIDE DEF t
  <2> QED
    BY <2>1, <2>3, FinishTransactionProps
<1> HIDE DEF v
<1>10. FinishedBooks(v) /\ (a \notin stepped' => TimesFit(v))
  <2>1. v.latency \in Nat
    BY <1>9 DEF TxState
  <2>2. v.serverUs = v.latency /\ v.requests >= 2
    BY <1>8, <1>9, <2>1
  <2>3. ASSUME a \notin stepped'
        PROVE  v.latency <= ts - v.startTs
    BY <1>6, <1>8, <1>9, <2>3
  <2> QED
    BY <1>1, <1>9, <2>2, <2>3 DEF FinishedBooks, TimesFit, TotalTime
<1>11. heap'[a] = v /\ \A b \in Addrs : b # a => heap'[b] = heap[b]
  BY <1>1 DEF Inv, TypeOK
<1>12. TypeOK'
  BY <1>1, <1>2, <1>5, <1>6, <1>9, SteppedGrows DEF Inv, TypeOK, EraseStream
<1>13. active'[se] = NoAddr /\ \A s \in Sessions : s # se => active'[s] = active[s]
  BY <1>2, <1>5 DEF Inv, TypeOK
<1>14. SingleOwner'
  <2>1. ASSUME NEW s \in Sessions, active'[s] # NoAddr
        PROVE  /\ heap'[active'[s]] # Freed
               /\ heap'[active'[s]].session = s
               /\ active'[s] \notin finished'
    <3>1. s # se /\ active'[s] = active[s] /\ active[s] \in Addrs
      BY <1>13, <2>1 DEF Inv, TypeOK
    <3>2. active[s] # a
      BY <1>4, <2>1, <3>1, TrackerAssumption DEF Inv, SingleOwner
    <3> QED
      BY <1>5, <1>11, <2>1, <3>1, <3>2 DEF Inv, SingleOwner, Live
  <2>2. ASSUME NEW b \in Addrs, Live(b)', b \notin finished'
        PROVE  active'[heap'[b].session] = b
    <3>1. b # a /\ heap'[b] = heap[b] /\ Live(b) /\ b \notin finished
      BY <1>5, <1>11, <2>2 DEF Live
    <3>2. active[heap[b].session] = b /\ heap[b].session \in Sessions
      BY <3>1 DEF Inv, TypeOK, SingleOwner, Live, TxState
    <3>3. heap[b].session # se
      BY <1>4, <3>1, <3>2
    <3> QED
      BY <1>13, <3>1, <3>2, <3>3
  <2> QED
    BY <2>1, <2>2 DEF SingleOwner, Live
<1>15. OpenConsistent'
  <2> SUFFICES ASSUME NEW b \in Addrs, Live(b)', b \notin finished'
               PROVE  /\ OpenBooks(heap'[b])
                      /\ b \notin stepped' => OpenTimes(heap'[b], now')
    BY DEF OpenConsistent, Live
  <2>1. heap'[b] = heap[b] /\ Live(b) /\ b \notin finished
    BY <1>5, <1>11 DEF Live
  <2> QED
    BY <1>6, <2>1, OpenStays
<1>16. FinishedConsistent'
  <2> SUFFICES ASSUME NEW b \in finished'
               PROVE  /\ heap'[b] # Freed /\ FinishedBooks(heap'[b])
                      /\ b \notin stepped' => TimesFit(heap'[b])
    BY DEF FinishedConsistent, Live
  <2>1. CASE b = a
    BY <1>9, <1>10, <1>11, <2>1
  <2>2. CASE b # a
    <3>1. b \in finished /\ heap'[b] = heap[b]
      BY <1>5, <1>11, <2>2 DEF Inv, TypeOK
    <3>2. b \notin stepped' => b \notin stepped
      BY <1>6, SteppedGrows
    <3> QED
      BY <3>1, <3>2 DEF Inv, FinishedConsistent, Live
  <2> QED
    BY <2>1, <2>2
<1> QED
  BY <1>5, <1>12, <1>14, <1>15, <1>16 DEF Inv

\* A request of the session's own transaction starts on a new stream.
LEMMA StartNextRequestStep ==
    ASSUME Inv, NEW ts \in 1 .. MaxTs, NEW st \in Streams, NEW se \in Sessions,
           NEW tx \in TxIds \cup {NoTx}, NEW c \in BOOLEAN,
           StartNextRequest(st, se, tx, ts, c)
    PROVE  Inv'
<1> DEFINE a == active[se]
           v == NextRequest(heap[a], st, tx, ts, c)
<1>1. /\ a \in Addrs /\ Live(a) /\ a \notin finished
      /\ heap[a] \in TxState /\ heap[a].cur = NoStream
      /\ heap' = [heap EXCEPT ![a] = v]
      /\ byStream' = [byStream EXCEPT ![st] = a]
      /\ UNCHANGED <<status, active, finished>>
  BY DEF StartNextRequest, Inv, TypeOK, SingleOwner, Live
<1>2. /\ now' = ts /\ ts \in Nat /\ now' \in Nat
      /\ count' \in [Counters -> Nat] /\ stepped' = SteppedAt(now')
  BY ReadProps DEF StartNextRequest, Inv, TypeOK
<1>3. /\ v \in TxState /\ v.cur = st /\ v.curTs = ts
      /\ v.committing => c \/ heap[a].committing
      /\ v.session = heap[a].session /\ v.startTs = heap[a].startTs
      /\ v.latency = heap[a].latency /\ v.requests = heap[a].requests
      /\ v.serverUs = heap[a].serverUs
  <2>1. heap[a] \in TxState /\ ts \in Nat
    BY <1>1, <1>2
  <2>2. CASE c
    BY <2>1, <2>2 DEF NextRequest, StartCommit, StartRequest, TxState
  <2>3. CASE ~c
    BY <2>1, <2>3 DEF NextRequest, StartRequest, TxState
  <2> QED
    BY <2>2, <2>3
<1> HIDE DEF v
<1>4. OpenBooks(heap[a]) /\ (a \notin SteppedAt(now') => OpenTimes(heap[a], ts))
  BY <1>1, <1>2, TimesStay DEF Inv, OpenConsistent
<1>5. OpenBooks(v) /\ (a \notin SteppedAt(now') => OpenTimes(v, now'))
  BY <1>1, <1>2, <1>3, <1>4, TrackerAssumption DEF OpenBooks, OpenTimes
<1>6. Scalars
  BY <1>1, <1>2 DEF Scalars, Inv, TypeOK
<1> QED
  BY <1>1, <1>3, <1>5, <1>6, UpdateStep

\* A response to a data query ends the request in progress.
LEMMA ResponseToQueryStep ==
    ASSUME Inv, NEW ts \in 1 .. MaxTs, NEW st \in Streams,
           ResponseToQuery(st, ts)
    PROVE  Inv'
<1> DEFINE a == byStream[st]
           v == FinishRequest(heap[a], ts)
<1>1. /\ a \in Addrs /\ Live(a) /\ heap[a].cur = st
      /\ heap[a] \in TxState /\ ~heap[a].committing
      /\ heap' = [heap EXCEPT ![a] = v]
      /\ byStream' = [byStream EXCEPT ![st] = NoAddr]
      /\ UNCHANGED <<status, active, finished>>
  BY DEF ResponseToQuery, EraseStream, Inv, TypeOK, Live
<1>2. /\ now' = ts /\ ts \in Nat /\ now' \in Nat
      /\ count' \in [Counters -> Nat] /\ stepped' = SteppedAt(now')
  BY ReadProps DEF ResponseToQuery, Inv, TypeOK
<1>3. a \notin finished
  BY <1>1, TrackerAssumption DEF Inv, FinishedConsistent, FinishedBooks
<1>4. OpenBooks(heap[a]) /\ (a \notin SteppedAt(now') => OpenTimes(heap[a], ts))
  BY <1>1, <1>2, <1>3, TimesStay DEF Inv, OpenConsistent
<1>5. /\ heap[a].curTs \in Nat /\ heap[a].startTs \in Nat
      /\ heap[a].latency \in Nat /\ heap[a].requests \in Nat
      /\ a \notin SteppedAt(now') =>
           /\ heap[a].startTs + heap[a].latency <= heap[a].curTs
           /\ heap[a].curTs <= ts
      /\ heap[a].serverUs = 0
  BY <1>1, <1>4, TrackerAssumption DEF OpenBooks, OpenTimes, TxState
<1>6. /\ v \in TxState /\ v.cur = NoStream
      /\ heap[a].curTs <= ts => v.latency = heap[a].latency + (ts - heap[a].curTs)
      /\ v.requests = heap[a].requests + 1
      /\ v.session = heap[a].session /\ v.startTs = heap[a].startTs
      /\ v.committing = heap[a].committing /\ v.serverUs = heap[a].serverUs
  BY <1>1, <1>2, FinishRequestProps
<1> HIDE DEF v
<1>7. a \notin SteppedAt(now') => v.startTs + v.latency <= ts
  BY <1>2, <1>5, <1>6
<1>8. /\ OpenBooks(v)
      /\ a \notin SteppedAt(now') => OpenTimes(v, now')
  BY <1>1, <1>2, <1>5, <1>6, <1>7 DEF OpenBooks, OpenTimes
<1>9. Scalars
  BY <1>1, <1>2 DEF Scalars, Inv, TypeOK
<1> QED
  BY <1>1, <1>3, <1>6, <1>8, <1>9, UpdateStep

-----------------------------------------------------------------------------
(* The theorems.                                                           *)

\* Requests other than the next one of the session's transaction.
LEMMA HandleRequestStep ==
    ASSUME Inv, NEW ts \in 1 .. MaxTs, NEW st \in Streams, NEW se \in Sessions,
           NEW tx \in TxIds \cup {NoTx}, NEW c \in BOOLEAN,
           HandleRequest(st, se, tx, ts, c)
    PROVE  Inv'
<1>1. CASE RequestOfUnknownSession(se, ts)
  <2>1. UNCHANGED <<heap, active, finished>> /\ Scalars
    BY <1>1, ReadProps
    DEF RequestOfUnknownSession, SkipQuery, Scalars, Inv, TypeOK
  <2> QED
    BY <2>1, QuietStep
<1>2. CASE RequestWhileWaiting(se, ts)
  <2>1. Scalars
    BY <1>2, ReadProps DEF RequestWhileWaiting, EraseStream, Scalars, Inv, TypeOK
  <2>2. EraseSession(se) /\ UNCHANGED finished
    BY <1>2 DEF RequestWhileWaiting
  <2> QED
    BY <2>1, <2>2, EraseStep
<1>3. CASE RequestOfOtherTransaction(se, tx, ts)
  <2>1. byStream' \in [Streams -> Addrs \cup {NoAddr}]
    BY <1>3 DEF RequestOfOtherTransaction, EraseStream, Inv, TypeOK
  <2>2. Scalars
    BY <1>3, <2>1, ReadProps DEF RequestOfOtherTransaction, Scalars, Inv, TypeOK
  <2>3. EraseSession(se) /\ UNCHANGED finished
    BY <1>3 DEF RequestOfOtherTransaction
  <2> QED
    BY <2>2, <2>3, EraseStep
<1>4. CASE StartNextRequest(st, se, tx, ts, c)
  BY <1>4, StartNextRequestStep
<1> QED
  BY <1>1, <1>2, <1>3, <1>4 DEF HandleRequest

\* Responses, those included that end the program.
LEMMA HandleResponseStep ==
    ASSUME Inv, NEW ts \in 1 .. MaxTs, NEW st \in Streams,
           HandleResponse(st, ts)
    PROVE  Inv'
<1>1. CASE ResponseOfUnknownStream(st, ts)
  <2>1. UNCHANGED <<heap, active, finished>> /\ Scalars
    BY <1>1, ReadProps DEF ResponseOfUnknownStream, Scalars, Inv, TypeOK
  <2> QED
    BY <2>1, QuietStep
<1>2. CASE ResponseThroughDanglingPointer(st, ts)
  <2>1. UNCHANGED <<heap, active, finished>> /\ Scalars
    BY <1>2, ReadProps DEF ResponseThroughDanglingPointer, Scalars, Inv, TypeOK
  <2> QED
    BY <2>1, QuietStep
<1>3. CASE ResponseOfOtherRequest(st, ts)
  <2>1. UNCHANGED <<heap, active, finished>> /\ Scalars
    BY <1>3, ReadProps DEF ResponseOfOtherRequest, Scalars, Inv, TypeOK
  <2> QED
    BY <2>1, QuietStep
<1>4. CASE ResponseToQuery(st, ts)
  BY <1>4, ResponseToQueryStep
<1>5. CASE ResponseToCommit(st, ts)
  BY <1>5, CommitStep
<1> QED
  BY <1>1, <1>2, <1>3, <1>4, <1>5 DEF HandleResponse

\* Init establishes the invariant.
LEMMA InitInv == Init => Inv
<1> SUFFICES ASSUME Init PROVE Inv
  OBVIOUS
<1>1. TypeOK
  BY DEF Init, TypeOK
<1>2. \A a \in Addrs : ~Live(a)
  BY DEF Init, Live
<1> QED
  BY <1>1, <1>2 DEF Init, Inv, SingleOwner, OpenConsistent, FinishedConsistent

\* Every step of the handler preserves the invariant.
LEMMA NextInv == Inv /\ [Next]_vars => Inv'
<1> SUFFICES ASSUME Inv, [Next]_vars PROVE Inv'
  OBVIOUS
<1>1. CASE UNCHANGED vars
  BY <1>1 DEF vars, Inv, TypeOK, SingleOwner, OpenConsistent, FinishedConsistent,
              Live
<1>2. ASSUME NEW ts \in 1 .. MaxTs, SkipQuery(ts)
      PROVE  Inv'
  <2>1. UNCHANGED <<heap, active, finished>> /\ Scalars
    BY <1>2, ReadProps DEF SkipQuery, Scalars, Inv, TypeOK
  <2> QED
    BY <2>1, QuietStep
<1>3. ASSUME NEW ts \in 1 .. MaxTs, NEW st \in Streams, NEW se \in Sessions,
             BeginOnBusyStream(st, se, ts)
      PROVE  Inv'
  <2>1. Scalars
    BY <1>3, ReadProps DEF BeginOnBusyStream, EraseStream, Scalars, Inv, TypeOK
  <2>2. EraseSession(se) /\ UNCHANGED finished
    BY <1>3 DEF BeginOnBusyStream
  <2> QED
    BY <2>1, <2>2, EraseStep
<1>4. CASE PrintResults
  <2>1. UNCHANGED <<heap, active, finished>> /\ Scalars
    BY <1>4 DEF PrintResults, Scalars, SteppedAt, Inv, TypeOK
  <2> QED
    BY <2>1, QuietStep
<1>5. CASE Next
  <2>1. CASE PrintResults
    BY <1>4, <2>1
  <2>2. CASE \E ts \in 1 .. MaxTs : SkipQuery(ts)
    BY <1>2, <2>2
  <2>3. ASSUME NEW ts \in 1 .. MaxTs, NEW st \in Streams,
               HandleResponse(st, ts)
        PROVE  Inv'
    BY <2>3, HandleResponseStep
  <2>4. ASSUME NEW ts \in 1 .. MaxTs, NEW st \in Streams, NEW se \in Sessions,
               BeginTransaction(st, se, ts)
        PROVE  Inv'
    BY <2>4, BeginStep
  <2>5. ASSUME NEW ts \in 1 .. MaxTs, NEW st \in Streams, NEW se \in Sessions,
               NEW tx \in TxIds \cup {NoTx}, NEW c \in BOOLEAN,
               HandleRequest(st, se, tx, ts, c)
        PROVE  Inv'
    BY <2>5, HandleRequestStep
  <2> QED
    BY <1>3, <1>5, <2>1, <2>2, <2>3, <2>4, <2>5 DEF Next
<1> QED
  BY <1>1, <1>5

\* The inductive invariant holds in every reachable state.
THEOREM Invariance == Spec => []Inv
  BY InitInv, NextInv, PTL DEF Spec

\* Type correctness of the handler's state.
THEOREM TypeCorrect == Spec => []TypeOK
<1>1. Inv => TypeOK
  BY DEF Inv
<1> QED
  BY <1>1, Invariance, PTL

\* Each TrasnactionState has one owner; handle_commit_response finishes and moves
\* the same object.
THEOREM OwnershipCorrect == Spec => []SingleOwner
<1>1. Inv => SingleOwner
  BY DEF Inv
<1> QED
  BY <1>1, Invariance, PTL

\* Every printed transaction is complete, in captures that step back too; its client
\* time did not wrap unless the clock went back while it was open.
THEOREM ReportCorrect == Spec => []FinishedConsistent
<1>1. Inv => FinishedConsistent
  BY DEF Inv
<1> QED
  BY <1>1, Invariance, PTL

\* The latencies of an open transaction never overlap, whatever was lost, unless the
\* clock went back while it was open.
THEOREM BooksCorrect == Spec => []OpenConsistent
<1>1. Inv => OpenConsistent
  BY DEF Inv
<1> QED
  BY <1>1, Invariance, PTL

-----------------------------------------------------------------------------
(* The action property.                                                    *)

\* Erasing a session destroys no finished transaction: it owns none.
LEMMA EraseKeeps ==
    ASSUME Inv, NEW se \in Sessions, NEW a \in finished
    PROVE  /\ HeapWithout(se)[a] = heap[a]
           /\ HeapWithout(se) \in [Addrs -> TxState \cup {Freed}]
           /\ heap[a] # Freed /\ heap[a].cur = NoStream /\ a \in Addrs
<1>1. active[se] # NoAddr => active[se] \notin finished
  BY DEF Inv, SingleOwner
<1>2. heap[a] # Freed /\ heap[a].cur = NoStream /\ a \in Addrs
  BY DEF Inv, TypeOK, FinishedConsistent, FinishedBooks, Live
<1> QED
  BY <1>1, <1>2 DEF Inv, TypeOK, HeapWithout

\* Reading a response never changes a finished transaction: it waits for none.
LEMMA ResponseKeeps ==
    ASSUME Inv, NEW ts \in 1 .. MaxTs, NEW st \in Streams,
           HandleResponse(st, ts), NEW a \in finished
    PROVE  a \in finished' /\ heap'[a] = heap[a]
<1>1. a \in Addrs /\ heap[a].cur = NoStream
  BY DEF Inv, TypeOK, FinishedConsistent, FinishedBooks
<1>2. CASE ResponseToQuery(st, ts)
  <2>1. byStream[st] # a
    BY <1>1, <1>2, TrackerAssumption DEF ResponseToQuery
  <2> QED
    BY <1>1, <1>2, <2>1 DEF ResponseToQuery, Inv, TypeOK
<1>3. CASE ResponseToCommit(st, ts)
  <2>1. byStream[st] # a
    BY <1>1, <1>3, TrackerAssumption DEF ResponseToCommit
  <2>2. heap'[a] = heap[a]
    BY <1>1, <1>3, <2>1 DEF ResponseToCommit, Inv, TypeOK
  <2> QED
    BY <1>3, <2>2, CommitStep
<1>4. CASE UNCHANGED <<heap, finished>>
  BY <1>4
<1> QED
  BY <1>2, <1>3, <1>4
  DEF HandleResponse, ResponseOfUnknownStream, ResponseThroughDanglingPointer,
      ResponseOfOtherRequest

\* Reading a request never changes a finished transaction: no session owns it.
LEMMA RequestKeeps ==
    ASSUME Inv, NEW ts \in 1 .. MaxTs, NEW st \in Streams, NEW se \in Sessions,
           NEW tx \in TxIds \cup {NoTx}, NEW c \in BOOLEAN, NEW a \in finished,
           \/ HandleRequest(st, se, tx, ts, c)
           \/ BeginTransaction(st, se, ts)
           \/ BeginOnBusyStream(st, se, ts)
    PROVE  a \in finished' /\ heap'[a] = heap[a]
<1>1. /\ HeapWithout(se)[a] = heap[a]
      /\ HeapWithout(se) \in [Addrs -> TxState \cup {Freed}]
      /\ heap[a] # Freed /\ a \in Addrs
  BY EraseKeeps
<1>2. ASSUME EraseSession(se), UNCHANGED finished
      PROVE  a \in finished' /\ heap'[a] = heap[a]
  BY <1>1, <1>2 DEF EraseSession
<1>3. CASE BeginOnBusyStream(st, se, ts)
  BY <1>2, <1>3 DEF BeginOnBusyStream
<1>4. CASE RequestWhileWaiting(se, ts)
  BY <1>2, <1>4 DEF RequestWhileWaiting
<1>5. CASE RequestOfOtherTransaction(se, tx, ts)
  BY <1>2, <1>5 DEF RequestOfOtherTransaction
<1>6. CASE RequestOfUnknownSession(se, ts)
  BY <1>6 DEF RequestOfUnknownSession, SkipQuery
<1>7. CASE BeginTransaction(st, se, ts)
  <2>1. PICK b \in Addrs :
          /\ HeapWithout(se)[b] = Freed
          /\ heap' = [HeapWithout(se) EXCEPT ![b] = NewTransaction(st, se, ts)]
    BY <1>7 DEF BeginTransaction
  <2>2. b # a
    BY <1>1, <2>1
  <2>3. heap'[a] = HeapWithout(se)[a]
    BY <1>1, <2>1, <2>2
  <2> QED
    BY <1>1, <1>7, <2>3 DEF BeginTransaction
<1>8. CASE StartNextRequest(st, se, tx, ts, c)
  <2>1. active[se] # a
    BY <1>8 DEF StartNextRequest, Inv, SingleOwner
  <2> QED
    BY <1>1, <1>8, <2>1 DEF StartNextRequest, Inv, TypeOK
<1> QED
  BY <1>3, <1>4, <1>5, <1>6, <1>7, <1>8 DEF HandleRequest

\* No step changes or drops a finished transaction, even when stale pointers to
\* its address are left in TransactionsByStream.
THEOREM FinishedStable == Spec => FinishedImmutable
<1>1. ASSUME Inv, Next, NEW a \in finished
      PROVE  a \in finished' /\ heap'[a] = heap[a]
  <2>1. CASE PrintResults
    BY <2>1 DEF PrintResults
  <2>2. ASSUME NEW ts \in 1 .. MaxTs, SkipQuery(ts)
        PROVE  a \in finished' /\ heap'[a] = heap[a]
    BY <2>2 DEF SkipQuery
  <2>3. ASSUME NEW ts \in 1 .. MaxTs, NEW st \in Streams,
               HandleResponse(st, ts)
        PROVE  a \in finished' /\ heap'[a] = heap[a]
    BY <1>1, <2>3, ResponseKeeps
  <2>4. ASSUME NEW ts \in 1 .. MaxTs, NEW st \in Streams, NEW se \in Sessions,
               NEW tx \in TxIds \cup {NoTx}, NEW c \in BOOLEAN,
               HandleRequest(st, se, tx, ts, c)
        PROVE  a \in finished' /\ heap'[a] = heap[a]
    BY <1>1, <2>4, RequestKeeps
  <2>5. ASSUME NEW ts \in 1 .. MaxTs, NEW st \in Streams, NEW se \in Sessions,
               \/ BeginTransaction(st, se, ts)
               \/ BeginOnBusyStream(st, se, ts)
        PROVE  a \in finished' /\ heap'[a] = heap[a]
    <3>1. NoTx \in TxIds \cup {NoTx} /\ FALSE \in BOOLEAN
      OBVIOUS
    <3> QED
      BY <1>1, <2>5, <3>1, RequestKeeps
  <2> QED
    BY <1>1, <2>1, <2>2, <2>3, <2>4, <2>5 DEF Next
<1>2. ASSUME Inv, [Next]_vars
      PROVE  [\A a \in finished : a \in finished' /\ heap'[a] = heap[a]]_vars
  BY <1>1, <1>2
<1> QED
  BY <1>2, Invariance, PTL DEF Spec, FinishedImmutable

-----------------------------------------------------------------------------
(* The counters.                                                               *)

\* What AccountedFor rests on.
Tally ==
  /\ IsFiniteSet(Messages) /\ IsFiniteSet(finished)
  /\ count["processed"] >= Cardinality(Messages) + count["aborted"]

\* A transaction has seen a number of messages.
LEMMA SeenType ==
    ASSUME NEW t \in TxState
    PROVE  Seen(t) \in Nat /\ (t.cur # NoStream \/ t.requests >= 1 => Seen(t) >= 1)
  BY DEF Seen, TxState

LEMMA InMessages ==
    ASSUME NEW a \in Addrs, Live(a), NEW i \in 1 .. Seen(heap[a])
    PROVE  <<a, i>> \in Messages
  BY DEF Messages

\* Reading a message counts it.
LEMMA ReadCounts ==
    ASSUME TypeOK, NEW ts, NEW C, Parse(ts, C)
    PROVE  /\ count["processed"] \in Nat /\ count["aborted"] \in Nat
           /\ count'["processed"] = count["processed"] + (IF "processed" \in C THEN 1 ELSE 0)
           /\ count'["aborted"] = count["aborted"] + (IF "aborted" \in C THEN 1 ELSE 0)
<1>1. /\ "processed" \in Counters /\ "aborted" \in Counters
      /\ "processed" # "parsed" /\ "aborted" # "parsed"
  BY DEF Counters
<1>2. count["processed"] \in Nat /\ count["aborted"] \in Nat
  BY <1>1 DEF TypeOK
<1>3. \A c \in Counters : count'[c] = IF c \in C \cup {"parsed"} THEN count[c] + 1 ELSE count[c]
  BY DEF Parse
<1> QED
  BY <1>1, <1>2, <1>3

LEMMA AtMostOneMore ==
    ASSUME NEW S, NEW x, NEW T, IsFiniteSet(S), T = S \cup {x}
    PROVE  IsFiniteSet(T) /\ Cardinality(T) <= Cardinality(S) + 1
<1>1. Cardinality(S) \in Nat
  BY FS_CardinalityType
<1>2. /\ IsFiniteSet(S \cup {x})
      /\ Cardinality(S \cup {x}) = IF x \in S THEN Cardinality(S) ELSE Cardinality(S) + 1
  BY FS_AddElement
<1> QED
  BY <1>1, <1>2

\* The tally when messages are dropped, when one is added, and when those of an
\* aborted transaction make room for a new one.
LEMMA Fewer ==
    ASSUME Tally, NEW S, S \subseteq Messages, S = Messages', IsFiniteSet(finished'),
           count["processed"] \in Nat, count["aborted"] \in Nat,
           count'["processed"] \in Nat, count'["processed"] >= count["processed"],
           count'["aborted"] = count["aborted"]
    PROVE  Tally'
<1>1. IsFiniteSet(S) /\ Cardinality(S) <= Cardinality(Messages)
  BY FS_Subset DEF Tally
<1>2. Cardinality(S) \in Nat /\ Cardinality(Messages) \in Nat
  BY <1>1, FS_CardinalityType DEF Tally
<1> QED
  BY <1>1, <1>2 DEF Tally

LEMMA OneMore ==
    ASSUME Tally, NEW S, NEW x, S \subseteq Messages \cup {x}, S = Messages',
           IsFiniteSet(finished'),
           count["processed"] \in Nat, count["aborted"] \in Nat,
           count'["processed"] = count["processed"] + 1,
           count'["aborted"] = count["aborted"]
    PROVE  Tally'
<1>1. PICK T : T = Messages \cup {x}
  OBVIOUS
<1>2. IsFiniteSet(T) /\ Cardinality(T) <= Cardinality(Messages) + 1
  BY <1>1, AtMostOneMore DEF Tally
<1>3. IsFiniteSet(S) /\ Cardinality(S) <= Cardinality(T)
  BY <1>1, <1>2, FS_Subset
<1>4. Cardinality(S) \in Nat /\ Cardinality(T) \in Nat /\ Cardinality(Messages) \in Nat
  BY <1>2, <1>3, FS_CardinalityType DEF Tally
<1> QED
  BY <1>2, <1>3, <1>4 DEF Tally

LEMMA Replaced ==
    ASSUME Tally, NEW S, NEW d \in Messages, NEW x,
           S \subseteq (Messages \ {d}) \cup {x}, S = Messages',
           IsFiniteSet(finished'),
           count["processed"] \in Nat, count["aborted"] \in Nat,
           count'["processed"] = count["processed"] + 1,
           count'["aborted"] = count["aborted"] + 1
    PROVE  Tally'
<1>1. PICK R : R = Messages \ {d}
  OBVIOUS
<1>2. PICK T : T = R \cup {x}
  OBVIOUS
<1>3. IsFiniteSet(R) /\ Cardinality(R) = Cardinality(Messages) - 1
  BY <1>1, FS_RemoveElement DEF Tally
<1>4. Cardinality(R) \in Nat /\ Cardinality(Messages) \in Nat
  BY <1>3, FS_CardinalityType DEF Tally
<1>5. IsFiniteSet(T) /\ Cardinality(T) <= Cardinality(R) + 1
  BY <1>2, <1>3, AtMostOneMore
<1>6. IsFiniteSet(S) /\ Cardinality(S) <= Cardinality(T)
  BY <1>1, <1>2, <1>5, FS_Subset
<1>7. Cardinality(S) \in Nat /\ Cardinality(T) \in Nat
  BY <1>5, <1>6, FS_CardinalityType
<1> QED
  BY <1>3, <1>4, <1>5, <1>6, <1>7 DEF Tally

\* Objects that are destroyed or stay as they are.
LEMMA NoneGrows ==
    ASSUME \A a \in Addrs : heap'[a] \in {heap[a], Freed}
    PROVE  Messages' \subseteq Messages
<1> SUFFICES ASSUME NEW a \in Addrs, Live(a)', NEW i \in 1 .. Seen(heap'[a])
             PROVE  <<a, i>> \in Messages
  BY DEF Messages, Live
<1>1. heap'[a] = heap[a] /\ Live(a)
  BY DEF Live
<1> QED
  BY <1>1, InMessages

\* One object sees one more message.
LEMMA OneGrows ==
    ASSUME NEW a \in Addrs, Live(a), \A b \in Addrs : b # a => heap'[b] = heap[b],
           Seen(heap[a]) \in Nat, Seen(heap'[a]) = Seen(heap[a]) + 1
    PROVE  Messages' \subseteq Messages \cup {<<a, Seen(heap'[a])>>}
<1> SUFFICES ASSUME NEW b \in Addrs, Live(b)', NEW i \in 1 .. Seen(heap'[b])
             PROVE  <<b, i>> \in Messages \cup {<<a, Seen(heap'[a])>>}
  BY DEF Messages, Live
<1>1. CASE b # a
  <2>1. heap'[b] = heap[b] /\ Live(b)
    BY <1>1 DEF Live
  <2> QED
    BY <2>1, InMessages
<1>2. CASE b = a /\ i = Seen(heap'[a])
  BY <1>2
<1>3. CASE b = a /\ i # Seen(heap'[a])
  <2>1. i \in 1 .. Seen(heap[a])
    BY <1>3
  <2> QED
    BY <1>3, <2>1, InMessages
<1> QED
  BY <1>1, <1>2, <1>3

\* A begin: what the session owned is destroyed, its first message makes room.
LEMMA BeginTally ==
    ASSUME Inv, Tally, NEW ts \in 1 .. MaxTs, NEW st \in Streams,
           NEW se \in Sessions, BeginTransaction(st, se, ts)
    PROVE  Tally'
<1>1. PICK old : old = active[se]
  OBVIOUS
<1>2. PICK a \in Addrs :
        /\ HeapWithout(se)[a] = Freed
        /\ heap' = [HeapWithout(se) EXCEPT ![a] = NewTransaction(st, se, ts)]
  BY DEF BeginTransaction
<1>3. PICK v : v = NewTransaction(st, se, ts)
  OBVIOUS
<1>4. Seen(v) = 1
  <2>1. v.cur = st /\ v.requests = 0
    BY <1>3 DEF NewTransaction
  <2> QED
    BY <2>1, TrackerAssumption DEF Seen
<1>5. /\ HeapWithout(se) \in [Addrs -> TxState \cup {Freed}]
      /\ \A b \in Addrs : HeapWithout(se)[b] = IF b = old THEN Freed ELSE heap[b]
  BY <1>1, TrackerAssumption DEF HeapWithout, Inv, TypeOK
<1>6. /\ heap'[a] = v
      /\ \A b \in Addrs : b # a => heap'[b] = IF b = old THEN Freed ELSE heap[b]
  BY <1>2, <1>3, <1>5
<1>7. PICK S : S = Messages'
  OBVIOUS
<1>8. S \subseteq (Messages \ {<<old, 1>>}) \cup {<<a, 1>>}
  <2> SUFFICES ASSUME NEW b \in Addrs, Live(b)', NEW i \in 1 .. Seen(heap'[b])
               PROVE  <<b, i>> \in (Messages \ {<<old, 1>>}) \cup {<<a, 1>>}
    BY <1>7 DEF Messages, Live
  <2>1. CASE b = a
    BY <1>4, <1>6, <2>1
  <2>2. CASE b # a
    <3>1. heap'[b] = heap[b] /\ b # old /\ Live(b)
      BY <1>6, <2>2 DEF Live
    <3> QED
      BY <3>1, InMessages
  <2> QED
    BY <2>1, <2>2
<1>9. PICK C : C = {"processed"} \cup IF old = NoAddr THEN {} ELSE {"aborted"}
  OBVIOUS
<1>10. Parse(ts, C) /\ finished' = finished
  BY <1>1, <1>9 DEF BeginTransaction
<1>11. /\ count["processed"] \in Nat /\ count["aborted"] \in Nat
       /\ count'["processed"] = count["processed"] + 1
       /\ count'["aborted"] = count["aborted"] + (IF old = NoAddr THEN 0 ELSE 1)
  <2>1. "processed" \in C /\ ("aborted" \in C <=> old # NoAddr)
    BY <1>9
  <2> QED
    BY <1>10, <2>1, ReadCounts DEF Inv
<1>12. IsFiniteSet(finished')
  BY <1>10 DEF Tally
<1>13. PICK x : x = <<a, 1>>
  OBVIOUS
<1>14. CASE old = NoAddr
  <2>1. S \subseteq Messages \cup {x}
    BY <1>8, <1>13
  <2> QED
    BY <1>7, <1>11, <1>12, <1>14, <2>1, OneMore
<1>15. CASE old # NoAddr
  <2>1. old \in Addrs /\ Live(old) /\ old \notin finished
    BY <1>1, <1>15 DEF Inv, TypeOK, SingleOwner
  <2>2. heap[old] \in TxState /\ OpenBooks(heap[old])
    BY <2>1 DEF Inv, TypeOK, OpenConsistent, Live
  <2>3. Seen(heap[old]) \in Nat /\ Seen(heap[old]) >= 1
    BY <2>2, SeenType DEF OpenBooks
  <2>4. PICK d : d = <<old, 1>>
    OBVIOUS
  <2>5. d \in Messages
    BY <2>1, <2>3, <2>4, InMessages
  <2>6. S \subseteq (Messages \ {d}) \cup {x}
    BY <1>8, <1>13, <2>4
  <2> QED
    BY <1>7, <1>11, <1>12, <1>15, <2>5, <2>6, Replaced
<1> QED
  BY <1>14, <1>15

\* A step that destroys what a session owns, or nothing, and counts no abortion.
LEMMA EraseTally ==
    ASSUME Inv, Tally, NEW ts, NEW C, Read(ts, C), "aborted" \notin C,
           UNCHANGED heap \/ (\E se \in Sessions : EraseSession(se)),
           UNCHANGED finished
    PROVE  Tally'
<1>1. \A a \in Addrs : heap'[a] \in {heap[a], Freed}
  BY DEF EraseSession, HeapWithout, Inv, TypeOK
<1>2. PICK S : S = Messages'
  OBVIOUS
<1>3. S \subseteq Messages
  BY <1>1, <1>2, NoneGrows
<1>4. /\ count["processed"] \in Nat /\ count["aborted"] \in Nat
      /\ count'["processed"] \in Nat /\ count'["processed"] >= count["processed"]
      /\ count'["aborted"] = count["aborted"]
  <2>1. /\ count["processed"] \in Nat /\ count["aborted"] \in Nat
        /\ count'["processed"] = count["processed"] + (IF "processed" \in C THEN 1 ELSE 0)
        /\ count'["aborted"] = count["aborted"] + (IF "aborted" \in C THEN 1 ELSE 0)
    BY ReadCounts DEF Inv, Read
  <2> QED
    BY <2>1
<1> QED
  BY <1>2, <1>3, <1>4, Fewer DEF Tally

\* A step in which an object sees a message that is counted as processed.
LEMMA SeenTally ==
    ASSUME Inv, Tally, NEW ts, Read(ts, {"processed"}), NEW a \in Addrs, Live(a),
           NEW v, heap' = [heap EXCEPT ![a] = v], Seen(v) = Seen(heap[a]) + 1,
           IsFiniteSet(finished')
    PROVE  Tally'
<1>1. heap'[a] = v /\ \A b \in Addrs : b # a => heap'[b] = heap[b]
  BY DEF Inv, TypeOK
<1>2. Seen(heap[a]) \in Nat
  BY SeenType DEF Inv, TypeOK, Live
<1>3. PICK S, x : S = Messages' /\ x = <<a, Seen(v)>>
  OBVIOUS
<1>4. S \subseteq Messages \cup {x}
  BY <1>1, <1>2, <1>3, OneGrows
<1>5. /\ count["processed"] \in Nat /\ count["aborted"] \in Nat
      /\ count'["processed"] = count["processed"] + 1
      /\ count'["aborted"] = count["aborted"]
  BY ReadCounts DEF Inv, Read
<1> QED
  BY <1>3, <1>4, <1>5, OneMore

\* A request of the session's own transaction is the next message it sees.
LEMMA StartNextTally ==
    ASSUME Inv, Tally, NEW ts \in 1 .. MaxTs, NEW st \in Streams,
           NEW se \in Sessions, NEW tx \in TxIds \cup {NoTx}, NEW c \in BOOLEAN,
           StartNextRequest(st, se, tx, ts, c)
    PROVE  Tally'
<1>1. PICK a : a = active[se]
  OBVIOUS
<1>2. PICK v : v = NextRequest(heap[a], st, tx, ts, c)
  OBVIOUS
<1>3. /\ a \in Addrs /\ Live(a)
      /\ heap[a] \in TxState /\ heap[a].cur = NoStream
      /\ heap' = [heap EXCEPT ![a] = v]
      /\ Read(ts, {"processed"}) /\ finished' = finished
  BY <1>1, <1>2 DEF StartNextRequest, Inv, TypeOK, SingleOwner, Live
<1>4. v.cur = st /\ v.requests = heap[a].requests
  <2>1. CASE c
    BY <1>2, <1>3, <2>1 DEF NextRequest, StartCommit, StartRequest, TxState
  <2>2. CASE ~c
    BY <1>2, <1>3, <2>2 DEF NextRequest, StartRequest, TxState
  <2> QED
    BY <2>1, <2>2
<1>5. Seen(v) = Seen(heap[a]) + 1
  BY <1>3, <1>4, TrackerAssumption DEF Seen, TxState
<1> QED
  BY <1>3, <1>5, SeenTally DEF Tally

\* So is the response to the query it waits for.
LEMMA ResponseTally ==
    ASSUME Inv, Tally, NEW ts \in 1 .. MaxTs, NEW st \in Streams,
           ResponseToQuery(st, ts)
    PROVE  Tally'
<1>1. PICK a : a = byStream[st]
  OBVIOUS
<1>2. PICK v : v = FinishRequest(heap[a], ts)
  OBVIOUS
<1>3. /\ a \in Addrs /\ Live(a)
      /\ heap[a] \in TxState /\ heap[a].cur = st
      /\ heap' = [heap EXCEPT ![a] = v]
      /\ Read(ts, {"processed"}) /\ finished' = finished
  BY <1>1, <1>2 DEF ResponseToQuery, Inv, TypeOK, Live
<1>4. v.cur = NoStream /\ v.requests = heap[a].requests + 1
  BY <1>2, <1>3 DEF FinishRequest, TxState
<1>5. Seen(v) = Seen(heap[a]) + 1
  BY <1>3, <1>4, TrackerAssumption DEF Seen, TxState
<1> QED
  BY <1>3, <1>5, SeenTally DEF Tally

\* And the response to its commit, with which it is finished.
LEMMA CommitTally ==
    ASSUME Inv, Tally, NEW ts \in 1 .. MaxTs, NEW st \in Streams,
           ResponseToCommit(st, ts)
    PROVE  Tally'
<1>1. PICK a : a = byStream[st]
  OBVIOUS
<1>2. PICK v : v = FinishTransaction(heap[a], ts)
  OBVIOUS
<1>3. /\ a \in Addrs /\ Live(a)
      /\ heap[a] \in TxState /\ heap[a].cur = st
      /\ heap' = [heap EXCEPT ![a] = v]
  BY <1>1, <1>2 DEF ResponseToCommit, Inv, TypeOK, Live
<1>4. v.cur = NoStream /\ v.requests = heap[a].requests + 1
  BY <1>2, <1>3 DEF FinishTransaction, FinishRequest, TxState
<1>5. Seen(v) = Seen(heap[a]) + 1
  BY <1>3, <1>4, TrackerAssumption DEF Seen, TxState
<1>6. status = "running" /\ status' = status /\ finished' = finished \cup {a}
  BY <1>1, CommitStep DEF ResponseToCommit, Read, Parse
<1>7. Read(ts, {"processed"})
  BY <1>6 DEF ResponseToCommit
<1>8. IsFiniteSet(finished')
  BY <1>6, AtMostOneMore DEF Tally
<1> QED
  BY <1>3, <1>5, <1>7, <1>8, SeenTally

\* Every step of the handler keeps the tally.
LEMMA TallyNext == Inv /\ Tally /\ [Next]_vars => Tally'
<1> SUFFICES ASSUME Inv, Tally, [Next]_vars PROVE Tally'
  OBVIOUS
<1>1. ASSUME UNCHANGED <<heap, finished, count>>
      PROVE  Tally'
  BY <1>1 DEF Tally, Messages, Live
<1>2. ASSUME NEW ts \in 1 .. MaxTs, SkipQuery(ts)
      PROVE  Tally'
  <2>1. Read(ts, {"skipped"}) /\ UNCHANGED <<heap, finished>>
    BY <1>2 DEF SkipQuery
  <2> QED
    BY <2>1, EraseTally
<1>3. ASSUME NEW ts \in 1 .. MaxTs, NEW st \in Streams, HandleResponse(st, ts)
      PROVE  Tally'
  <2>1. CASE ResponseToQuery(st, ts)
    BY <2>1, ResponseTally
  <2>2. CASE ResponseToCommit(st, ts)
    BY <2>2, CommitTally
  <2>3. CASE Read(ts, {}) /\ UNCHANGED <<heap, finished>>
    BY <2>3, EraseTally
  <2> QED
    BY <1>3, <2>1, <2>2, <2>3
    DEF HandleResponse, ResponseOfUnknownStream, ResponseThroughDanglingPointer,
        ResponseOfOtherRequest
<1>4. ASSUME NEW ts \in 1 .. MaxTs, NEW st \in Streams, NEW se \in Sessions,
             NEW tx \in TxIds \cup {NoTx}, NEW c \in BOOLEAN,
             HandleRequest(st, se, tx, ts, c)
      PROVE  Tally'
  <2>1. CASE RequestOfUnknownSession(se, ts)
    BY <1>2, <2>1 DEF RequestOfUnknownSession
  <2>2. CASE RequestWhileWaiting(se, ts)
    <3>1. Read(ts, {"mismatch"}) /\ EraseSession(se) /\ UNCHANGED finished
      BY <2>2 DEF RequestWhileWaiting
    <3> QED
      BY <3>1, EraseTally
  <2>3. CASE RequestOfOtherTransaction(se, tx, ts)
    <3>1. Read(ts, {"idMismatch"}) /\ EraseSession(se) /\ UNCHANGED finished
      BY <2>3 DEF RequestOfOtherTransaction
    <3> QED
      BY <3>1, EraseTally
  <2>4. CASE StartNextRequest(st, se, tx, ts, c)
    BY <2>4, StartNextTally
  <2> QED
    BY <1>4, <2>1, <2>2, <2>3, <2>4 DEF HandleRequest
<1>5. ASSUME NEW ts \in 1 .. MaxTs, NEW st \in Streams, NEW se \in Sessions,
             BeginOnBusyStream(st, se, ts)
      PROVE  Tally'
  <2>1. Read(ts, {"mismatch"}) /\ EraseSession(se) /\ UNCHANGED finished
    BY <1>5 DEF BeginOnBusyStream
  <2> QED
    BY <2>1, EraseTally
<1>6. ASSUME NEW ts \in 1 .. MaxTs, NEW st \in Streams, NEW se \in Sessions,
             BeginTransaction(st, se, ts)
      PROVE  Tally'
  BY <1>6, BeginTally
<1>7. CASE PrintResults
  BY <1>1, <1>7 DEF PrintResults
<1>8. CASE UNCHANGED vars
  BY <1>1, <1>8 DEF vars
<1> QED
  BY <1>2, <1>3, <1>4, <1>5, <1>6, <1>7, <1>8 DEF Next

\* Nothing was seen, finished or counted at first.
LEMMA TallyInit == Init => Tally
<1> SUFFICES ASSUME Init PROVE Tally
  OBVIOUS
<1>1. Messages = {} /\ finished = {}
  BY DEF Init, Messages, Live
<1>2. count["processed"] = 0 /\ count["aborted"] = 0
  BY DEF Init, Counters
<1>3. IsFiniteSet(Messages) /\ IsFiniteSet(finished) /\ Cardinality(Messages) = 0
  BY <1>1, FS_EmptySet
<1> QED
  BY <1>2, <1>3 DEF Tally

\* A finished transaction has seen at least four messages.
LEMMA TallyAccounts == Inv /\ Tally => AccountedFor
<1> SUFFICES ASSUME Inv, Tally PROVE AccountedFor
  OBVIOUS
<1>1. PICK F : F = finished \X (1 .. 4)
  OBVIOUS
<1>2. F \subseteq Messages
  <2> SUFFICES ASSUME NEW m \in F PROVE m \in Messages
    OBVIOUS
  <2>1. PICK a \in finished, i \in 1 .. 4 : m = <<a, i>>
    BY <1>1
  <2>2. a \in Addrs /\ Live(a) /\ heap[a] \in TxState /\ FinishedBooks(heap[a])
    BY DEF Inv, TypeOK, FinishedConsistent, Live
  <2>3. i \in 1 .. Seen(heap[a])
    BY <2>2 DEF FinishedBooks, Seen, TxState
  <2> QED
    BY <2>1, <2>2, <2>3, InMessages
<1>3. IsFiniteSet(1 .. 4) /\ Cardinality(1 .. 4) = 4
  <2>1. 1 \in Int /\ 4 \in Int /\ ~(1 > 4) /\ 4 - 1 + 1 = 4
    OBVIOUS
  <2> QED
    BY <2>1, FS_Interval
<1>4. Cardinality(F) = Cardinality(finished) * 4
  BY <1>1, <1>3, FS_Product DEF Tally
<1>5. Cardinality(F) <= Cardinality(Messages)
  BY <1>2, FS_Subset DEF Tally
<1>6. Cardinality(finished) \in Nat /\ Cardinality(Messages) \in Nat
  BY FS_CardinalityType DEF Tally
<1>7. count["processed"] \in Nat /\ count["aborted"] \in Nat
  BY DEF Inv, TypeOK, Counters
<1> QED
  BY <1>4, <1>5, <1>6, <1>7 DEF Tally, AccountedFor

\* The printed number of processed messages is at least what the transactions
\* have seen, and four for each one that was reported.
THEOREM CountsAccounted == Spec => []AccountedFor
  BY Invariance, TallyInit, TallyNext, TallyAccounts, PTL DEF Spec

-----------------------------------------------------------------------------
(* The messages of real sessions.                                          *)

Stages == {"new", "open", "committed", "refused", "aborted"}

Ended(t) == stage[t] \in {"committed", "refused", "aborted"}

\* The handler's invariant; the captures of TxCapture leave time at 1.
Handler == Inv /\ now = 1

\* A session runs one transaction, nobody else's, and waits on a stream that no
\* other request uses and whose response has not been recorded.
SessionTypes ==
  /\ stage \in [TxIds -> Stages]
  /\ sess \in [Sessions -> [tx: TxIds \cup {NoTx}, stream: Streams \cup {NoStream},
                            committing: BOOLEAN]]
  /\ used \subseteq Streams /\ late \subseteq used
  /\ members \in [Addrs -> SUBSET TxIds]
  /\ outOfOrder \in BOOLEAN

OneTransaction ==
  /\ \A se \in Sessions : sess[se].tx # NoTx => stage[sess[se].tx] = "open"
  /\ \A se, other \in Sessions :
       sess[se].tx # NoTx /\ sess[se].tx = sess[other].tx => se = other
  /\ \A se \in Sessions : sess[se].stream # NoStream =>
       sess[se].tx # NoTx /\ sess[se].stream \in used \ late
  /\ \A se, other \in Sessions :
       sess[se].stream # NoStream /\ sess[se].stream = sess[other].stream => se = other

\* A stream that was not used yet is unknown to the handler.
FreshStreams ==
  /\ \A st \in Streams : byStream[st] # NoAddr => st \in used
  /\ \A a \in Addrs : Live(a) => heap[a].cur \in used \cup {NoStream}

\* The transactions in an object have ended, but for the one that its session still
\* runs; that one is in no other object.
Membership ==
  /\ \A a \in Addrs : Live(a) =>
       \A t \in members[a] : Ended(t) \/ (a \notin finished /\ sess[heap[a].session].tx = t)
  /\ \A a, b \in Addrs : Live(a) /\ Live(b) /\ a # b => members[a] \cap members[b] = {}

\* The request in progress in an object is its session's, or was answered or given up.
InProgressOf ==
  /\ \A a \in Addrs, se \in Sessions :
       Live(a) /\ sess[se].stream # NoStream /\ heap[a].cur = sess[se].stream =>
         /\ heap[a].session = se
         /\ sess[se].tx \in members[a]
         /\ heap[a].committing => sess[se].committing
  /\ \A a \in Addrs : Live(a) /\ heap[a].cur \in late /\ heap[a].committing =>
       /\ \E t \in members[a] : stage[t] \in {"committed", "refused"}
       /\ \A t \in members[a] : Ended(t)

\* Unless a response was recorded late, the pointer a session's stream leads to, if
\* there is one, is that of the session's own object.
PointersOfWaiting ==
  ~outOfOrder => \A se \in Sessions :
    sess[se].stream # NoStream /\ byStream[sess[se].stream] # NoAddr =>
      /\ active[se] = byStream[sess[se].stream]
      /\ heap[active[se]].cur = sess[se].stream

GInv ==
  /\ Handler /\ SessionTypes /\ OneTransaction /\ FreshStreams /\ Membership
  /\ InProgressOf /\ PointersOfWaiting /\ FailsOnlyOutOfOrder /\ ReportedOnce

-----------------------------------------------------------------------------
(* What the handler does with a message of a session.                      *)

\* What a request of session se on a new stream st leaves behind: o is the object
\* that took it in, or NoAddr.  Whatever else changed was destroyed.
RequestEffect(se, st, t, c, o) ==
  /\ UNCHANGED <<status, finished>>
  /\ \A b \in Addrs : b # o => members'[b] = members[b]
  /\ \A b \in Addrs : b # o /\ Live(b)' => Live(b) /\ heap'[b] = heap[b]
  /\ \A s \in Sessions : s # se => active'[s] = active[s]
  /\ \A s \in Streams : s # st => byStream'[s] \in {byStream[s], NoAddr}
  /\ byStream'[st] # NoAddr => byStream'[st] = o /\ o # NoAddr
  /\ o # NoAddr =>
       /\ o \in Addrs /\ o \notin finished
       /\ active'[se] = o
       /\ heap'[o].session = se /\ heap'[o].cur = st
       /\ heap'[o].committing => c
       /\ \/ members'[o] = {t} /\ sess[se].tx = NoTx
          \/ members'[o] = {t} \cup members[o] /\ o = active[se]

\* What a response on stream st leaves behind: o is the object whose request it
\* answers, or NoAddr.
ResponseEffect(st, o) ==
  /\ \A b \in Addrs : b # o => heap'[b] = heap[b]
  /\ \A s \in Streams : byStream'[s] \in {byStream[s], NoAddr}
  /\ \A s \in Sessions : active'[s] # active[s] => o # NoAddr /\ s = heap[o].session
  /\ finished' = finished \cup (IF o # NoAddr /\ heap[o].committing THEN {o} ELSE {})
  /\ o # NoAddr =>
       /\ o \in Addrs /\ Live(o) /\ heap'[o] # Freed
       /\ heap[o].cur = st /\ heap'[o].cur = NoStream
       /\ heap'[o].session = heap[o].session
       /\ heap'[o].committing = heap[o].committing
  /\ status' # status =>
       byStream[st] # NoAddr /\ (~Live(byStream[st]) \/ heap[byStream[st]].cur # st)

\* The types that the lemmas below keep needing.
LEMMA HandlerTypes ==
    ASSUME Inv
    PROVE  /\ heap \in [Addrs -> TxState \cup {Freed}]
           /\ active \in [Sessions -> Addrs \cup {NoAddr}]
           /\ byStream \in [Streams -> Addrs \cup {NoAddr}]
           /\ finished \subseteq Addrs
           /\ \A a \in Addrs : Live(a) => heap[a] \in TxState /\ heap[a].session \in Sessions
           /\ \A se \in Sessions : active[se] # NoAddr =>
                /\ active[se] \in Addrs /\ Live(active[se]) /\ active[se] \notin finished
                /\ heap[active[se]].session = se
           /\ \A a \in finished : Live(a) /\ heap[a].cur = NoStream
           /\ NoAddr \notin Addrs /\ NoStream \notin Streams
<1>1. TypeOK /\ SingleOwner /\ FinishedConsistent
  BY DEF Inv
<1>2. \A a \in Addrs : Live(a) => heap[a] \in TxState /\ heap[a].session \in Sessions
  BY <1>1 DEF TypeOK, Live, TxState
<1>3. \A a \in finished : Live(a) /\ heap[a].cur = NoStream
  BY <1>1 DEF FinishedConsistent, FinishedBooks
<1> QED
  BY <1>1, <1>2, <1>3, TrackerAssumption DEF TypeOK, SingleOwner

\* The present is a time at which a message may be read.
LEMMA Present == ASSUME now = 1 PROVE now \in 1 .. MaxTs
  BY TrackerAssumption

\* A begin makes a new object o, which may be where the session's former one was.
Made(se, st, t, o) ==
  /\ HeapWithout(se)[o] = Freed
  /\ heap' = [HeapWithout(se) EXCEPT ![o] = NewTransaction(st, se, now)]
  /\ active' = [active EXCEPT ![se] = o]
  /\ byStream' = [byStream EXCEPT ![st] = o]
  /\ members' = [members EXCEPT ![o] = {t}]

\* A begin on a new stream makes a new object for it.
LEMMA BeginEffect ==
    ASSUME Inv, SessionTypes, NEW se \in Sessions, NEW st \in Streams,
           NEW t \in TxIds, sess[se].tx = NoTx,
           BeginTransaction(st, se, now), Remember(se, st, t, TRUE)
    PROVE  \E o \in Addrs : RequestEffect(se, st, t, FALSE, o) /\ Made(se, st, t, o)
<1>1. PICK o \in Addrs :
        /\ HeapWithout(se)[o] = Freed
        /\ heap'     = [HeapWithout(se) EXCEPT ![o] = NewTransaction(st, se, now)]
        /\ active'   = [active EXCEPT ![se] = o]
        /\ byStream' = [byStream EXCEPT ![st] = o]
  BY DEF BeginTransaction
<1> DEFINE v == NewTransaction(st, se, now)
<1>2. v.session = se /\ v.cur = st /\ ~v.committing
  BY DEF NewTransaction
<1> HIDE DEF v
<1>3. /\ \A b \in Addrs : HeapWithout(se)[b] = IF b = active[se] THEN Freed ELSE heap[b]
      /\ HeapWithout(se) \in [Addrs -> TxState \cup {Freed}]
  BY HandlerTypes DEF HeapWithout
<1>4. /\ heap'[o] = v
      /\ \A b \in Addrs : b # o => heap'[b] = IF b = active[se] THEN Freed ELSE heap[b]
  BY <1>1, <1>3 DEF v
<1>5. active'[se] = o /\ o # NoAddr
  BY <1>1, HandlerTypes
<1>6. members' = [members EXCEPT ![o] = {t}]
  BY <1>2, <1>4, <1>5 DEF Remember
<1>7. o \notin finished
  BY <1>1, <1>3, HandlerTypes DEF Live
<1>8. RequestEffect(se, st, t, FALSE, o)
  <2>1. UNCHANGED <<status, finished>>
    BY DEF BeginTransaction
  <2>2. \A b \in Addrs : b # o => members'[b] = members[b]
    BY <1>6 DEF SessionTypes
  <2>3. members'[o] = {t}
    BY <1>6 DEF SessionTypes
  <2>4. \A b \in Addrs : b # o /\ Live(b)' => Live(b) /\ heap'[b] = heap[b]
    BY <1>4 DEF Live
  <2>5. \A s \in Sessions : s # se => active'[s] = active[s]
    BY <1>1, HandlerTypes
  <2>6. /\ \A s \in Streams : s # st => byStream'[s] \in {byStream[s], NoAddr}
        /\ byStream'[st] = o
    BY <1>1, HandlerTypes
  <2> QED
    BY <1>2, <1>4, <1>5, <1>7, <2>1, <2>2, <2>3, <2>4, <2>5, <2>6 DEF RequestEffect
<1> QED
  BY <1>1, <1>6, <1>8 DEF Made

\* A request that no object takes in changes no transaction.
LEMMA IgnoredEffect ==
    ASSUME Inv, FreshStreams, NEW se \in Sessions, NEW st \in Streams \ used,
           NEW t \in TxIds, NEW c \in BOOLEAN, NEW new \in BOOLEAN,
           UNCHANGED <<status, heap, active, byStream, finished>>,
           Remember(se, st, t, new)
    PROVE  RequestEffect(se, st, t, c, NoAddr) /\ UNCHANGED members
<1>1. byStream[st] = NoAddr
  BY HandlerTypes DEF FreshStreams
<1>2. active[se] # NoAddr => heap[active[se]].cur # st
  BY HandlerTypes DEF FreshStreams
<1>3. UNCHANGED members
  BY <1>2 DEF Remember
<1> QED
  BY <1>1, <1>3 DEF RequestEffect, Live

\* A request that ends its session's transaction destroys that object and nothing else.
LEMMA ErasedEffect ==
    ASSUME Inv, FreshStreams, NEW se \in Sessions, NEW st \in Streams \ used,
           NEW t \in TxIds, NEW c \in BOOLEAN, NEW new \in BOOLEAN,
           UNCHANGED <<status, finished>>, EraseSession(se),
           byStream' = byStream \/ \E s \in Streams : EraseStream(s),
           Remember(se, st, t, new)
    PROVE  RequestEffect(se, st, t, c, NoAddr)
<1>1. byStream[st] = NoAddr
  BY HandlerTypes DEF FreshStreams
<1>2. active'[se] = NoAddr /\ \A s \in Sessions : s # se => active'[s] = active[s]
  BY HandlerTypes DEF EraseSession
<1>3. members' = members
  BY <1>2 DEF Remember
<1>4. \A b \in Addrs : Live(b)' => Live(b) /\ heap'[b] = heap[b]
  BY HandlerTypes DEF EraseSession, HeapWithout, Live
<1>5. \A s \in Streams : byStream'[s] \in {byStream[s], NoAddr}
  BY HandlerTypes DEF EraseStream
<1>6. byStream'[st] = NoAddr
  BY <1>1, <1>5
<1> QED
  BY <1>2, <1>3, <1>4, <1>5, <1>6 DEF RequestEffect

\* A later request is noted down in the object o.
TakenIn(st, t, c, o) ==
  /\ heap'[o].txid = t /\ heap'[o].committing = c
  /\ members' = [members EXCEPT ![o] = {t} \cup @]
  /\ byStream' = [byStream EXCEPT ![st] = o]
  /\ \A b \in Addrs : b # o => heap'[b] = heap[b]

\* The session's next request goes into the object that the session owns.
LEMMA NextRequestEffect ==
    ASSUME Inv, SessionTypes, NEW se \in Sessions, NEW st \in Streams, NEW t \in TxIds,
           NEW c \in BOOLEAN, StartNextRequest(st, se, t, now, c),
           Remember(se, st, t, FALSE)
    PROVE  /\ RequestEffect(se, st, t, c, active[se])
           /\ TakenIn(st, t, c, active[se])
<1> DEFINE o == active[se]
           v == NextRequest(heap[o], st, t, now, c)
<1>1. /\ o \in Addrs /\ Live(o) /\ o \notin finished
      /\ heap[o] \in TxState /\ heap[o].session = se /\ heap[o].cur = NoStream
      /\ heap' = [heap EXCEPT ![o] = v]
      /\ byStream' = [byStream EXCEPT ![st] = o]
      /\ UNCHANGED <<status, active, finished>>
  BY HandlerTypes DEF StartNextRequest
<1>2. ~heap[o].committing
  BY <1>1 DEF Inv, OpenConsistent, OpenBooks
<1>3. v.session = se /\ v.cur = st /\ v.committing = c /\ v.txid = t
  <2>1. CASE c
    BY <1>1, <2>1 DEF NextRequest, StartCommit, StartRequest, TxState
  <2>2. CASE ~c
    BY <1>1, <1>2, <2>2 DEF NextRequest, StartRequest, TxState
  <2> QED
    BY <2>1, <2>2
<1> HIDE DEF v
<1>4. heap'[o] = v /\ \A b \in Addrs : b # o => heap'[b] = heap[b]
  BY <1>1, HandlerTypes
<1>5. members' = [members EXCEPT ![o] = {t} \cup @]
  BY <1>1, <1>3, <1>4, HandlerTypes DEF Remember
<1>6. RequestEffect(se, st, t, c, o)
  <2>1. /\ \A b \in Addrs : b # o => members'[b] = members[b]
        /\ members'[o] = {t} \cup members[o]
    BY <1>1, <1>5 DEF SessionTypes
  <2>2. \A b \in Addrs : b # o /\ Live(b)' => Live(b) /\ heap'[b] = heap[b]
    BY <1>4 DEF Live
  <2>3. /\ \A s \in Streams : s # st => byStream'[s] = byStream[s]
        /\ byStream'[st] = o
    BY <1>1, HandlerTypes
  <2> QED
    BY <1>1, <1>3, <1>4, <2>1, <2>2, <2>3, HandlerTypes DEF RequestEffect
<1> QED
  BY <1>1, <1>3, <1>4, <1>5, <1>6 DEF TakenIn

\* Every request with a transaction id, wherever its object is.
LEMMA SendNextEffect ==
    ASSUME Inv, now = 1, SessionTypes, FreshStreams, NEW se \in Sessions,
           NEW st \in Streams, NEW c \in BOOLEAN, SendNext(se, st, c)
    PROVE  /\ Inv' /\ now' = 1
           /\ \E o \in Addrs \cup {NoAddr} : RequestEffect(se, st, sess[se].tx, c, o)
<1> DEFINE t == sess[se].tx
<1>1. t \in TxIds /\ st \notin used /\ Remember(se, st, t, FALSE)
  BY DEF SendNext, Send, SessionTypes
<1>2. now \in 1 .. MaxTs
  BY Present
<1>3. CASE Missed
  <2>1. /\ UNCHANGED <<status, heap, active, byStream, finished, now>>
        /\ Scalars
    BY <1>3 DEF Missed, vars, Scalars, SteppedAt, Inv, TypeOK
  <2>2. Inv'
    BY <2>1, QuietStep
  <2> QED
    BY <1>1, <2>1, <2>2, IgnoredEffect
<1>4. CASE HandleRequest(st, se, t, now, c)
  <2>1. Inv'
    BY <1>1, <1>2, <1>4, HandleRequestStep
  <2>2. now' = 1
    BY <1>4 DEF HandleRequest, RequestOfUnknownSession, SkipQuery, RequestWhileWaiting,
                RequestOfOtherTransaction, StartNextRequest, Read, Parse
  <2>3. CASE RequestOfUnknownSession(se, now)
    <3>1. UNCHANGED <<status, heap, active, byStream, finished>>
      BY <2>3 DEF RequestOfUnknownSession, SkipQuery
    <3>2. RequestEffect(se, st, t, c, NoAddr)
      BY <1>1, <3>1, IgnoredEffect
    <3> QED
      BY <2>1, <2>2, <3>2
  <2>4. CASE RequestWhileWaiting(se, now)
    <3>1. \E s \in Streams : EraseStream(s)
      <4>1. heap[active[se]].cur \in Streams /\ EraseStream(heap[active[se]].cur)
        BY <2>4, HandlerTypes DEF RequestWhileWaiting, TxState
      <4> QED
        BY <4>1
    <3>2. UNCHANGED <<status, finished>> /\ EraseSession(se)
      BY <2>4 DEF RequestWhileWaiting
    <3>3. RequestEffect(se, st, t, c, NoAddr)
      BY <1>1, <3>1, <3>2, ErasedEffect
    <3> QED
      BY <2>1, <2>2, <3>3
  <2>5. CASE RequestOfOtherTransaction(se, t, now)
    <3>1. byStream' = byStream \/ \E s \in Streams : EraseStream(s)
      BY <2>5 DEF RequestOfOtherTransaction
    <3>2. UNCHANGED <<status, finished>> /\ EraseSession(se)
      BY <2>5 DEF RequestOfOtherTransaction
    <3>3. RequestEffect(se, st, t, c, NoAddr)
      BY <1>1, <3>1, <3>2, ErasedEffect
    <3> QED
      BY <2>1, <2>2, <3>3
  <2>6. CASE StartNextRequest(st, se, t, now, c)
    <3>1. RequestEffect(se, st, t, c, active[se])
      BY <1>1, <2>6, NextRequestEffect
    <3>2. active[se] \in Addrs \cup {NoAddr}
      BY HandlerTypes
    <3> QED
      BY <2>1, <2>2, <3>1, <3>2
  <2> QED
    BY <1>4, <2>1, <2>2, <2>3, <2>4, <2>5, <2>6 DEF HandleRequest
<1> QED
  BY <1>3, <1>4 DEF SendNext

\* Every request that begins a transaction.
LEMMA SendBeginEffect ==
    ASSUME Inv, now = 1, SessionTypes, FreshStreams, NEW se \in Sessions,
           NEW st \in Streams, NEW t \in TxIds, NEW n \in BOOLEAN,
           SendBegin(se, st, t, n)
    PROVE  /\ Inv' /\ now' = 1
           /\ \E o \in Addrs \cup {NoAddr} : RequestEffect(se, st, t, FALSE, o)
<1>0. Remember(se, st, t, TRUE)
  BY Zenon DEF SendBegin
<1>1. st \notin used /\ sess[se].tx = NoTx
  BY DEF SendBegin, Send, Idle
<1>2. now \in 1 .. MaxTs
  BY Present
<1>3. CASE Missed
  <2>1. /\ UNCHANGED <<status, heap, active, byStream, finished, now>>
        /\ Scalars
    BY <1>3 DEF Missed, vars, Scalars, SteppedAt, Inv, TypeOK
  <2>2. Inv'
    BY <2>1, QuietStep
  <2> QED
    BY <1>0, <1>1, <2>1, <2>2, IgnoredEffect
<1>4. CASE BeginTransaction(st, se, now)
  <2>1. Inv'
    BY <1>2, <1>4, BeginStep
  <2>2. now' = 1
    BY <1>4 DEF BeginTransaction, Parse
  <2> QED
    BY <1>0, <1>1, <1>4, <2>1, <2>2, BeginEffect
<1>5. ~BeginOnBusyStream(st, se, now)
  BY <1>1 DEF BeginOnBusyStream, FreshStreams
<1>6. CASE SkipQuery(now)
  <2>1. UNCHANGED <<status, heap, active, byStream, finished>> /\ now' = 1 /\ Scalars
    BY <1>2, <1>6, ReadProps DEF SkipQuery, Read, Parse, Scalars, Inv, TypeOK
  <2>2. Inv'
    BY <2>1, QuietStep
  <2> QED
    BY <1>0, <1>1, <2>1, <2>2, IgnoredEffect
<1> QED
  BY <1>3, <1>4, <1>5, <1>6 DEF SendBegin

\* Every response, the one that ends the program included.
LEMMA HandleResponseEffect ==
    ASSUME Inv, now = 1, NEW st \in Streams, HandleResponse(st, now)
    PROVE  /\ Inv' /\ now' = 1
           /\ \E o \in Addrs \cup {NoAddr} : ResponseEffect(st, o)
<1>1. now \in 1 .. MaxTs /\ now \in Nat
  BY Present
<1>2. Inv'
  BY <1>1, HandleResponseStep
<1>3. now' = 1
  BY DEF HandleResponse, ResponseOfUnknownStream, ResponseThroughDanglingPointer,
         ResponseOfOtherRequest, ResponseToQuery, ResponseToCommit, Read, Parse
<1>4. ASSUME UNCHANGED <<heap, active, byStream, finished>>,
             status' # status => byStream[st] # NoAddr /\
               (~Live(byStream[st]) \/ heap[byStream[st]].cur # st)
      PROVE  ResponseEffect(st, NoAddr)
  BY <1>4 DEF ResponseEffect
<1>5. CASE ResponseOfUnknownStream(st, now)
  BY <1>2, <1>3, <1>4, <1>5 DEF ResponseOfUnknownStream
<1>6. CASE ResponseThroughDanglingPointer(st, now)
  BY <1>2, <1>3, <1>4, <1>6 DEF ResponseThroughDanglingPointer
<1>7. CASE ResponseOfOtherRequest(st, now)
  BY <1>2, <1>3, <1>4, <1>7 DEF ResponseOfOtherRequest
<1> DEFINE o == byStream[st]
<1>8. ASSUME o \in Addrs, Live(o), heap[o].cur = st, NEW v,
             heap' = [heap EXCEPT ![o] = v], v \in TxState, v.cur = NoStream,
             v.session = heap[o].session, v.committing = heap[o].committing
      PROVE  /\ \A b \in Addrs : b # o => heap'[b] = heap[b]
             /\ o # NoAddr /\ o \in Addrs /\ Live(o) /\ heap'[o] # Freed
             /\ heap[o].cur = st /\ heap'[o].cur = NoStream
             /\ heap'[o].session = heap[o].session
             /\ heap'[o].committing = heap[o].committing
  <2>1. o # NoAddr /\ v # Freed
    BY <1>8, HandlerTypes, FreedAssumption
  <2>2. heap'[o] = v /\ \A b \in Addrs : b # o => heap'[b] = heap[b]
    BY <1>8, HandlerTypes
  <2> QED
    BY <1>8, <2>1, <2>2 DEF Live
<1>9. CASE ResponseToQuery(st, now)
  <2>1. /\ o \in Addrs /\ Live(o) /\ heap[o].cur = st /\ ~heap[o].committing
        /\ heap[o] \in TxState
        /\ heap' = [heap EXCEPT ![o] = FinishRequest(heap[o], now)]
        /\ byStream' = [byStream EXCEPT ![st] = NoAddr]
        /\ UNCHANGED <<status, active, finished>>
    BY <1>9, HandlerTypes DEF ResponseToQuery, EraseStream
  <2>2. o \notin finished
    BY <2>1, HandlerTypes
  <2>4. /\ FinishRequest(heap[o], now) \in TxState
        /\ FinishRequest(heap[o], now).cur = NoStream
        /\ FinishRequest(heap[o], now).session = heap[o].session
        /\ FinishRequest(heap[o], now).committing = heap[o].committing
    BY <1>1, <2>1, FinishRequestProps
  <2>5. \A s \in Streams : byStream'[s] \in {byStream[s], NoAddr}
    BY <2>1, HandlerTypes
  <2>6. finished' = finished \cup (IF o # NoAddr /\ heap[o].committing THEN {o} ELSE {})
    BY <2>1
  <2>7. /\ \A b \in Addrs : b # o => heap'[b] = heap[b]
        /\ o # NoAddr /\ heap'[o] # Freed /\ heap'[o].cur = NoStream
        /\ heap'[o].session = heap[o].session
        /\ heap'[o].committing = heap[o].committing
    BY <1>8, <2>1, <2>4
  <2>8. ResponseEffect(st, o)
    BY <2>1, <2>5, <2>6, <2>7 DEF ResponseEffect
  <2> QED
    BY <1>2, <1>3, <2>1, <2>8
<1>10. CASE ResponseToCommit(st, now)
  <2>1. /\ o \in Addrs /\ Live(o) /\ heap[o].cur = st /\ heap[o].committing
        /\ heap[o] \in TxState
        /\ heap' = [heap EXCEPT ![o] = FinishTransaction(heap[o], now)]
    BY <1>10, HandlerTypes DEF ResponseToCommit
  <2>2. status' = status /\ finished' = finished \cup {o}
    BY <1>1, <1>10, CommitStep
  <2>3. active[heap[o].session] # NoAddr =>
          /\ active' = [active EXCEPT ![heap[o].session] = NoAddr]
          /\ byStream' = [byStream EXCEPT ![st] = NoAddr]
    BY <1>10 DEF ResponseToCommit, EraseStream
  <2>4. o \notin finished
    BY <2>1, HandlerTypes
  <2>5. active[heap[o].session] # NoAddr
    BY <2>1, <2>4, HandlerTypes DEF Inv, SingleOwner
  <2>7. /\ FinishTransaction(heap[o], now) \in TxState
        /\ FinishTransaction(heap[o], now).cur = NoStream
        /\ FinishTransaction(heap[o], now).session = heap[o].session
        /\ FinishTransaction(heap[o], now).committing = heap[o].committing
    BY <1>1, <2>1, FinishTransactionProps
  <2>8. /\ \A s \in Streams : byStream'[s] \in {byStream[s], NoAddr}
        /\ \A s \in Sessions : active'[s] # active[s] => s = heap[o].session
    BY <2>1, <2>3, <2>5, HandlerTypes
  <2>9. /\ \A b \in Addrs : b # o => heap'[b] = heap[b]
        /\ o # NoAddr /\ heap'[o] # Freed /\ heap'[o].cur = NoStream
        /\ heap'[o].session = heap[o].session
        /\ heap'[o].committing = heap[o].committing
    BY <1>8, <2>1, <2>7
  <2>10. ResponseEffect(st, o)
    BY <2>1, <2>2, <2>8, <2>9 DEF ResponseEffect
  <2> QED
    BY <1>2, <1>3, <2>1, <2>10
<1> QED
  BY <1>5, <1>6, <1>7, <1>9, <1>10 DEF HandleResponse

-----------------------------------------------------------------------------
(* The invariant, message by message.                                      *)

\* A transaction that a session sends a request of is in no object but the one that
\* takes the request in.
LEMMA OnlyThere ==
    ASSUME GInv, NEW se \in Sessions, NEW st \in Streams, NEW t \in TxIds,
           NEW c \in BOOLEAN, NEW o \in Addrs, RequestEffect(se, st, t, c, o),
           \/ stage[t] = "new" /\ sess[se].tx = NoTx
           \/ sess[se].tx = t,
           NEW b \in Addrs, Live(b), b # o, Live(b)'
    PROVE  members[b] \cap members'[o] = {}
<1>1. /\ Inv /\ OneTransaction /\ Membership /\ SessionTypes
      /\ NoTx \notin TxIds
  BY HandlerTypes, TrackerAssumption DEF GInv, Handler
<1>2. t \notin members[b]
  <2> SUFFICES ASSUME t \in members[b] PROVE FALSE
    OBVIOUS
  <2>1. ~Ended(t)
    BY <1>1 DEF Ended, OneTransaction
  <2>2. b \notin finished /\ sess[heap[b].session].tx = t
    BY <1>1, <2>1 DEF Membership
  <2>3. heap[b].session \in Sessions /\ active[heap[b].session] = b
    BY <1>1, <2>2, HandlerTypes DEF Inv, SingleOwner
  <2>4. stage[t] = "open"
    BY <1>1, <2>2, <2>3 DEF OneTransaction
  <2>5. heap[b].session = se
    BY <1>1, <2>2, <2>3, <2>4 DEF OneTransaction
  <2>6. sess[se].tx # NoTx /\ active[se] = b
    BY <1>1, <2>2, <2>3, <2>5
  <2>7. o = active[se]
    BY <1>1, <2>6, HandlerTypes DEF RequestEffect
  <2> QED
    BY <2>6, <2>7
<1>3. \/ members'[o] = {t}
      \/ members'[o] = {t} \cup members[o] /\ Live(o)
  BY <1>1, HandlerTypes DEF RequestEffect
<1>4. Live(o) => members[b] \cap members[o] = {}
  BY <1>1 DEF Membership
<1> QED
  BY <1>2, <1>3, <1>4

\* A request: the object that takes it in holds a transaction that no other has.
LEMMA RequestInv ==
    ASSUME GInv, Inv', now' = 1, NEW se \in Sessions, NEW st \in Streams,
           NEW t \in TxIds, NEW c \in BOOLEAN, NEW o \in Addrs \cup {NoAddr},
           RequestEffect(se, st, t, c, o), Send(se, st, t, c),
           \/ stage[t] = "new" /\ sess[se].tx = NoTx /\ stage' = [stage EXCEPT ![t] = "open"]
           \/ sess[se].tx = t /\ UNCHANGED stage,
           members' \in [Addrs -> SUBSET TxIds]
    PROVE  GInv'
<1>1. /\ Inv /\ SessionTypes /\ OneTransaction /\ FreshStreams /\ Membership
      /\ InProgressOf /\ PointersOfWaiting /\ FailsOnlyOutOfOrder /\ ReportedOnce
  BY DEF GInv, Handler
<1>2. /\ st \notin used /\ used' = used \cup {st} /\ UNCHANGED <<late, outOfOrder>>
      /\ sess' = [sess EXCEPT ![se] = [tx |-> t, stream |-> st, committing |-> c]]
      /\ NoTx \notin TxIds /\ NoStream \notin Streams /\ NoAddr \notin Addrs
  BY TrackerAssumption DEF Send
<1>3. /\ sess'[se].tx = t /\ sess'[se].stream = st /\ sess'[se].committing = c
      /\ \A s \in Sessions : s # se => sess'[s] = sess[s]
      /\ \A s \in Sessions : sess[s].stream # NoStream => sess[s].stream \in used \ late
  BY <1>1, <1>2 DEF SessionTypes, OneTransaction
<1>4. /\ \A x \in TxIds : x # t => stage'[x] = stage[x]
      /\ stage'[t] = "open" /\ stage[t] \in {"new", "open"}
  BY <1>1, <1>2 DEF SessionTypes, OneTransaction
<1>5. /\ UNCHANGED <<status, finished>>
      /\ \A b \in Addrs : b # o => members'[b] = members[b]
      /\ \A b \in Addrs : b # o /\ Live(b)' => Live(b) /\ heap'[b] = heap[b]
      /\ \A s \in Sessions : s # se => active'[s] = active[s]
      /\ \A s \in Streams : s # st => byStream'[s] \in {byStream[s], NoAddr}
      /\ byStream'[st] # NoAddr => byStream'[st] = o /\ o # NoAddr
  BY DEF RequestEffect
<1>6. o # NoAddr =>
        /\ o \in Addrs /\ o \notin finished /\ active'[se] = o
        /\ heap'[o].session = se /\ heap'[o].cur = st
        /\ heap'[o].committing => c
        /\ \/ members'[o] = {t} /\ sess[se].tx = NoTx
           \/ members'[o] = {t} \cup members[o] /\ o = active[se]
  BY DEF RequestEffect
<1>7. SessionTypes'
  <2>1. stage' \in [TxIds -> Stages]
    BY <1>1 DEF SessionTypes, Stages
  <2> QED
    BY <1>1, <1>2, <2>1 DEF SessionTypes
<1>8. OneTransaction'
  <2>1. \A s \in Sessions : s # se => sess[s].tx # t
    BY <1>1, <1>2 DEF OneTransaction
  <2>2. \A s \in Sessions : sess[s].tx \in TxIds \cup {NoTx}
    BY <1>1 DEF SessionTypes
  <2>3. \A s \in Sessions : sess'[s].tx # NoTx => stage'[sess'[s].tx] = "open"
    BY <1>1, <1>3, <1>4, <2>1, <2>2 DEF OneTransaction
  <2>4. \A s, r \in Sessions :
          sess'[s].tx # NoTx /\ sess'[s].tx = sess'[r].tx => s = r
    BY <1>1, <1>3, <2>1 DEF OneTransaction
  <2>5. \A s \in Sessions : sess'[s].stream # NoStream =>
          sess'[s].tx # NoTx /\ sess'[s].stream \in used' \ late'
    BY <1>1, <1>2, <1>3 DEF OneTransaction, SessionTypes
  <2>6. \A s, r \in Sessions :
          sess'[s].stream # NoStream /\ sess'[s].stream = sess'[r].stream => s = r
    BY <1>1, <1>2, <1>3 DEF OneTransaction
  <2> QED
    BY <2>3, <2>4, <2>5, <2>6 DEF OneTransaction
<1>9. FreshStreams'
  <2>1. ASSUME NEW s \in Streams, byStream'[s] # NoAddr PROVE s \in used'
    BY <1>1, <1>2, <1>5, <2>1 DEF FreshStreams
  <2>2. ASSUME NEW a \in Addrs, Live(a)' PROVE heap'[a].cur \in used' \cup {NoStream}
    BY <1>1, <1>2, <1>5, <1>6, <2>2 DEF FreshStreams
  <2> QED
    BY <2>1, <2>2 DEF FreshStreams, Live
<1>10. \A x \in TxIds : Ended(x) => Ended(x)' /\ stage'[x] = stage[x]
  BY <1>4 DEF Ended
<1>11. Membership'
  <2>1. ASSUME NEW a \in Addrs, Live(a)', NEW x \in members'[a]
        PROVE  Ended(x)' \/ (a \notin finished' /\ sess'[heap'[a].session].tx = x)
    <3>1. x \in TxIds
      BY <1>2
    <3>2. CASE a # o
      <4>1. Live(a) /\ heap'[a] = heap[a] /\ x \in members[a]
        BY <1>5, <2>1, <3>2
      <4>2. Ended(x) \/ (a \notin finished /\ sess[heap[a].session].tx = x)
        BY <1>1, <4>1 DEF Membership
      <4>3. heap[a].session \in Sessions
        BY <1>1, <4>1, HandlerTypes
      <4>4. ASSUME heap[a].session = se, sess[se].tx = x
            PROVE  sess'[se].tx = x
        BY <1>2, <1>3, <3>1, <4>4
      <4> QED
        BY <1>3, <1>5, <1>10, <3>1, <4>1, <4>2, <4>3, <4>4
    <3>3. CASE a = o
      <4>1. CASE x = t
        BY <1>2, <1>3, <1>5, <1>6, <3>3, <4>1
      <4>2. CASE x # t
        <5>1. x \in members[o] /\ o = active[se] /\ o \in Addrs /\ o # NoAddr
          BY <1>2, <1>6, <2>1, <3>3, <4>2
        <5>2. Live(o) /\ heap[o].session = se
          BY <1>1, <5>1, HandlerTypes
        <5>3. Ended(x) \/ sess[se].tx = x
          BY <1>1, <5>1, <5>2 DEF Membership
        <5>4. sess[se].tx # x
          BY <1>2, <3>1, <4>2
        <5> QED
          BY <1>10, <3>1, <5>3, <5>4
      <4> QED
        BY <4>1, <4>2
    <3> QED
      BY <3>2, <3>3
  <2>2. ASSUME NEW a \in Addrs, NEW b \in Addrs, Live(a)', Live(b)', a # b
        PROVE  members'[a] \cap members'[b] = {}
    <3>1. CASE a # o /\ b # o
      BY <1>1, <1>5, <2>2, <3>1 DEF Membership
    <3>2. ASSUME NEW d \in Addrs, d # o, Live(d)', o \in Addrs
          PROVE  members'[d] \cap members'[o] = {}
      <4>1. Live(d) /\ members'[d] = members[d]
        BY <1>5, <3>2
      <4>2. members[d] \cap members'[o] = {}
        BY <3>2, <4>1, OnlyThere
      <4> QED
        BY <4>1, <4>2
    <3> QED
      BY <2>2, <3>1, <3>2
  <2> QED
    BY <2>1, <2>2 DEF Membership, Live, Ended
<1>12. InProgressOf'
  <2>1. ASSUME NEW a \in Addrs, NEW s \in Sessions, Live(a)', sess'[s].stream # NoStream,
               heap'[a].cur = sess'[s].stream
        PROVE  /\ heap'[a].session = s
               /\ sess'[s].tx \in members'[a]
               /\ heap'[a].committing => sess'[s].committing
    <3>1. CASE a = o
      <4>1. s = se
        BY <1>2, <1>3, <1>6, <2>1, <3>1
      <4> QED
        BY <1>2, <1>3, <1>6, <3>1, <4>1
    <3>2. CASE a # o
      <4>1. Live(a) /\ heap'[a] = heap[a] /\ members'[a] = members[a]
        BY <1>5, <2>1, <3>2
      <4>2. heap[a].cur # st
        BY <1>1, <1>2, <4>1 DEF FreshStreams
      <4>3. s # se
        BY <1>3, <2>1, <4>1, <4>2
      <4>4. sess'[s] = sess[s]
        BY <1>3, <4>3
      <4> QED
        BY <1>1, <2>1, <4>1, <4>4 DEF InProgressOf
    <3> QED
      BY <3>1, <3>2
  <2>2. ASSUME NEW a \in Addrs, Live(a)', heap'[a].cur \in late', heap'[a].committing
        PROVE  /\ \E x \in members'[a] : stage'[x] \in {"committed", "refused"}
               /\ \A x \in members'[a] : Ended(x)'
    <3>1. a # o
      BY <1>1, <1>2, <1>6, <2>2 DEF SessionTypes
    <3>2. Live(a) /\ heap'[a] = heap[a] /\ members'[a] = members[a]
      BY <1>5, <2>2, <3>1
    <3>3. /\ \E x \in members[a] : stage[x] \in {"committed", "refused"}
          /\ \A x \in members[a] : Ended(x)
      BY <1>1, <1>2, <2>2, <3>2 DEF InProgressOf
    <3>4. members[a] \subseteq TxIds
      BY <1>1 DEF SessionTypes
    <3> QED
      BY <1>10, <3>2, <3>3, <3>4
  <2> QED
    BY <2>1, <2>2 DEF InProgressOf, Live, Ended
<1>13. PointersOfWaiting'
  <2> SUFFICES ASSUME ~outOfOrder, NEW s \in Sessions, sess'[s].stream # NoStream,
                      byStream'[sess'[s].stream] # NoAddr
               PROVE  /\ active'[s] = byStream'[sess'[s].stream]
                      /\ heap'[active'[s]].cur = sess'[s].stream
    BY <1>2 DEF PointersOfWaiting
  <2>1. CASE s = se
    BY <1>3, <1>5, <1>6, <2>1
  <2>2. CASE s # se
    <3>1. sess'[s] = sess[s] /\ sess[s].stream # st /\ active'[s] = active[s]
          /\ sess[s].stream \in Streams
      BY <1>1, <1>2, <1>3, <1>5, <2>2 DEF SessionTypes
    <3>2. byStream'[sess[s].stream] = byStream[sess[s].stream]
      BY <1>5, <3>1
    <3>3. active[s] = byStream[sess[s].stream] /\ heap[active[s]].cur = sess[s].stream
      BY <1>1, <3>1, <3>2 DEF PointersOfWaiting
    <3>4. active'[s] # NoAddr /\ active'[s] \in Addrs
          /\ heap'[active'[s]] # Freed /\ heap'[active'[s]].session = s
      <4>1. active'[s] # NoAddr
        BY <3>1, <3>2, <3>3
      <4>2. TypeOK' /\ SingleOwner'
        BY DEF Inv
      <4> QED
        BY <4>1, <4>2 DEF TypeOK, SingleOwner, Live
    <3>5. active'[s] # o
      BY <1>6, <2>2, <3>4
    <3>6. heap'[active'[s]] = heap[active'[s]]
      BY <1>5, <3>4, <3>5 DEF Live
    <3> QED
      BY <3>1, <3>2, <3>3, <3>6
  <2> QED
    BY <2>1, <2>2
<1>14. FailsOnlyOutOfOrder'
  BY <1>1, <1>2, <1>5 DEF FailsOnlyOutOfOrder
<1>15. ReportedOnce'
  <2>1. \A a \in finished : a \in Addrs /\ a # o /\ members'[a] = members[a]
    BY <1>1, <1>5, <1>6, HandlerTypes
  <2>2. ASSUME NEW a \in finished
        PROVE  \E x \in members'[a] : stage'[x] \in {"committed", "refused"}
    <3>1. PICK x \in members[a] : stage[x] \in {"committed", "refused"}
      BY <1>1 DEF ReportedOnce
    <3>2. x \in TxIds
      BY <1>1, <2>1 DEF SessionTypes
    <3> QED
      BY <1>10, <2>1, <3>1, <3>2 DEF Ended
  <2>3. \A a, b \in finished : a # b => members'[a] \cap members'[b] = {}
    BY <1>1, <2>1 DEF ReportedOnce
  <2> QED
    BY <1>5, <2>2, <2>3 DEF ReportedOnce
<1> QED
  BY <1>7, <1>8, <1>9, <1>11, <1>12, <1>13, <1>14, <1>15 DEF GInv, Handler

\* An answer: the session goes on or ends its transaction, and its response is
\* recorded now, later or not at all.
LEMMA ReplyInv ==
    ASSUME GInv, Inv', now' = 1, NEW se \in Sessions, NEW ok \in BOOLEAN,
           NEW o \in Addrs \cup {NoAddr}, sess[se].stream # NoStream,
           ResponseEffect(sess[se].stream, o),
           \/ /\ ok /\ ~sess[se].committing
              /\ sess' = [sess EXCEPT ![se].stream = NoStream] /\ UNCHANGED stage
           \/ /\ ~(ok /\ ~sess[se].committing)
              /\ sess' = [sess EXCEPT ![se] = Idle]
              /\ stage' = [stage EXCEPT ![sess[se].tx] = Outcome(sess[se].committing, ok)],
           late' \in {late, late \cup {sess[se].stream}},
           UNCHANGED <<used, outOfOrder, members>>
    PROVE  GInv'
<1> DEFINE st == sess[se].stream
           t == sess[se].tx
<1>1. /\ Inv /\ SessionTypes /\ OneTransaction /\ FreshStreams /\ Membership
      /\ InProgressOf /\ PointersOfWaiting /\ FailsOnlyOutOfOrder /\ ReportedOnce
  BY DEF GInv, Handler
<1>2. /\ st \in Streams /\ st \in used /\ st \notin late
      /\ t \in TxIds /\ stage[t] = "open"
      /\ NoTx \notin TxIds /\ NoStream \notin Streams /\ NoAddr \notin Addrs
  BY <1>1, TrackerAssumption DEF SessionTypes, OneTransaction
<1>3. /\ sess'[se].stream = NoStream /\ sess'[se].tx \in {t, NoTx}
      /\ \A s \in Sessions : s # se => sess'[s] = sess[s]
      /\ sess' \in [Sessions -> [tx: TxIds \cup {NoTx}, stream: Streams \cup {NoStream},
                                 committing: BOOLEAN]]
  <2>1. CASE sess' = [sess EXCEPT ![se].stream = NoStream]
    BY <1>1, <2>1 DEF SessionTypes
  <2>2. CASE sess' = [sess EXCEPT ![se] = Idle]
    BY <1>1, <2>2 DEF SessionTypes, Idle
  <2> QED
    BY <2>1, <2>2
<1>4. /\ stage' \in [TxIds -> Stages]
      /\ \A x \in TxIds : x # t => stage'[x] = stage[x]
      /\ sess'[se].tx = t => ~sess[se].committing /\ stage'[t] = "open"
      /\ sess'[se].tx = NoTx => stage'[t] \in {"committed", "refused", "aborted"}
      /\ sess[se].committing => stage'[t] \in {"committed", "refused"} /\ sess'[se].tx = NoTx
  <2>1. CASE ok /\ ~sess[se].committing
    <3>1. sess'[se].tx = t /\ UNCHANGED stage
      BY <1>1, <2>1 DEF SessionTypes
    <3> QED
      BY <1>1, <1>2, <2>1, <3>1 DEF SessionTypes
  <2>2. CASE ~(ok /\ ~sess[se].committing)
    <3>1. Outcome(sess[se].committing, ok) \in {"committed", "refused", "aborted"}
      BY DEF Outcome
    <3>2. sess[se].committing =>
            Outcome(sess[se].committing, ok) \in {"committed", "refused"}
      BY DEF Outcome
    <3>3. sess'[se].tx = NoTx
      BY <1>1, <2>2 DEF SessionTypes, Idle
    <3> HIDE DEF Outcome
    <3> QED
      BY <1>1, <1>2, <2>2, <3>1, <3>2, <3>3 DEF SessionTypes, Stages
  <2> QED
    BY <2>1, <2>2
<1>5. /\ \A b \in Addrs : b # o => heap'[b] = heap[b]
      /\ \A s \in Streams : byStream'[s] \in {byStream[s], NoAddr}
      /\ \A s \in Sessions : active'[s] # active[s] => o # NoAddr /\ s = heap[o].session
      /\ finished' = finished \cup (IF o # NoAddr /\ heap[o].committing THEN {o} ELSE {})
      /\ o # NoAddr =>
           /\ o \in Addrs /\ Live(o) /\ heap'[o] # Freed
           /\ heap[o].cur = st /\ heap'[o].cur = NoStream
           /\ heap'[o].session = heap[o].session
           /\ heap'[o].committing = heap[o].committing
      /\ status' # status =>
           byStream[st] # NoAddr /\ (~Live(byStream[st]) \/ heap[byStream[st]].cur # st)
  BY DEF ResponseEffect
<1> HIDE DEF st, t
<1>6. /\ o # NoAddr => /\ heap[o].session = se /\ t \in members[o]
                       /\ heap[o].committing => sess[se].committing
      /\ members' = members /\ used' = used /\ outOfOrder' = outOfOrder
      /\ late \subseteq late' /\ late' \subseteq late \cup {st}
      /\ sess[se].stream = st /\ sess[se].tx = t
  BY <1>1, <1>2, <1>5 DEF InProgressOf, st, t
<1>7. SessionTypes'
  BY <1>1, <1>2, <1>3, <1>4, <1>6 DEF SessionTypes
<1>8. OneTransaction'
  <2>1. \A s \in Sessions : s # se => sess[s].tx # t /\ sess[s].stream # st
    BY <1>1, <1>2, <1>6 DEF OneTransaction
  <2>2. \A s \in Sessions : sess[s].tx \in TxIds \cup {NoTx}
    BY <1>1 DEF SessionTypes
  <2>3. \A s \in Sessions : sess'[s].tx # NoTx => stage'[sess'[s].tx] = "open"
    BY <1>1, <1>3, <1>4, <2>1, <2>2 DEF OneTransaction
  <2>4. \A s, r \in Sessions :
          sess'[s].tx # NoTx /\ sess'[s].tx = sess'[r].tx => s = r
    BY <1>1, <1>3, <2>1 DEF OneTransaction
  <2>5. \A s \in Sessions : sess'[s].stream # NoStream =>
          sess'[s].tx # NoTx /\ sess'[s].stream \in used' \ late'
    BY <1>1, <1>3, <1>6, <2>1 DEF OneTransaction
  <2>6. \A s, r \in Sessions :
          sess'[s].stream # NoStream /\ sess'[s].stream = sess'[r].stream => s = r
    BY <1>1, <1>3 DEF OneTransaction
  <2> QED
    BY <2>3, <2>4, <2>5, <2>6 DEF OneTransaction
<1>9. \A a \in Addrs : heap'[a] # Freed =>
        /\ Live(a) /\ heap'[a].session = heap[a].session
        /\ heap'[a].cur \in {heap[a].cur, NoStream}
        /\ a # o => heap'[a] = heap[a]
  BY <1>2, <1>5 DEF Live
<1>10. FreshStreams'
  BY <1>1, <1>5, <1>6, <1>9 DEF FreshStreams, Live
<1>11. \A x \in TxIds : Ended(x) => stage'[x] = stage[x]
  BY <1>2, <1>4 DEF Ended
<1>12. Membership'
  <2>1. ASSUME NEW a \in Addrs, heap'[a] # Freed, NEW x \in members[a]
        PROVE  \/ stage'[x] \in {"committed", "refused", "aborted"}
               \/ a \notin finished' /\ sess'[heap'[a].session].tx = x
    <3>1. Live(a) /\ heap'[a].session = heap[a].session /\ heap[a].session \in Sessions
          /\ x \in TxIds
      BY <1>1, <1>9, <2>1, HandlerTypes DEF SessionTypes
    <3>2. Ended(x) \/ (a \notin finished /\ sess[heap[a].session].tx = x)
      BY <1>1, <3>1, <2>1 DEF Membership
    <3>3. CASE Ended(x)
      BY <1>11, <3>1, <3>3 DEF Ended
    <3>4. CASE a \notin finished /\ sess[heap[a].session].tx = x /\ heap[a].session = se
      <4>1. x = t
        BY <1>6, <3>4
      <4>2. CASE sess'[se].tx = NoTx
        BY <1>4, <4>1, <4>2
      <4>3. CASE sess'[se].tx = t
        <5>1. a \notin finished'
          BY <1>4, <1>5, <1>6, <3>4, <4>3
        <5> QED
          BY <3>1, <3>4, <4>1, <4>3, <5>1
      <4> QED
        BY <1>3, <4>2, <4>3
    <3>5. CASE a \notin finished /\ sess[heap[a].session].tx = x /\ heap[a].session # se
      BY <1>3, <1>5, <1>6, <3>1, <3>5
    <3> QED
      BY <3>2, <3>3, <3>4, <3>5
  <2>2. \A a, b \in Addrs : heap'[a] # Freed /\ heap'[b] # Freed /\ a # b =>
          members[a] \cap members[b] = {}
    BY <1>1, <1>9 DEF Membership
  <2> QED
    BY <1>6, <2>1, <2>2 DEF Membership, Live, Ended
<1>13. InProgressOf'
  <2>1. ASSUME NEW a \in Addrs, NEW s \in Sessions, heap'[a] # Freed,
               sess'[s].stream # NoStream, heap'[a].cur = sess'[s].stream
        PROVE  /\ heap'[a].session = s
               /\ sess'[s].tx \in members'[a]
               /\ heap'[a].committing => sess'[s].committing
    <3>1. a # o /\ s # se
      BY <1>2, <1>3, <1>5, <2>1
    <3>2. heap'[a] = heap[a] /\ sess'[s] = sess[s] /\ Live(a)
      BY <1>3, <1>9, <2>1, <3>1
    <3> QED
      BY <1>1, <1>6, <2>1, <3>2 DEF InProgressOf
  <2>2. ASSUME NEW a \in Addrs, heap'[a] # Freed, heap'[a].cur \in late',
               heap'[a].committing
        PROVE  /\ \E x \in members'[a] : stage'[x] \in {"committed", "refused"}
               /\ \A x \in members'[a] : stage'[x] \in {"committed", "refused", "aborted"}
    <3>1. a # o /\ Live(a) /\ heap'[a] = heap[a] /\ members[a] \subseteq TxIds
      BY <1>1, <1>2, <1>5, <1>6, <1>9, <2>2 DEF SessionTypes
    <3>2. CASE heap[a].cur \in late
      <4>1. /\ \E x \in members[a] : stage[x] \in {"committed", "refused"}
            /\ \A x \in members[a] : Ended(x)
        BY <1>1, <2>2, <3>1, <3>2 DEF InProgressOf
      <4> QED
        BY <1>6, <1>11, <3>1, <4>1 DEF Ended
    <3>3. CASE heap[a].cur = st
      <4>1. heap[a].session = se /\ t \in members[a] /\ sess[se].committing
        BY <1>1, <1>2, <1>6, <2>2, <3>1, <3>3 DEF InProgressOf
      <4>2. \A x \in members[a] : Ended(x) \/ x = t
        BY <1>1, <1>6, <3>1, <4>1 DEF Membership
      <4> QED
        BY <1>4, <1>6, <1>11, <3>1, <4>1, <4>2 DEF Ended
    <3> QED
      BY <1>6, <2>2, <3>1, <3>2, <3>3
  <2> QED
    BY <2>1, <2>2 DEF InProgressOf, Live, Ended
<1>14. PointersOfWaiting'
  <2> SUFFICES ASSUME ~outOfOrder, NEW s \in Sessions, sess'[s].stream # NoStream,
                      byStream'[sess'[s].stream] # NoAddr
               PROVE  /\ active'[s] = byStream'[sess'[s].stream]
                      /\ heap'[active'[s]].cur = sess'[s].stream
    BY <1>6 DEF PointersOfWaiting
  <2>1. s # se /\ sess'[s] = sess[s] /\ sess[s].stream \in Streams /\ sess[s].stream # st
    BY <1>1, <1>3, <1>6 DEF SessionTypes, OneTransaction
  <2>2. byStream'[sess[s].stream] = byStream[sess[s].stream]
    BY <1>5, <2>1
  <2>3. active[s] = byStream[sess[s].stream] /\ heap[active[s]].cur = sess[s].stream
    BY <1>1, <2>1, <2>2 DEF PointersOfWaiting
  <2>4. active[s] # NoAddr /\ active[s] \in Addrs /\ active[s] # o
    BY <1>1, <1>5, <2>1, <2>2, <2>3, HandlerTypes
  <2>5. active'[s] = active[s]
    BY <1>5, <1>6, <2>1
  <2> QED
    BY <1>5, <2>1, <2>2, <2>3, <2>4, <2>5
<1>15. FailsOnlyOutOfOrder'
  <2> SUFFICES ASSUME ~outOfOrder PROVE status' = status
    BY <1>1, <1>6 DEF FailsOnlyOutOfOrder
  <2>1. byStream[st] # NoAddr => active[se] = byStream[st] /\ heap[active[se]].cur = st
    BY <1>1, <1>2, <1>6 DEF PointersOfWaiting
  <2>2. byStream[st] # NoAddr => Live(byStream[st])
    BY <1>1, <2>1, HandlerTypes
  <2> QED
    BY <1>5, <2>1, <2>2
<1>16. ReportedOnce'
  <2>1. ASSUME NEW a \in finished'
        PROVE  /\ a \in Addrs /\ heap'[a] # Freed
               /\ \E x \in members[a] : stage'[x] \in {"committed", "refused"}
    <3>1. CASE a \in finished
      <4>1. PICK x \in members[a] : stage[x] \in {"committed", "refused"}
        BY <1>1, <3>1 DEF ReportedOnce
      <4>2. x \in TxIds /\ a \in Addrs /\ Live(a) /\ heap'[a] # Freed
        BY <1>1, <1>5, <3>1, HandlerTypes DEF SessionTypes, Live
      <4> QED
        BY <1>11, <4>1, <4>2 DEF Ended
    <3>2. CASE a \notin finished
      <4>1. a = o /\ o # NoAddr /\ heap[o].committing
        BY <1>5, <2>1, <3>2
      <4> QED
        BY <1>4, <1>5, <1>6, <4>1
    <3> QED
      BY <3>1, <3>2
  <2>2. \A a, b \in finished' : a # b => members[a] \cap members[b] = {}
    BY <1>6, <1>12, <2>1 DEF Membership, Live
  <2> QED
    BY <1>6, <2>1, <2>2 DEF ReportedOnce
<1> QED
  BY <1>7, <1>8, <1>10, <1>12, <1>13, <1>14, <1>15, <1>16 DEF GInv, Handler

\* A late response: what it ends, the session has long ended.
LEMMA RecordLateInv ==
    ASSUME GInv, NEW st \in late, RecordLate(st)
    PROVE  GInv'
<1>1. /\ Inv /\ now = 1 /\ SessionTypes /\ OneTransaction /\ FreshStreams /\ Membership
      /\ InProgressOf /\ ReportedOnce
  BY DEF GInv, Handler
<1>2. /\ st \in Streams /\ NoStream \notin Streams /\ NoAddr \notin Addrs
      /\ late' = late \ {st} /\ outOfOrder' = TRUE /\ HandleResponse(st, now)
      /\ UNCHANGED <<sess, stage, newOrder, used, members>>
  BY <1>1, TrackerAssumption DEF RecordLate, SessionTypes
<1>3. Inv' /\ now' = 1 /\ \E o \in Addrs \cup {NoAddr} : ResponseEffect(st, o)
  BY <1>1, <1>2, HandleResponseEffect
<1>4. PICK o \in Addrs \cup {NoAddr} : ResponseEffect(st, o)
  BY <1>3
<1>5. /\ \A b \in Addrs : b # o => heap'[b] = heap[b]
      /\ \A s \in Streams : byStream'[s] \in {byStream[s], NoAddr}
      /\ finished' = finished \cup (IF o # NoAddr /\ heap[o].committing THEN {o} ELSE {})
      /\ o # NoAddr =>
           /\ o \in Addrs /\ Live(o) /\ heap'[o] # Freed
           /\ heap[o].cur = st /\ heap'[o].cur = NoStream
           /\ heap'[o].session = heap[o].session
  BY <1>4 DEF ResponseEffect
<1>6. o # NoAddr /\ heap[o].committing =>
        /\ \E x \in members[o] : stage[x] \in {"committed", "refused"}
        /\ \A x \in members[o] : Ended(x)
  BY <1>1, <1>5 DEF InProgressOf
<1>7. \A a \in Addrs : heap'[a] # Freed =>
        /\ Live(a) /\ heap'[a].session = heap[a].session
        /\ heap'[a].cur \in {heap[a].cur, NoStream}
        /\ heap'[a] = heap[a] \/ heap'[a].cur = NoStream
  BY <1>2, <1>5 DEF Live
<1>8. SessionTypes'
  BY <1>1, <1>2 DEF SessionTypes
<1>9. OneTransaction'
  BY <1>1, <1>2 DEF OneTransaction
<1>10. FreshStreams'
  BY <1>1, <1>2, <1>5, <1>7 DEF FreshStreams, Live
<1>11. Membership'
  <2>1. ASSUME NEW a \in Addrs, heap'[a] # Freed, NEW x \in members[a]
        PROVE  Ended(x) \/ (a \notin finished' /\ sess[heap'[a].session].tx = x)
    <3>1. Ended(x) \/ (a \notin finished /\ sess[heap[a].session].tx = x)
      BY <1>1, <1>7, <2>1 DEF Membership
    <3> QED
      BY <1>5, <1>6, <1>7, <2>1, <3>1
  <2>2. \A a, b \in Addrs : heap'[a] # Freed /\ heap'[b] # Freed /\ a # b =>
          members[a] \cap members[b] = {}
    BY <1>1, <1>7 DEF Membership
  <2> QED
    BY <1>2, <2>1, <2>2 DEF Membership, Live, Ended
<1>12. InProgressOf'
  <2>1. \A a \in Addrs : heap'[a] # Freed /\ heap'[a].cur # NoStream =>
          Live(a) /\ heap'[a] = heap[a]
    BY <1>7
  <2>2. late' \subseteq late /\ NoStream \notin late'
    BY <1>1, <1>2 DEF SessionTypes
  <2>3. \A a \in Addrs, s \in Sessions :
          heap'[a] # Freed /\ sess[s].stream # NoStream /\ heap'[a].cur = sess[s].stream =>
            /\ heap'[a].session = s /\ sess[s].tx \in members[a]
            /\ heap'[a].committing => sess[s].committing
    BY <1>1, <2>1 DEF InProgressOf
  <2>4. \A a \in Addrs : heap'[a] # Freed /\ heap'[a].cur \in late' /\ heap'[a].committing =>
          /\ \E x \in members[a] : stage[x] \in {"committed", "refused"}
          /\ \A x \in members[a] : Ended(x)
    BY <1>1, <2>1, <2>2 DEF InProgressOf
  <2> QED
    BY <1>2, <2>3, <2>4 DEF InProgressOf, Live, Ended
<1>13. PointersOfWaiting' /\ FailsOnlyOutOfOrder'
  BY <1>2 DEF PointersOfWaiting, FailsOnlyOutOfOrder
<1>14. ReportedOnce'
  <2>1. \A a \in finished' : a \in Addrs /\ heap'[a] # Freed
    <3>1. \A a \in finished : a \in Addrs /\ Live(a)
      BY <1>1, HandlerTypes
    <3> QED
      BY <1>2, <1>5, <3>1 DEF Live
  <2>2. \A a \in finished' : \E x \in members[a] : stage[x] \in {"committed", "refused"}
    BY <1>1, <1>5, <1>6 DEF ReportedOnce
  <2>3. \A a, b \in finished' : a # b => members[a] \cap members[b] = {}
    BY <1>2, <1>11, <2>1 DEF Membership, Live
  <2> QED
    BY <1>2, <2>2, <2>3 DEF ReportedOnce
<1> QED
  BY <1>3, <1>8, <1>9, <1>10, <1>11, <1>12, <1>13, <1>14 DEF GInv, Handler

\* Nothing of what the invariant speaks of changes.
LEMMA NothingInv ==
    ASSUME GInv, UNCHANGED <<heap, active, byStream, finished, now, count, stepped>>,
           status' \in {status, "done"}, UNCHANGED captureVars
    PROVE  GInv'
<1>1. Inv' /\ now' = 1
  <2>1. Scalars
    BY DEF Scalars, SteppedAt, GInv, Handler, Inv, TypeOK
  <2> QED
    BY <2>1, QuietStep DEF GInv, Handler
<1>2. SessionTypes' /\ OneTransaction' /\ FreshStreams' /\ Membership'
  BY DEF captureVars, GInv, SessionTypes, OneTransaction, FreshStreams, Membership,
         Live, Ended
<1>3. InProgressOf' /\ PointersOfWaiting'
  BY DEF captureVars, GInv, InProgressOf, PointersOfWaiting, Live, Ended
<1>4. FailsOnlyOutOfOrder' /\ ReportedOnce'
  BY DEF captureVars, GInv, FailsOnlyOutOfOrder, ReportedOnce
<1> QED
  BY <1>1, <1>2, <1>3, <1>4 DEF GInv, Handler

\* The first state.
LEMMA InitGInv == CaptureInit => GInv
<1> SUFFICES ASSUME CaptureInit PROVE GInv
  OBVIOUS
<1>1. Handler
  BY InitInv DEF CaptureInit, Init, Handler
<1>2. SessionTypes
  BY DEF CaptureInit, SessionTypes, Stages, Idle
<1>3. \A se \in Sessions : sess[se].tx = NoTx /\ sess[se].stream = NoStream
  BY DEF CaptureInit, Idle
<1>4. (\A a \in Addrs : ~Live(a)) /\ finished = {} /\ status = "running"
      /\ \A st \in Streams : byStream[st] = NoAddr
  BY DEF CaptureInit, Init, Live
<1> QED
  BY <1>1, <1>2, <1>3, <1>4
  DEF GInv, OneTransaction, FreshStreams, Membership, InProgressOf, PointersOfWaiting,
      FailsOnlyOutOfOrder, ReportedOnce

\* A request keeps the types of the history.
LEMMA MembersTyped ==
    ASSUME SessionTypes, NEW se, NEW st, NEW t \in TxIds, NEW new \in BOOLEAN,
           Remember(se, st, t, new)
    PROVE  members' \in [Addrs -> SUBSET TxIds]
  BY DEF SessionTypes, Remember

\* Every step preserves the invariant.
LEMMA NextGInv == GInv /\ [CaptureNext]_allVars => GInv'
<1> SUFFICES ASSUME GInv, [CaptureNext]_allVars PROVE GInv'
  OBVIOUS
<1>0. Inv /\ now = 1 /\ SessionTypes /\ FreshStreams /\ OneTransaction
  BY DEF GInv, Handler
<1>1. CASE UNCHANGED allVars
  BY <1>1, NothingInv DEF allVars, vars
<1>2. ASSUME NEW se \in Sessions, NEW st \in Streams, NEW t \in TxIds,
             NEW n \in BOOLEAN, SendBegin(se, st, t, n)
      PROVE  GInv'
  <2>1. Remember(se, st, t, TRUE) /\ Send(se, st, t, FALSE)
    BY <1>2, Zenon DEF SendBegin
  <2>2. /\ stage[t] = "new" /\ stage' = [stage EXCEPT ![t] = "open"]
        /\ sess[se].tx = NoTx
    BY <1>2 DEF SendBegin, Idle
  <2>3. members' \in [Addrs -> SUBSET TxIds]
    BY <1>0, <2>1, MembersTyped
  <2>4. PICK o \in Addrs \cup {NoAddr} : RequestEffect(se, st, t, FALSE, o)
    BY <1>0, <1>2, SendBeginEffect
  <2>5. Inv' /\ now' = 1
    BY <1>0, <1>2, SendBeginEffect
  <2> QED
    BY <2>1, <2>2, <2>3, <2>4, <2>5, RequestInv
<1>3. ASSUME NEW se \in Sessions, NEW st \in Streams, NEW c \in BOOLEAN,
             SendNext(se, st, c)
      PROVE  GInv'
  <2> DEFINE t == sess[se].tx
  <2>1. Remember(se, st, t, FALSE) /\ Send(se, st, t, c) /\ UNCHANGED stage
    BY <1>3, Zenon DEF SendNext
  <2>2. t \in TxIds
    BY <1>0, <1>3 DEF SendNext, SessionTypes
  <2>3. members' \in [Addrs -> SUBSET TxIds]
    BY <1>0, <2>1, <2>2, MembersTyped
  <2>4. PICK o \in Addrs \cup {NoAddr} : RequestEffect(se, st, t, c, o)
    BY <1>0, <1>3, SendNextEffect
  <2>5. Inv' /\ now' = 1
    BY <1>0, <1>3, SendNextEffect
  <2> QED
    BY <2>1, <2>2, <2>3, <2>4, <2>5, RequestInv
<1>4. ASSUME NEW se \in Sessions, NEW ok \in BOOLEAN, Reply(se, ok)
      PROVE  GInv'
  <2> DEFINE st == sess[se].stream
  <2>1. /\ st # NoStream /\ UNCHANGED <<used, outOfOrder, members>>
        /\ \/ /\ ok /\ ~sess[se].committing
              /\ sess' = [sess EXCEPT ![se].stream = NoStream] /\ UNCHANGED stage
           \/ /\ ~(ok /\ ~sess[se].committing)
              /\ sess' = [sess EXCEPT ![se] = Idle]
              /\ stage' = [stage EXCEPT ![sess[se].tx] = Outcome(sess[se].committing, ok)]
        /\ late' \in {late, late \cup {st}}
        /\ UNCHANGED vars \/ HandleResponse(st, now)
    BY <1>4 DEF Reply, Missed
  <2>2. st \in Streams
    BY <1>0, <2>1 DEF SessionTypes
  <2>3. Inv' /\ now' = 1 /\ \E o \in Addrs \cup {NoAddr} : ResponseEffect(st, o)
    <3>1. CASE UNCHANGED vars
      <4>1. Inv'
        BY <1>0, <3>1, NextInv
      <4>2. ResponseEffect(st, NoAddr) /\ now' = now
        BY <3>1 DEF vars, ResponseEffect
      <4> QED
        BY <1>0, <4>1, <4>2
    <3>2. CASE HandleResponse(st, now)
      BY <1>0, <2>2, <3>2, HandleResponseEffect
    <3> QED
      BY <2>1, <3>1, <3>2
  <2>4. PICK o \in Addrs \cup {NoAddr} : ResponseEffect(st, o)
    BY <2>3
  <2> QED
    BY <2>1, <2>3, <2>4, ReplyInv
<1>5. ASSUME NEW st \in late, RecordLate(st) PROVE GInv'
  BY <1>5, RecordLateInv
<1>6. CASE PrintResults /\ UNCHANGED captureVars
  BY <1>6, NothingInv DEF PrintResults
<1> QED
  BY <1>1, <1>2, <1>3, <1>4, <1>5, <1>6 DEF CaptureNext

\* The inductive invariant of every capture.
THEOREM CaptureInvariance == CaptureSpec => []GInv
  BY InitGInv, NextGInv, PTL DEF CaptureSpec

\* However many messages the capture misses, the analysis neither throws nor follows a
\* dangling pointer: that takes a response that was recorded late.
THEOREM FailsOnlyOutOfOrderAlways == CaptureSpec => []FailsOnlyOutOfOrder
<1>1. GInv => FailsOnlyOutOfOrder
  BY DEF GInv
<1> QED
  BY <1>1, CaptureInvariance, PTL

\* Whatever was missed or recorded late, each reported transaction ended with an
\* answered commit and is reported once.
THEOREM ReportedOnceAlways == CaptureSpec => []ReportedOnce
<1>1. GInv => ReportedOnce
  BY DEF GInv
<1> QED
  BY <1>1, CaptureInvariance, PTL

-----------------------------------------------------------------------------
(* A complete capture.                                                     *)

\* Each session's object is where the session is.
InStep ==
  \A se \in Sessions :
    /\ sess[se].tx # NoTx =>
         /\ active[se] # NoAddr
         /\ members[active[se]] = {sess[se].tx}
         /\ heap[active[se]].txid \in {NoTx, sess[se].tx}
         /\ heap[active[se]].cur = sess[se].stream
         /\ heap[active[se]].committing = sess[se].committing
    /\ sess[se].tx = NoTx /\ active[se] # NoAddr => heap[active[se]].cur = NoStream

CInv == GInv /\ late = {} /\ PointersExact /\ InStep

\* Every message of every transaction is in the capture, in the order it was sent.
Complete == AllTypes /\ ~Lossy /\ ~Reordering

\* A request that begins a transaction: the session's pointer leads to a new object.
LEMMA CompleteBegin ==
    ASSUME Complete, CInv, GInv', NEW se \in Sessions, NEW st \in Streams,
           NEW t \in TxIds, NEW n \in BOOLEAN, SendBegin(se, st, t, n)
    PROVE  /\ CInv'
           /\ Ledger!Begin(t)
<1>1. /\ Inv /\ now = 1 /\ SessionTypes /\ FreshStreams /\ OneTransaction /\ PointersExact /\ InStep
  BY DEF CInv, GInv, Handler
<1>2. Remember(se, st, t, TRUE)
  BY Zenon DEF SendBegin
<1>3. /\ sess[se].tx = NoTx /\ stage[t] = "new" /\ stage' = [stage EXCEPT ![t] = "open"]
      /\ st \notin used /\ late' = late /\ late = {}
      /\ sess' = [sess EXCEPT ![se] = [tx |-> t, stream |-> st, committing |-> FALSE]]
      /\ NoTx \notin TxIds /\ NoStream \notin Streams /\ NoAddr \notin Addrs
  BY TrackerAssumption DEF SendBegin, Send, Idle, CInv
<1>4. BeginTransaction(st, se, now)
  BY <1>1, <1>3 DEF SendBegin, Complete, Missed, BeginOnBusyStream, FreshStreams
<1>0. PICK o \in Addrs : RequestEffect(se, st, t, FALSE, o) /\ Made(se, st, t, o)
  BY <1>1, <1>2, <1>3, <1>4, BeginEffect
<1>5. /\ RequestEffect(se, st, t, FALSE, o)
      /\ HeapWithout(se)[o] = Freed
      /\ heap' = [HeapWithout(se) EXCEPT ![o] = NewTransaction(st, se, now)]
      /\ active' = [active EXCEPT ![se] = o]
      /\ byStream' = [byStream EXCEPT ![st] = o]
      /\ members' = [members EXCEPT ![o] = {t}]
  BY <1>0 DEF Made
<1> DEFINE old == active[se]
           v == NewTransaction(st, se, now)
<1>6. v.session = se /\ v.cur = st /\ v.committing = FALSE /\ v.txid = NoTx /\ v # Freed
  <2>1. v \in TxState
    BY <1>1, NewTransactionProps
  <2> QED
    BY <2>1, FreedAssumption DEF NewTransaction
<1> HIDE DEF v
<1>7. /\ heap'[o] = v
      /\ \A b \in Addrs : b # o => heap'[b] = IF b = old THEN Freed ELSE heap[b]
      /\ HeapWithout(se)[o] = IF o = old THEN Freed ELSE heap[o]
  BY <1>1, <1>5, HandlerTypes DEF HeapWithout, v
<1>8. /\ o = old \/ ~Live(o)
      /\ old # NoAddr => old \in Addrs /\ Live(old) /\ heap[old].cur = NoStream
  BY <1>1, <1>3, <1>5, <1>7, HandlerTypes DEF InStep, Live
<1>9. PointersExact'
  <2> SUFFICES ASSUME NEW s \in Streams, NEW b \in Addrs
               PROVE  byStream'[s] = b <=> heap'[b] # Freed /\ heap'[b].cur = s
    BY DEF PointersExact, Live
  <2>1. byStream'[st] = o /\ \A r \in Streams : r # st => byStream'[r] = byStream[r]
    BY <1>1, <1>5, HandlerTypes
  <2>2. byStream[s] = b <=> Live(b) /\ heap[b].cur = s
    BY <1>1 DEF PointersExact
  <2>3. CASE b = o
    <3>1. byStream[s] # o
      BY <1>3, <1>8, <2>2, <2>3
    <3> QED
      BY <1>6, <1>7, <2>1, <2>3, <3>1
  <2>4. CASE b # o /\ s = st
    <3>1. ~(Live(b) /\ heap[b].cur = st)
      BY <1>1, <1>3 DEF FreshStreams
    <3> QED
      BY <1>7, <2>1, <2>4, <3>1 DEF Live
  <2>5. CASE b # o /\ s # st /\ b # old
    BY <1>7, <2>1, <2>2, <2>5 DEF Live
  <2>6. CASE b # o /\ s # st /\ b = old
    BY <1>3, <1>7, <1>8, <2>1, <2>2, <2>6
  <2> QED
    BY <2>3, <2>4, <2>5, <2>6
<1>10. InStep'
  <2> SUFFICES ASSUME NEW s \in Sessions
               PROVE  /\ sess'[s].tx # NoTx =>
                           /\ active'[s] # NoAddr
                           /\ members'[active'[s]] = {sess'[s].tx}
                           /\ heap'[active'[s]].txid \in {NoTx, sess'[s].tx}
                           /\ heap'[active'[s]].cur = sess'[s].stream
                           /\ heap'[active'[s]].committing = sess'[s].committing
                      /\ sess'[s].tx = NoTx /\ active'[s] # NoAddr =>
                           heap'[active'[s]].cur = NoStream
    BY DEF InStep
  <2>1. CASE s = se
    <3>1. sess'[s] = [tx |-> t, stream |-> st, committing |-> FALSE]
          /\ active'[s] = o /\ members'[o] = {t}
      BY <1>1, <1>3, <1>5, <2>1, HandlerTypes DEF SessionTypes
    <3>2. sess'[s].tx = t /\ sess'[s].stream = st /\ sess'[s].committing = FALSE
      BY <3>1
    <3>3. o # NoAddr /\ t # NoTx
      BY <1>3
    <3>4. heap'[o].committing = sess'[s].committing
      BY <1>6, <1>7, <3>2
    <3> QED
      BY <1>6, <1>7, <3>1, <3>2, <3>3, <3>4
  <2>2. CASE s # se
    <3>1. sess'[s] = sess[s] /\ active'[s] = active[s]
      BY <1>1, <1>3, <1>5, <2>2, HandlerTypes DEF SessionTypes
    <3>2. active[s] # NoAddr =>
            /\ active[s] \in Addrs /\ Live(active[s])
            /\ heap[active[s]].session = s /\ active[s] # old /\ active[s] # o
      BY <1>1, <1>8, <2>2, HandlerTypes
    <3>3. active[s] # NoAddr =>
            heap'[active[s]] = heap[active[s]] /\ members'[active[s]] = members[active[s]]
      BY <1>1, <1>5, <1>7, <3>2 DEF SessionTypes
    <3> QED
      BY <1>1, <3>1, <3>3 DEF InStep
  <2> QED
    BY <2>1, <2>2
<1>11. \A a \in finished : a # o
  BY <1>3, <1>5 DEF RequestEffect
<1>12. finished' = finished /\ finished \subseteq Addrs
  BY <1>1, <1>5, HandlerTypes DEF RequestEffect
<1>13. Reported' = Reported
  BY <1>1, <1>5, <1>11, <1>12 DEF Reported, SessionTypes
<1> QED
  BY <1>3, <1>9, <1>10, <1>13 DEF CInv, Ledger!Begin

\* A later request: the session's object takes it in.
LEMMA CompleteNext ==
    ASSUME Complete, CInv, GInv', NEW se \in Sessions, NEW st \in Streams,
           NEW c \in BOOLEAN, SendNext(se, st, c)
    PROVE  CInv' /\ UNCHANGED <<stage, Reported>>
<1> DEFINE t == sess[se].tx
           o == active[se]
<1>1. /\ Inv /\ now = 1 /\ SessionTypes /\ FreshStreams /\ OneTransaction /\ PointersExact /\ InStep
  BY DEF CInv, GInv, Handler
<1>2. Remember(se, st, t, FALSE)
  BY Zenon DEF SendNext
<1>3. /\ t \in TxIds /\ t # NoTx /\ sess[se].stream = NoStream /\ stage' = stage
      /\ st \notin used /\ late' = late /\ late = {}
      /\ sess' = [sess EXCEPT ![se] = [tx |-> t, stream |-> st, committing |-> c]]
      /\ NoStream \notin Streams /\ NoAddr \notin Addrs
  BY <1>1, TrackerAssumption DEF SendNext, Send, SessionTypes, CInv
<1>4. /\ o # NoAddr /\ o \in Addrs /\ Live(o) /\ o \notin finished /\ heap[o].session = se
      /\ members[o] = {t} /\ heap[o].txid \in {NoTx, t} /\ heap[o].cur = NoStream
  BY <1>1, <1>3, HandlerTypes DEF InStep
<1>5. StartNextRequest(st, se, t, now, c)
  <2>1. HandleRequest(st, se, t, now, c)
    BY DEF SendNext, Missed, Complete
  <2>2. ~RequestOfUnknownSession(se, now)
    BY <1>4 DEF RequestOfUnknownSession
  <2>3. ~RequestWhileWaiting(se, now)
    BY <1>4 DEF RequestWhileWaiting
  <2>4. ~RequestOfOtherTransaction(se, t, now)
    BY <1>4 DEF RequestOfOtherTransaction
  <2> QED
    BY <2>1, <2>2, <2>3, <2>4 DEF HandleRequest
<1>6. /\ RequestEffect(se, st, t, c, o)
      /\ heap'[o].txid = t /\ heap'[o].committing = c
      /\ members' = [members EXCEPT ![o] = {t} \cup @]
      /\ byStream' = [byStream EXCEPT ![st] = o]
      /\ \A b \in Addrs : b # o => heap'[b] = heap[b]
  <2>1. RequestEffect(se, st, t, c, o) /\ TakenIn(st, t, c, o)
    BY <1>1, <1>2, <1>3, <1>5, NextRequestEffect
  <2> QED
    BY <2>1 DEF TakenIn
<1>7. /\ members' = members
      /\ active' = active /\ finished' = finished
      /\ heap'[o].cur = st /\ heap'[o].session = se
  <2>1. members' = members
    BY <1>1, <1>4, <1>6 DEF SessionTypes
  <2> QED
    BY <1>4, <1>5, <1>6, <2>1 DEF RequestEffect, StartNextRequest
<1>8. heap'[o] # Freed
  <2>1. heap' \in [Addrs -> TxState \cup {Freed}] /\ active' \in [Sessions -> Addrs \cup {NoAddr}]
        /\ SingleOwner'
    BY DEF GInv, Handler, Inv, TypeOK
  <2> QED
    BY <1>4, <1>7, <2>1 DEF SingleOwner, Live
<1>9. PointersExact'
  <2> SUFFICES ASSUME NEW s \in Streams, NEW b \in Addrs
               PROVE  byStream'[s] = b <=> heap'[b] # Freed /\ heap'[b].cur = s
    BY DEF PointersExact, Live
  <2>1. byStream'[st] = o /\ \A r \in Streams : r # st => byStream'[r] = byStream[r]
    BY <1>1, <1>6, HandlerTypes
  <2>2. byStream[s] = b <=> Live(b) /\ heap[b].cur = s
    BY <1>1 DEF PointersExact
  <2>3. CASE b = o
    BY <1>3, <1>4, <1>7, <1>8, <2>1, <2>2, <2>3
  <2>4. CASE b # o /\ s = st
    <3>1. ~(Live(b) /\ heap[b].cur = st)
      BY <1>1, <1>3 DEF FreshStreams
    <3> QED
      BY <1>6, <2>1, <2>4, <3>1 DEF Live
  <2>5. CASE b # o /\ s # st
    BY <1>6, <2>1, <2>2, <2>5 DEF Live
  <2> QED
    BY <2>3, <2>4, <2>5
<1>10. InStep'
  <2> SUFFICES ASSUME NEW s \in Sessions
               PROVE  /\ sess'[s].tx # NoTx =>
                           /\ active'[s] # NoAddr
                           /\ members'[active'[s]] = {sess'[s].tx}
                           /\ heap'[active'[s]].txid \in {NoTx, sess'[s].tx}
                           /\ heap'[active'[s]].cur = sess'[s].stream
                           /\ heap'[active'[s]].committing = sess'[s].committing
                      /\ sess'[s].tx = NoTx /\ active'[s] # NoAddr =>
                           heap'[active'[s]].cur = NoStream
    BY DEF InStep
  <2>1. CASE s = se
    <3>1. sess'[s].tx = t /\ sess'[s].stream = st /\ sess'[s].committing = c
      BY <1>1, <1>3, <2>1 DEF SessionTypes
    <3>2. heap'[o].committing = sess'[s].committing
      BY <1>6, <3>1
    <3> QED
      BY <1>3, <1>4, <1>6, <1>7, <2>1, <3>1, <3>2
  <2>2. CASE s # se
    <3>1. sess'[s] = sess[s] /\ active'[s] = active[s]
      BY <1>1, <1>3, <1>7, <2>2 DEF SessionTypes
    <3>2. active[s] # NoAddr => heap'[active[s]] = heap[active[s]]
      BY <1>1, <1>4, <1>6, <2>2, HandlerTypes
    <3> QED
      BY <1>1, <1>7, <3>1, <3>2 DEF InStep
  <2> QED
    BY <2>1, <2>2
<1> QED
  BY <1>3, <1>7, <1>9, <1>10 DEF CInv, Reported

\* An answer: the handler finishes the request of the session's own object.
LEMMA CompleteReply ==
    ASSUME Complete, CInv, GInv', NEW se \in Sessions, NEW ok \in BOOLEAN, Reply(se, ok)
    PROVE  /\ CInv'
           /\ \/ UNCHANGED <<stage, Reported>>
              \/ \E t \in TxIds : Ledger!Abort(t) \/ Ledger!AnswerCommit(t)
<1> DEFINE t == sess[se].tx
           st == sess[se].stream
           o == active[se]
           com == sess[se].committing
<1>1. /\ Inv /\ now = 1 /\ SessionTypes /\ OneTransaction /\ PointersExact /\ InStep
      /\ late = {} /\ NoTx \notin TxIds /\ NoStream \notin Streams /\ NoAddr \notin Addrs
  BY TrackerAssumption DEF CInv, GInv, Handler
<1>2. /\ st # NoStream /\ st \in Streams /\ t \in TxIds /\ t # NoTx /\ stage[t] = "open"
      /\ \A s \in Sessions : s # se => sess[s].stream # st
  BY <1>1 DEF Reply, SessionTypes, OneTransaction
<1>3. /\ HandleResponse(st, now) /\ late' = late /\ members' = members
      /\ \/ /\ ok /\ ~com
            /\ sess' = [sess EXCEPT ![se].stream = NoStream] /\ UNCHANGED stage
         \/ /\ ~(ok /\ ~com)
            /\ sess' = [sess EXCEPT ![se] = Idle]
            /\ stage' = [stage EXCEPT ![t] = Outcome(com, ok)]
  BY DEF Reply, Complete, Missed
<1>4. /\ o # NoAddr /\ o \in Addrs /\ Live(o) /\ o \notin finished /\ heap[o].session = se
      /\ heap[o] \in TxState /\ members[o] = {t} /\ heap[o].txid \in {NoTx, t}
      /\ heap[o].cur = st /\ heap[o].committing = com
      /\ byStream[st] = o
  BY <1>1, <1>2, HandlerTypes DEF InStep, PointersExact
<1>5. /\ active' = IF com THEN [active EXCEPT ![se] = NoAddr] ELSE active
      /\ byStream' = [byStream EXCEPT ![st] = NoAddr]
      /\ finished' = IF com THEN finished \cup {o} ELSE finished
      /\ heap' = [heap EXCEPT ![o] = IF com THEN FinishTransaction(heap[o], now)
                                           ELSE FinishRequest(heap[o], now)]
  <2>1. ResponseToQuery(st, now) \/ ResponseToCommit(st, now)
    BY <1>3, <1>4
    DEF HandleResponse, ResponseOfUnknownStream, ResponseThroughDanglingPointer,
        ResponseOfOtherRequest
  <2>2. CASE com
    BY <1>4, <2>1, <2>2 DEF ResponseToQuery, ResponseToCommit, EraseStream
  <2>3. CASE ~com
    BY <1>4, <2>1, <2>3 DEF ResponseToQuery, ResponseToCommit, EraseStream
  <2> QED
    BY <2>2, <2>3
<1>6. /\ heap'[o] # Freed /\ heap'[o].cur = NoStream /\ heap'[o].session = se
      /\ heap'[o].committing = com /\ heap'[o].txid \in {NoTx, t}
      /\ \A b \in Addrs : b # o => heap'[b] = heap[b]
  <2> DEFINE v == IF com THEN FinishTransaction(heap[o], now) ELSE FinishRequest(heap[o], now)
  <2>1. now \in Nat
    BY <1>1 DEF Inv, TypeOK
  <2>2. /\ v \in TxState /\ v.cur = NoStream /\ v.session = heap[o].session
        /\ v.committing = heap[o].committing
    BY <1>4, <2>1, FinishRequestProps, FinishTransactionProps
  <2>3. v.txid = heap[o].txid
    <3>1. FinishRequest(heap[o], now) \in TxState
      BY <1>4, <2>1, FinishRequestProps
    <3>2. FinishRequest(heap[o], now).txid = heap[o].txid
      BY <1>4 DEF FinishRequest, TxState
    <3>3. FinishTransaction(heap[o], now).txid = FinishRequest(heap[o], now).txid
      BY <3>1 DEF FinishTransaction, TxState
    <3> QED
      BY <3>2, <3>3
  <2>4. heap' = [heap EXCEPT ![o] = v]
    BY <1>5
  <2> HIDE DEF v
  <2>5. heap'[o] = v /\ \A b \in Addrs : b # o => heap'[b] = heap[b]
    BY <1>1, <1>4, <2>4, HandlerTypes
  <2> QED
    BY <1>4, <2>2, <2>3, <2>5, FreedAssumption
<1>7. PointersExact'
  <2> SUFFICES ASSUME NEW s \in Streams, NEW b \in Addrs
               PROVE  byStream'[s] = b <=> heap'[b] # Freed /\ heap'[b].cur = s
    BY DEF PointersExact, Live
  <2>1. byStream'[st] = NoAddr /\ \A r \in Streams : r # st => byStream'[r] = byStream[r]
    BY <1>1, <1>2, <1>5, HandlerTypes
  <2>2. byStream[s] = b <=> Live(b) /\ heap[b].cur = s
    BY <1>1 DEF PointersExact
  <2>3. CASE b = o
    BY <1>1, <1>2, <1>4, <1>6, <2>1, <2>2, <2>3
  <2>4. CASE b # o /\ s = st
    BY <1>1, <1>4, <1>6, <2>1, <2>2, <2>4 DEF Live
  <2>5. CASE b # o /\ s # st
    BY <1>6, <2>1, <2>2, <2>5 DEF Live
  <2> QED
    BY <2>3, <2>4, <2>5
<1>8. /\ sess'[se].tx \in {t, NoTx} /\ sess'[se].stream = NoStream
      /\ sess'[se].tx = t => sess'[se].committing = sess[se].committing /\ ~com
      /\ \A s \in Sessions : s # se => sess'[s] = sess[s]
  <2>1. CASE ok /\ ~com
    <3>1. sess' = [sess EXCEPT ![se].stream = NoStream]
      BY <1>3, <2>1
    <3>2. /\ sess'[se].tx = t /\ sess'[se].stream = NoStream
          /\ sess'[se].committing = sess[se].committing
          /\ \A s \in Sessions : s # se => sess'[s] = sess[s]
      BY <1>1, <3>1 DEF SessionTypes
    <3> QED
      BY <2>1, <3>2
  <2>2. CASE ~(ok /\ ~com)
    <3>1. sess'[se] = Idle /\ \A s \in Sessions : s # se => sess'[s] = sess[s]
      BY <1>1, <1>3, <2>2 DEF SessionTypes
    <3> QED
      <4>1. sess'[se].tx = NoTx /\ sess'[se].stream = NoStream
        BY <3>1 DEF Idle
      <4> QED
        BY <1>2, <3>1, <4>1
  <2> QED
    BY <2>1, <2>2
<1> HIDE DEF com
<1>9. InStep'
  <2> SUFFICES ASSUME NEW s \in Sessions
               PROVE  /\ sess'[s].tx # NoTx =>
                           /\ active'[s] # NoAddr
                           /\ members'[active'[s]] = {sess'[s].tx}
                           /\ heap'[active'[s]].txid \in {NoTx, sess'[s].tx}
                           /\ heap'[active'[s]].cur = sess'[s].stream
                           /\ heap'[active'[s]].committing = sess'[s].committing
                      /\ sess'[s].tx = NoTx /\ active'[s] # NoAddr =>
                           heap'[active'[s]].cur = NoStream
    BY DEF InStep
  <2>1. CASE s = se
    <3>1. active'[se] \in {o, NoAddr} /\ (~com => active'[se] = o)
      BY <1>1, <1>5, HandlerTypes
    <3>2. sess'[se].tx = t => heap'[o].committing = sess'[se].committing
      BY <1>6, <1>8 DEF com
    <3> QED
      BY <1>2, <1>3, <1>4, <1>6, <1>8, <2>1, <3>1, <3>2
  <2>2. CASE s # se
    <3>1. sess'[s] = sess[s] /\ active'[s] = active[s]
      BY <1>1, <1>5, <1>8, <2>2, HandlerTypes
    <3>2. active[s] # NoAddr => heap'[active[s]] = heap[active[s]]
      BY <1>1, <1>4, <1>6, <2>2, HandlerTypes
    <3> QED
      BY <1>1, <1>3, <3>1, <3>2 DEF InStep
  <2> QED
    BY <2>1, <2>2
<1>10. CInv'
  BY <1>1, <1>3, <1>7, <1>9 DEF CInv
<1>11. CASE ok /\ ~com
  BY <1>3, <1>5, <1>10, <1>11 DEF Reported, com
<1>12. CASE ~com /\ ~ok
  <2>1. stage' = [stage EXCEPT ![t] = "aborted"]
    BY <1>3, <1>12 DEF Outcome, com
  <2>2. Reported' = Reported
    BY <1>3, <1>5, <1>12 DEF Reported
  <2>3. Ledger!Abort(t)
    BY <1>2, <2>1, <2>2 DEF Ledger!Abort
  <2> QED
    BY <1>2, <1>10, <2>3
<1>13. CASE com
  <2>1. stage' \in {[stage EXCEPT ![t] = "committed"], [stage EXCEPT ![t] = "refused"]}
    <3>1. stage' = [stage EXCEPT ![t] = Outcome(com, ok)]
      BY <1>3, <1>13 DEF com
    <3>2. Outcome(com, ok) \in {"committed", "refused"}
      BY <1>13 DEF Outcome
    <3> HIDE DEF Outcome
    <3> QED
      BY <3>1, <3>2
  <2>2. finished' = finished \cup {o} /\ members' = members
    BY <1>3, <1>5, <1>13
  <2>3. Reported' = Reported \cup {{t}}
    <3>1. Reported' = Reported \cup {members[o]}
      BY <2>2 DEF Reported
    <3> QED
      BY <1>4, <3>1
  <2>4. Ledger!AnswerCommit(t)
    BY <1>2, <2>1, <2>3 DEF Ledger!AnswerCommit
  <2> QED
    BY <1>2, <1>10, <2>4
<1> QED
  BY <1>10, <1>11, <1>12, <1>13 DEF com

\* Every step of a complete capture keeps sessions and objects in step, and is one
\* of the ledger or changes nothing that the ledger knows of.
LEMMA CompleteStep ==
    ASSUME Complete, CInv, GInv', [CaptureNext]_allVars
    PROVE  CInv' /\ [Ledger!Next]_(Ledger!vars)
<1>1. ASSUME UNCHANGED <<heap, active, byStream, finished, captureVars>>
      PROVE  CInv' /\ UNCHANGED <<stage, Reported>>
  BY <1>1 DEF captureVars, CInv, PointersExact, InStep, Live, Reported
<1>2. CASE UNCHANGED allVars
  BY <1>1, <1>2 DEF allVars, vars, Ledger!vars
<1>3. CASE PrintResults /\ UNCHANGED captureVars
  BY <1>1, <1>3 DEF PrintResults, Ledger!vars
<1>4. ASSUME NEW se \in Sessions, NEW st \in Streams, NEW t \in TxIds,
             NEW n \in BOOLEAN, SendBegin(se, st, t, n)
      PROVE  CInv' /\ [Ledger!Next]_(Ledger!vars)
  BY <1>4, CompleteBegin DEF Ledger!Next
<1>5. ASSUME NEW se \in Sessions, NEW st \in Streams, NEW c \in BOOLEAN,
             SendNext(se, st, c)
      PROVE  CInv' /\ [Ledger!Next]_(Ledger!vars)
  BY <1>5, CompleteNext DEF Ledger!vars
<1>6. ASSUME NEW se \in Sessions, NEW ok \in BOOLEAN, Reply(se, ok)
      PROVE  CInv' /\ [Ledger!Next]_(Ledger!vars)
  BY <1>6, CompleteReply DEF Ledger!Next, Ledger!vars
<1>7. ~ \E st \in late : RecordLate(st)
  BY DEF CInv
<1> QED
  BY <1>2, <1>3, <1>4, <1>5, <1>6, <1>7 DEF CaptureNext

\* The first state.
LEMMA InitCInv == CaptureInit => CInv /\ Ledger!Init
<1> SUFFICES ASSUME CaptureInit PROVE CInv /\ Ledger!Init
  OBVIOUS
<1>1. PointersExact
  BY TrackerAssumption DEF CaptureInit, Init, PointersExact, Live
<1>2. InStep
  BY DEF CaptureInit, Init, Idle, InStep
<1>3. Ledger!Init
  BY DEF CaptureInit, Init, Ledger!Init, Reported
<1> QED
  BY <1>1, <1>2, <1>3, InitGInv DEF CInv, CaptureInit

\* In a complete capture, every pointer in TransactionsByStream leads to the open
\* transaction that waits on that stream, and each such transaction has one.
THEOREM PointersExactAlways == ASSUME Complete PROVE CaptureSpec => []PointersExact
<1>1. CInv /\ GInv' /\ [CaptureNext]_allVars => CInv'
  BY CompleteStep
<1>2. CInv => PointersExact
  BY DEF CInv
<1> QED
  BY <1>1, <1>2, InitCInv, CaptureInvariance, PTL DEF CaptureSpec

\* Fed with a complete capture, the tracker reports every transaction whose commit was
\* answered, when it was, each of its own, and nothing else.
THEOREM LedgerImplemented == ASSUME Complete PROVE CaptureSpec => ImplementsLedger
<1>1. CInv /\ GInv' /\ [CaptureNext]_allVars => CInv'
  BY CompleteStep
<1>2. CInv /\ GInv' /\ [CaptureNext]_allVars => [Ledger!Next]_(Ledger!vars)
  BY CompleteStep
<1>3. CaptureSpec => []CInv
  BY <1>1, InitCInv, CaptureInvariance, PTL DEF CaptureSpec
<1> QED
  BY <1>2, <1>3, InitCInv, CaptureInvariance, PTL
  DEF CaptureSpec, ImplementsLedger, Ledger!Spec

=============================================================================
