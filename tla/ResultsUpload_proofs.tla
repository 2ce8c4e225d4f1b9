-------------------------- MODULE ResultsUpload_proofs --------------------------
(* However often the calls of the database are repeated and a program is run   *)
(* again, what ycsb and tpcc leave in the table of results is one row for each  *)
(* result; and what latency leaves there.                                       *)
(* The results are exact: the totals of TPC-C by the aggregator's own proofs,   *)
(* those of YCSB by an invariant about its log and parser.                      *)
EXTENDS ResultsUpload, TpccAggregate_proofs

-----------------------------------------------------------------------------
(* The inductive invariant.                                                    *)

ParserFields == {"workload", "when", "count", "lists", "per", "cur", "title", "finished",
                 "results"}

\* A parser that keeps its results by the second, each with one of its lists.
ParserOK(p) ==
    /\ DOMAIN p = ParserFields
    /\ p.when \in Nat /\ DOMAIN p.results \in SUBSET Nat
    /\ p.lists \in Seq(Range(p.lists))
    /\ p.per \in 1 .. Len(p.lists)
    /\ \A i \in DOMAIN p.results : p.results[i].per \in 1 .. Len(p.lists)

LogOK ==
    /\ log \in Seq(Range(log))
    /\ \A i \in 1 .. Len(log) : "when" \in DOMAIN log[i] /\ log[i].when \in Nat

\* YCSB prints no line that the script prints.
OutOK ==
    /\ out \in Seq(Range(out))
    /\ \A i \in 1 .. Len(out) : out[i].kind # "header"

\* What the program reads.
InputOK ==
    /\ program \in {"ycsb", "tpcc", "latency"}
    /\ drop \in BOOLEAN
    /\ program = "ycsb" => format \in {"java", "cockroach", "go"} /\ ~drop
    /\ program = "tpcc" => dir \in [Instances -> InstanceData]
    /\ ParserOK(parser) /\ LogOK /\ OutOK /\ AggOK
    /\ kinds \in SUBSET Range(AllKinds)

Phases == {"idle", "drop", "create", "insert", "done", "failed", "raised"}

\* The keys of the rows that are to be inserted.
Keys == CASE program = "ycsb" -> DOMAIN parser.results
          [] program = "tpcc" -> {agg.total.start}
          [] program = "latency" -> {}

Todo == IF program = "latency" THEN kinds ELSE Keys

JobOK ==
    /\ DOMAIN job = {"phase", "left"} /\ job.phase \in Phases
    /\ job.phase # "idle" => InputReady
    /\ IF job.phase = "insert" THEN job.left \in SUBSET Todo ELSE job.left = {}
    /\ clock \in Nat /\ faults \in 0 .. MaxFaults

TableOK ==
    /\ DOMAIN table = {"exists", "rows"}
    /\ job.phase = "insert" => table.exists
    /\ job.phase = "idle" => table = before
    /\ before.exists => OldKey \in DOMAIN before.rows
    /\ DOMAIN before.rows \subseteq {OldKey}
    /\ job.phase = "drop" => drop
    /\ before.exists /\ ~drop => OldKey \in DOMAIN table.rows

KindRow(row) == \E kind \in kinds : row = [kind |-> kind]

\* No row but those of the results, and those of the results but what is left; of latency
\* the kind printed last is inserted last.
WrittenOK ==
    /\ program # "latency" =>
         \A key \in DOMAIN table.rows \ {OldKey} : key \in Keys /\ table.rows[key] = Rows[key]
    /\ job.phase \in {"insert", "done"} /\ program # "latency" =>
         Keys \ job.left \subseteq DOMAIN table.rows
    /\ program = "latency" => \A key \in DOMAIN table.rows \ {OldKey} : KindRow(table.rows[key])
    /\ job.phase = "insert" /\ program = "latency" /\ job.left # {} =>
         LastKind(kinds) \in job.left
    /\ job.phase \in {"insert", "done"} /\ program = "latency" /\ job.left = {} /\ kinds # {} =>
         clock \in DOMAIN table.rows /\ table.rows[clock] = [kind |-> LastKind(kinds)]

UploadInv == InputOK /\ JobOK /\ TableOK /\ WrittenOK

-----------------------------------------------------------------------------
(* Dictionaries, sequences and minima.                                         *)

LEMMA PutFacts ==
    ASSUME NEW dict, NEW key, NEW value
    PROVE  /\ DOMAIN Put(dict, key, value) = {key} \cup DOMAIN dict
           /\ Put(dict, key, value)[key] = value
           /\ \A k \in DOMAIN dict : k # key => Put(dict, key, value)[k] = dict[k]
  BY DEF Put

LEMMA AppendFacts ==
    ASSUME NEW s, s \in Seq(Range(s)), NEW e
    PROVE  /\ Append(s, e) \in Seq(Range(Append(s, e)))
           /\ Len(s) \in Nat /\ Len(Append(s, e)) = Len(s) + 1
           /\ \A i \in 1 .. Len(s) : Append(s, e)[i] = s[i]
           /\ Append(s, e)[Len(s) + 1] = e
<1>1. PICK S : S = Range(s) \cup {e}
  OBVIOUS
<1>2. s \in Seq(S) /\ e \in S
  <2>1. Len(s) \in Nat /\ DOMAIN s = 1 .. Len(s) /\ s = [i \in 1 .. Len(s) |-> s[i]]
    OBVIOUS
  <2>2. \A i \in 1 .. Len(s) : s[i] \in S
    BY <1>1, <2>1 DEF Range
  <2> QED
    BY <1>1, <2>1, <2>2
<1>3. PICK t : t = Append(s, e)
  OBVIOUS
<1>4. /\ t \in Seq(S) /\ Len(s) \in Nat /\ Len(t) = Len(s) + 1
      /\ \A i \in 1 .. Len(s) : t[i] = s[i]
      /\ t[Len(s) + 1] = e
  BY <1>2, <1>3
<1>5. t \in Seq(Range(t))
  <2>1. Len(t) \in Nat /\ DOMAIN t = 1 .. Len(t) /\ t = [i \in 1 .. Len(t) |-> t[i]]
    BY <1>4
  <2>2. \A i \in 1 .. Len(t) : t[i] \in Range(t)
    BY <2>1 DEF Range
  <2> QED
    BY <2>1, <2>2
<1> QED
  BY <1>3, <1>4, <1>5

\* A sequence stays one when an element of it is replaced.
LEMMA ReplaceFacts ==
    ASSUME NEW s, s \in Seq(Range(s)), NEW i \in 1 .. Len(s), NEW e
    PROVE  /\ [s EXCEPT ![i] = e] \in Seq(Range([s EXCEPT ![i] = e]))
           /\ Len([s EXCEPT ![i] = e]) = Len(s)
<1>1. PICK t : t = [s EXCEPT ![i] = e]
  OBVIOUS
<1>2. Len(s) \in Nat /\ DOMAIN s = 1 .. Len(s)
  OBVIOUS
<1>3. DOMAIN t = 1 .. Len(s) /\ t = [j \in 1 .. Len(s) |-> t[j]]
  BY <1>1, <1>2
<1>4. \A j \in 1 .. Len(s) : t[j] \in Range(t)
  BY <1>3 DEF Range
<1>5. t \in Seq(Range(t)) /\ Len(t) = Len(s)
  BY <1>2, <1>3, <1>4
<1> QED
  BY <1>1, <1>5

-----------------------------------------------------------------------------
(* The parser.                                                                 *)

LEMMA ParserSame ==
    ASSUME NEW p, ParserOK(p), NEW q, DOMAIN q = ParserFields, q.when = p.when,
           q.lists = p.lists, q.per = p.per, q.results = p.results
    PROVE  ParserOK(q)
  BY DEF ParserOK

LEMMA WithHostOK ==
    ASSUME NEW p, ParserOK(p)
    PROVE  ParserOK(WithHost(p))
<1>1. CASE p.cur.host = ""
  BY <1>1 DEF WithHost
<1>2. CASE p.cur.host # ""
  <2>1. PICK e : e = Append(p.lists[p.per], p.cur)
    OBVIOUS
  <2>2. PICK ls : ls = [p.lists EXCEPT ![p.per] = e]
    OBVIOUS
  <2>3. p.lists \in Seq(Range(p.lists)) /\ p.per \in 1 .. Len(p.lists)
    BY DEF ParserOK
  <2>4. ls \in Seq(Range(ls)) /\ Len(ls) = Len(p.lists)
    BY <2>2, <2>3, ReplaceFacts
  <2>5. WithHost(p) = [p EXCEPT !.lists = ls]
    BY <1>2, <2>1, <2>2 DEF WithHost
  <2>6. PICK q : q = WithHost(p)
    OBVIOUS
  <2>7. /\ DOMAIN q = ParserFields /\ q.lists = ls /\ q.per = p.per /\ q.when = p.when
        /\ q.results = p.results
    BY <2>5, <2>6 DEF ParserOK, ParserFields
  <2> QED
    BY <2>4, <2>6, <2>7 DEF ParserOK
<1> QED
  BY <1>1, <1>2

LEMMA AddWorkloadOK ==
    ASSUME NEW p, ParserOK(p)
    PROVE  ParserOK(AddWorkload(p))
<1>1. CASE p.workload = "" \/ Aggregated(p).maxTime = 0
  BY <1>1 DEF AddWorkload
<1>2. CASE ~(p.workload = "" \/ Aggregated(p).maxTime = 0)
  <2>1. PICK total : total = Aggregated(p)
    OBVIOUS
  <2>2. total.per = p.per
    BY <2>1 DEF Aggregated
  <2>3. PICK results : results = Put(p.results, p.when, total)
    OBVIOUS
  <2>4. /\ DOMAIN results = {p.when} \cup DOMAIN p.results /\ results[p.when] = total
        /\ \A i \in DOMAIN p.results : i # p.when => results[i] = p.results[i]
    <3>1. PICK dict : dict = p.results
      OBVIOUS
    <3>2. PICK key : key = p.when
      OBVIOUS
    <3>3. results = Put(dict, key, total)
      BY <2>3, <3>1, <3>2
    <3>4. /\ DOMAIN results = {key} \cup DOMAIN dict /\ results[key] = total
          /\ \A i \in DOMAIN dict : i # key => results[i] = dict[i]
      BY <3>3 DEF Put
    <3> QED
      BY <3>1, <3>2, <3>4
  <2>5. PICK q : q = AddWorkload(p)
    OBVIOUS
  <2>6. q = [p EXCEPT !.results = results]
    BY <1>2, <2>1, <2>3, <2>5 DEF AddWorkload
  <2>7. /\ DOMAIN q = ParserFields /\ q.lists = p.lists /\ q.per = p.per /\ q.when = p.when
        /\ q.results = results
    BY <2>6 DEF ParserOK, ParserFields
  <2>8. DOMAIN results \in SUBSET Nat
    BY <2>4 DEF ParserOK
  <2>9. \A i \in DOMAIN results : results[i].per \in 1 .. Len(p.lists)
    BY <2>2, <2>4 DEF ParserOK
  <2> QED
    BY <2>5, <2>7, <2>8, <2>9 DEF ParserOK
<1> QED
  BY <1>1, <1>2

LEMMA HeaderOK ==
    ASSUME NEW p, ParserOK(p), NEW line, line.when \in Nat
    PROVE  ParserOK(Header(p, line))
<1>1. PICK ls : ls = Append(p.lists, <<>>)
  OBVIOUS
<1>2. /\ p.lists \in Seq(Range(p.lists)) /\ Len(p.lists) \in Nat
      /\ ls \in Seq(Range(ls)) /\ Len(ls) = Len(p.lists) + 1
  BY <1>1, AppendFacts DEF ParserOK
<1>3. PICK q : q = Header(p, line)
  OBVIOUS
<1>4. /\ DOMAIN q = ParserFields /\ q.lists = ls /\ q.per = Len(p.lists) + 1
      /\ q.when = line.when /\ q.results = p.results
  BY <1>1, <1>3 DEF Header, ParserOK, ParserFields
<1>5. /\ q.per \in 1 .. Len(ls)
      /\ \A i \in 1 .. Len(p.lists) : i \in 1 .. Len(ls)
  BY <1>2, <1>4
<1> QED
  BY <1>2, <1>3, <1>4, <1>5 DEF ParserOK

LEMMA HostLineOK ==
    ASSUME NEW p, ParserOK(p), NEW line
    PROVE  ParserOK(HostLine(p, line))
<1>1. PICK w : w = WithHost(p)
  OBVIOUS
<1>2. PICK q : q = HostLine(p, line)
  OBVIOUS
<1>3. ParserOK(w)
  BY <1>1, WithHostOK
<1>4. /\ DOMAIN q = ParserFields /\ q.lists = w.lists /\ q.per = w.per /\ q.when = w.when
      /\ q.results = w.results
  BY <1>1, <1>2, <1>3 DEF HostLine, ParserOK, ParserFields
<1> QED
  BY <1>2, <1>3, <1>4, ParserSame

LEMMA DoneLineOK ==
    ASSUME NEW p, ParserOK(p)
    PROVE  ParserOK(DoneLine(p))
<1>1. PICK w : w = AddWorkload(WithHost(p))
  OBVIOUS
<1>2. PICK q : q = DoneLine(p)
  OBVIOUS
<1>3. ParserOK(w)
  BY <1>1, WithHostOK, AddWorkloadOK
<1>4. /\ DOMAIN q = ParserFields /\ q.lists = w.lists /\ q.per = w.per /\ q.when = w.when
      /\ q.results = w.results
  BY <1>1, <1>2, <1>3 DEF DoneLine, ParserOK, ParserFields
<1> QED
  BY <1>2, <1>3, <1>4, ParserSame

LEMMA CommonOK ==
    ASSUME NEW p, ParserOK(p), NEW line, line.kind = "header" => line.when \in Nat
    PROVE  ParserOK(Common(p, line))
<1>1. CASE line.kind = "header" /\ CountMatches(line.count)
  BY <1>1, HeaderOK DEF Common
<1>2. CASE line.kind = "host"
  BY <1>2, HostLineOK DEF Common
<1>3. CASE line.kind = "done"
  BY <1>3, DoneLineOK DEF Common
<1>4. CASE /\ ~(line.kind = "header" /\ CountMatches(line.count))
           /\ line.kind # "host" /\ line.kind # "done"
  BY <1>4 DEF Common
<1> QED
  BY <1>1, <1>2, <1>3, <1>4

\* A line of figures, whatever they are, changes the current result only.
LEMMA FigureOK ==
    ASSUME NEW p, ParserOK(p), NEW q, DOMAIN q = ParserFields,
           \A field \in ParserFields \ {"cur", "title", "finished"} : q[field] = p[field]
    PROVE  ParserOK(q)
  BY ParserSame DEF ParserFields

LEMMA ParseJavaOK ==
    ASSUME NEW p, ParserOK(p), NEW line, line.kind = "header" => line.when \in Nat
    PROVE  ParserOK(ParseJava(p, line))
<1>1. CASE line.kind = "time"
  <2>1. PICK c : c = [p.cur EXCEPT !.time = line.value]
    OBVIOUS
  <2>2. PICK q : q = ParseJava(p, line)
    OBVIOUS
  <2>3. q = [p EXCEPT !.cur = c]
    BY <1>1, <2>1, <2>2 DEF ParseJava
  <2>4. /\ DOMAIN q = ParserFields
        /\ \A field \in ParserFields \ {"cur", "title", "finished"} : q[field] = p[field]
    BY <2>3 DEF ParserOK, ParserFields
  <2> QED
    BY <2>2, <2>4, FigureOK
<1>2. CASE line.kind = "thr"
  <2>1. PICK c : c = [p.cur EXCEPT !.thr = line.value]
    OBVIOUS
  <2>2. PICK q : q = ParseJava(p, line)
    OBVIOUS
  <2>3. q = [p EXCEPT !.cur = c]
    BY <1>2, <2>1, <2>2 DEF ParseJava
  <2>4. /\ DOMAIN q = ParserFields
        /\ \A field \in ParserFields \ {"cur", "title", "finished"} : q[field] = p[field]
    BY <2>3 DEF ParserOK, ParserFields
  <2> QED
    BY <2>2, <2>4, FigureOK
<1>3. CASE line.kind = "latency"
  <2>1. PICK c : c = [p.cur EXCEPT !.latency = Max({p.cur.latency, line.value})]
    OBVIOUS
  <2>2. PICK q : q = ParseJava(p, line)
    OBVIOUS
  <2>3. q = [p EXCEPT !.cur = c]
    BY <1>3, <2>1, <2>2 DEF ParseJava
  <2>4. /\ DOMAIN q = ParserFields
        /\ \A field \in ParserFields \ {"cur", "title", "finished"} : q[field] = p[field]
    BY <2>3 DEF ParserOK, ParserFields
  <2> QED
    BY <2>2, <2>4, FigureOK
<1>4. CASE line.kind = "errors"
  <2>1. PICK c : c = [p.cur EXCEPT !.errors = line.value]
    OBVIOUS
  <2>2. PICK q : q = ParseJava(p, line)
    OBVIOUS
  <2>3. q = [p EXCEPT !.cur = c]
    BY <1>4, <2>1, <2>2 DEF ParseJava
  <2>4. /\ DOMAIN q = ParserFields
        /\ \A field \in ParserFields \ {"cur", "title", "finished"} : q[field] = p[field]
    BY <2>3 DEF ParserOK, ParserFields
  <2> QED
    BY <2>2, <2>4, FigureOK
<1>5. CASE line.kind \notin {"time", "thr", "latency", "errors"}
  <2>1. ParseJava(p, line) = Common(p, line)
    BY <1>5 DEF ParseJava
  <2> QED
    BY <2>1, CommonOK
<1> QED
  BY <1>1, <1>2, <1>3, <1>4, <1>5

LEMMA ParseCockroachOK ==
    ASSUME NEW p, ParserOK(p), NEW line, line.kind = "header" => line.when \in Nat
    PROVE  ParserOK(ParseCockroach(p, line))
<1>1. CASE p.title
  <2>1. PICK c : c = [line.value EXCEPT !.host = p.cur.host]
    OBVIOUS
  <2>2. PICK q : q = ParseCockroach(p, line)
    OBVIOUS
  <2>3. q = [p EXCEPT !.title = FALSE, !.cur = c]
    BY <1>1, <2>1, <2>2 DEF ParseCockroach
  <2>4. /\ DOMAIN q = ParserFields
        /\ \A field \in ParserFields \ {"cur", "title", "finished"} : q[field] = p[field]
    BY <2>3 DEF ParserOK, ParserFields
  <2> QED
    BY <2>2, <2>4, FigureOK
<1>2. CASE ~p.title /\ line.kind = "title"
  <2>1. PICK q : q = ParseCockroach(p, line)
    OBVIOUS
  <2>2. q = [p EXCEPT !.title = TRUE]
    BY <1>2, <2>1 DEF ParseCockroach
  <2>3. /\ DOMAIN q = ParserFields
        /\ \A field \in ParserFields \ {"cur", "title", "finished"} : q[field] = p[field]
    BY <2>2 DEF ParserOK, ParserFields
  <2> QED
    BY <2>1, <2>3, FigureOK
<1>3. CASE ~p.title /\ line.kind # "title"
  <2>1. ParseCockroach(p, line) = Common(p, line)
    BY <1>3 DEF ParseCockroach
  <2> QED
    BY <2>1, CommonOK
<1> QED
  BY <1>1, <1>2, <1>3

LEMMA ParseGoOK ==
    ASSUME NEW p, ParserOK(p), NEW line, line.kind = "header" => line.when \in Nat
    PROVE  ParserOK(ParseGo(p, line))
<1>1. CASE line.kind = "time"
  <2>1. PICK c : c = [p.cur EXCEPT !.time = line.value]
    OBVIOUS
  <2>2. PICK q : q = ParseGo(p, line)
    OBVIOUS
  <2>3. q = [p EXCEPT !.cur = c, !.finished = TRUE]
    BY <1>1, <2>1, <2>2 DEF ParseGo
  <2>4. /\ DOMAIN q = ParserFields
        /\ \A field \in ParserFields \ {"cur", "title", "finished"} : q[field] = p[field]
    BY <2>3 DEF ParserOK, ParserFields
  <2> QED
    BY <2>2, <2>4, FigureOK
<1>2. CASE p.finished /\ line.kind = "errors"
  <2>1. PICK c : c = [p.cur EXCEPT !.errors = p.cur.errors + line.value]
    OBVIOUS
  <2>2. PICK q : q = ParseGo(p, line)
    OBVIOUS
  <2>3. q = [p EXCEPT !.cur = c]
    BY <1>2, <2>1, <2>2 DEF ParseGo
  <2>4. /\ DOMAIN q = ParserFields
        /\ \A field \in ParserFields \ {"cur", "title", "finished"} : q[field] = p[field]
    BY <2>3 DEF ParserOK, ParserFields
  <2> QED
    BY <2>2, <2>4, FigureOK
<1>3. CASE p.finished /\ line.kind = "total"
  <2>1. PICK c : c = [p.cur EXCEPT !.thr = line.value.thr, !.latency = line.value.latency]
    OBVIOUS
  <2>2. PICK q : q = ParseGo(p, line)
    OBVIOUS
  <2>3. q = [p EXCEPT !.cur = c]
    BY <1>3, <2>1, <2>2 DEF ParseGo
  <2>4. /\ DOMAIN q = ParserFields
        /\ \A field \in ParserFields \ {"cur", "title", "finished"} : q[field] = p[field]
    BY <2>3 DEF ParserOK, ParserFields
  <2> QED
    BY <2>2, <2>4, FigureOK
<1>4. CASE p.finished /\ line.kind \notin {"time", "errors", "total"}
  <2>1. ParseGo(p, line) = p
    BY <1>4 DEF ParseGo
  <2> QED
    BY <2>1
<1>5. CASE ~p.finished /\ line.kind # "time"
  <2>1. ParseGo(p, line) = Common(p, line)
    BY <1>5 DEF ParseGo
  <2> QED
    BY <2>1, CommonOK
<1> QED
  BY <1>1, <1>2, <1>3, <1>4, <1>5

LEMMA ParseOK ==
    ASSUME NEW p, ParserOK(p), format \in {"java", "cockroach", "go"},
           NEW line, line.kind = "header" => line.when \in Nat
    PROVE  ParserOK(Parse(p, line))
<1>1. CASE format = "java"
  BY <1>1, ParseJavaOK DEF Parse
<1>2. CASE format = "cockroach"
  BY <1>2, ParseCockroachOK DEF Parse
<1>3. CASE format = "go"
  BY <1>3, ParseGoOK DEF Parse
<1> QED
  BY <1>1, <1>2, <1>3

-----------------------------------------------------------------------------
(* The log.                                                                    *)

LEMMA RangeFacts ==
    ASSUME NEW S, NEW s \in Seq(S)
    PROVE  s \in Seq(Range(s)) /\ Len(s) \in Nat /\ \A i \in 1 .. Len(s) : s[i] \in S
<1>1. Len(s) \in Nat /\ DOMAIN s = 1 .. Len(s) /\ s = [i \in 1 .. Len(s) |-> s[i]]
  OBVIOUS
<1>2. \A i \in 1 .. Len(s) : s[i] \in Range(s)
  BY <1>1 DEF Range
<1> QED
  BY <1>1, <1>2

\* The last run of the log changes, but not the second in which it began.
LEMMA LastRunOK ==
    ASSUME LogOK, log # <<>>, NEW e, "when" \in DOMAIN e, e.when \in Nat,
           log' = [log EXCEPT ![Len(log)] = e]
    PROVE  LogOK'
<1>1. PICK t : t = log
  OBVIOUS
<1>2. t \in Seq(Range(t)) /\ Len(t) \in 1 .. Len(t) /\ DOMAIN t = 1 .. Len(t)
  BY <1>1 DEF LogOK
<1>3. PICK u : u = [t EXCEPT ![Len(t)] = e]
  OBVIOUS
<1>4. u \in Seq(Range(u)) /\ Len(u) = Len(t)
  BY <1>2, <1>3, ReplaceFacts
<1>5. \A i \in 1 .. Len(t) : u[i] = IF i = Len(t) THEN e ELSE t[i]
  BY <1>2, <1>3
<1>6. \A i \in 1 .. Len(u) : "when" \in DOMAIN u[i] /\ u[i].when \in Nat
  BY <1>1, <1>4, <1>5 DEF LogOK
<1>7. log' = u
  BY <1>1, <1>3
<1> QED
  BY <1>4, <1>6, <1>7 DEF LogOK

LEMMA RunFacts ==
    ASSUME LogOK, log # <<>>
    PROVE  "when" \in DOMAIN Run /\ Run.when \in Nat /\ Run = log[Len(log)]
<1>1. Len(log) \in 1 .. Len(log)
  BY DEF LogOK
<1> QED
  BY <1>1 DEF LogOK, Run

LEMMA OutputOK ==
    ASSUME format \in {"java", "cockroach", "go"}, NEW r
    PROVE  \E S : Output(r) \in Seq(S) /\ \A line \in S : line.kind # "header"
<1>1. CASE format = "java"
  <2>1. PICK a : a = [kind |-> "time", value |-> r.time]
    OBVIOUS
  <2>2. PICK b : b = [kind |-> "thr", value |-> r.thr]
    OBVIOUS
  <2>3. PICK c : c = [kind |-> "latency", value |-> r.latency]
    OBVIOUS
  <2>4. PICK d : d = [kind |-> "latency", value |-> 1]
    OBVIOUS
  <2>5. PICK e : e = [kind |-> "errors", value |-> r.errors]
    OBVIOUS
  <2>6. Output(r) = <<a, b, c, d, e>>
    BY <1>1, <2>1, <2>2, <2>3, <2>4, <2>5 DEF Output
  <2>7. Output(r) \in Seq({a, b, c, d, e})
    BY <2>6
  <2>8. \A line \in {a, b, c, d, e} : line.kind # "header"
    BY <2>1, <2>2, <2>3, <2>4, <2>5
  <2> QED
    BY <2>7, <2>8
<1>2. CASE format = "cockroach"
  <2>1. PICK a : a = [kind |-> "title"]
    OBVIOUS
  <2>0. PICK v : v = Put(r, "host", "")
    OBVIOUS
  <2>2. PICK b : b = [kind |-> "values", value |-> v]
    OBVIOUS
  <2>3. Output(r) = <<a, b>>
    BY <1>2, <2>0, <2>1, <2>2 DEF Output
  <2>4. Output(r) \in Seq({a, b})
    BY <2>3
  <2>5. \A line \in {a, b} : line.kind # "header"
    BY <2>1, <2>2
  <2> QED
    BY <2>4, <2>5
<1>3. CASE format = "go"
  <2>1. PICK a : a = [kind |-> "time", value |-> r.time]
    OBVIOUS
  <2>2. PICK b : b = [kind |-> "errors", value |-> r.errors]
    OBVIOUS
  <2>3. PICK c : c = [kind |-> "total", value |-> r]
    OBVIOUS
  <2>4. Output(r) = <<a, b, c>>
    BY <1>3, <2>1, <2>2, <2>3 DEF Output
  <2>5. Output(r) \in Seq({a, b, c})
    BY <2>4
  <2>6. \A line \in {a, b, c} : line.kind # "header"
    BY <2>1, <2>2, <2>3
  <2> QED
    BY <2>5, <2>6
<1> QED
  BY <1>1, <1>2, <1>3

LEMMA OutIsOK ==
    ASSUME NEW S, out' \in Seq(S), \A line \in S : line.kind # "header"
    PROVE  OutOK'
<1>1. PICK t : t = out'
  OBVIOUS
<1>2. t \in Seq(Range(t)) /\ \A i \in 1 .. Len(t) : t[i] \in S
  BY <1>1, RangeFacts
<1> QED
  BY <1>1, <1>2 DEF OutOK

-----------------------------------------------------------------------------
(* The steps of the log and its parser.                                        *)

YcsbOK == /\ format \in {"java", "cockroach", "go"}
          /\ ParserOK(parser) /\ LogOK /\ OutOK

LEMMA ReadsOK ==
    ASSUME YcsbOK, NEW line, line.kind = "header" => line.when \in Nat, Reads(line)
    PROVE  ParserOK(parser')
<1>1. ParserOK(Parse(parser, line))
  BY ParseOK DEF YcsbOK
<1> QED
  BY <1>1 DEF Reads

LEMMA YcsbStep ==
    ASSUME YcsbOK, YcsbNext
    PROVE  YcsbOK'
<1>1. ASSUME NEW n, NEW pause \in {0, 1}, StartWorkload(n, pause) PROVE YcsbOK'
  <2>1. PICK w : w = (IF log = <<>> THEN 1 ELSE Run.when + pause)
    OBVIOUS
  <2>2. w \in Nat
    <3>1. CASE log = <<>>
      BY <2>1, <3>1
    <3>2. CASE log # <<>>
      BY <2>1, <3>2, RunFacts DEF YcsbOK
    <3> QED
      BY <3>1, <3>2
  <2>3. PICK e : e = [workload |-> Workloads[Len(log) + 1], when |-> w, count |-> n,
                      good |-> <<>>, dirty |-> FALSE, done |-> FALSE]
    OBVIOUS
  <2>4. "when" \in DOMAIN e /\ e.when = w
    BY <2>3
  <2>5. log' = Append(log, e) /\ UNCHANGED <<format, out>>
    BY <1>1, <2>1, <2>3 DEF StartWorkload
  <2>6. LogOK'
    <3>1. PICK s : s = log
      OBVIOUS
    <3>2. s \in Seq(Range(s))
      BY <3>1 DEF YcsbOK, LogOK
    <3>3. PICK t : t = Append(s, e)
      OBVIOUS
    <3>4. /\ t \in Seq(Range(t)) /\ Len(s) \in Nat /\ Len(t) = Len(s) + 1
          /\ \A i \in 1 .. Len(s) : t[i] = s[i]
          /\ t[Len(s) + 1] = e
      BY <3>2, <3>3, AppendFacts
    <3>5. \A i \in 1 .. Len(s) : "when" \in DOMAIN s[i] /\ s[i].when \in Nat
      BY <3>1 DEF YcsbOK, LogOK
    <3>6. \A i \in 1 .. Len(t) : "when" \in DOMAIN t[i] /\ t[i].when \in Nat
      <4>1. TAKE i \in 1 .. Len(t)
      <4>2. CASE i = Len(s) + 1
        BY <2>2, <2>4, <3>4, <4>2
      <4>3. CASE i # Len(s) + 1
        <5>1. i \in 1 .. Len(s)
          BY <3>4, <4>3
        <5> QED
          BY <3>4, <3>5, <5>1
      <4> QED
        BY <4>2, <4>3
    <3>7. log' = t
      BY <2>5, <3>1, <3>3
    <3> QED
      BY <3>4, <3>6, <3>7 DEF LogOK
  <2>7. PICK line : line = [kind |-> "header", workload |-> Workloads[Len(log) + 1],
                            when |-> w, count |-> n]
    OBVIOUS
  <2>8. Reads(line)
    BY <1>1, <2>1, <2>7 DEF StartWorkload
  <2>9. ParserOK(parser')
    BY <2>2, <2>7, <2>8, ReadsOK
  <2> QED
    BY <2>5, <2>6, <2>9 DEF YcsbOK, OutOK
<1>2. ASSUME NEW h, NEW r, HostSucceeds(h, r) PROVE YcsbOK'
  <2>1. log # <<>> /\ out' = Output(r) /\ UNCHANGED format
    BY <1>2 DEF HostSucceeds, InWorkload
  <2>2. PICK g : g = Put(Run.good, h, r)
    OBVIOUS
  <2>3. PICK e : e = [Run EXCEPT !.good = g]
    OBVIOUS
  <2>4. /\ Len(log) \in DOMAIN log
        /\ log[Len(log)] = Run
    BY <2>1, RunFacts DEF YcsbOK, LogOK
  <2>5. log' = [log EXCEPT ![Len(log)] = e]
    BY <1>2, <2>2, <2>3, <2>4 DEF HostSucceeds
  <2>6. "when" \in DOMAIN e /\ e.when \in Nat
    BY <2>1, <2>3, RunFacts DEF YcsbOK
  <2>7. LogOK'
    BY <2>1, <2>5, <2>6, LastRunOK DEF YcsbOK
  <2>8. OutOK'
    BY <2>1, OutputOK, OutIsOK DEF YcsbOK
  <2>9. PICK line : line = [kind |-> "host", host |-> h]
    OBVIOUS
  <2>10. Reads(line)
    BY <1>2, <2>9 DEF HostSucceeds
  <2>11. ParserOK(parser')
    BY <2>9, <2>10, ReadsOK
  <2> QED
    BY <2>1, <2>7, <2>8, <2>11 DEF YcsbOK
<1>3. ASSUME NEW h, NEW lines, HostFails(h, lines),
             \E S : lines \in Seq(S) /\ \A line \in S : line.kind # "header"
      PROVE  YcsbOK'
  <2>1. log # <<>> /\ out' = lines /\ UNCHANGED <<format, parser>>
    BY <1>3 DEF HostFails, InWorkload
  <2>2. PICK d : d = (Run.dirty \/ (lines # <<>> /\ (Run.good # <<>> \/ format = "go")))
    OBVIOUS
  <2>3. PICK e : e = [Run EXCEPT !.dirty = d]
    OBVIOUS
  <2>4. Len(log) \in DOMAIN log /\ log[Len(log)] = Run
    BY <2>1, RunFacts DEF YcsbOK, LogOK
  <2>5. log' = [log EXCEPT ![Len(log)] = e]
    BY <1>3, <2>2, <2>3, <2>4 DEF HostFails
  <2>6. "when" \in DOMAIN e /\ e.when \in Nat
    BY <2>1, <2>3, RunFacts DEF YcsbOK
  <2>7. LogOK'
    BY <2>1, <2>5, <2>6, LastRunOK DEF YcsbOK
  <2>8. OutOK'
    BY <1>3, <2>1, OutIsOK
  <2> QED
    BY <2>1, <2>7, <2>8 DEF YcsbOK
<1>4. CASE PrintLine
  <2>1. PICK o : o = out
    OBVIOUS
  <2>2. PICK S : S = {line \in Range(o) : line.kind # "header"}
    OBVIOUS
  <2>3. /\ o # <<>> /\ o \in Seq(Range(o)) /\ DOMAIN o = 1 .. Len(o) /\ Len(o) \in Nat
        /\ \A i \in 1 .. Len(o) : o[i].kind # "header"
    BY <1>4, <2>1 DEF PrintLine, YcsbOK, OutOK
  <2>4. \A i \in 1 .. Len(o) : o[i] \in S
    BY <2>2, <2>3 DEF Range
  <2>5. o \in Seq(S)
    <3>1. o = [i \in 1 .. Len(o) |-> o[i]]
      BY <2>3
    <3> QED
      BY <2>3, <2>4, <3>1
  <2>6. Head(o) \in S /\ Tail(o) \in Seq(S)
    BY <2>3, <2>5
  <2>7. \A line \in S : line.kind # "header"
    BY <2>2
  <2>8. out' = Tail(o) /\ Reads(Head(o)) /\ UNCHANGED <<format, log>>
    BY <1>4, <2>1 DEF PrintLine
  <2>9. OutOK'
    BY <2>6, <2>7, <2>8, OutIsOK
  <2>10. PICK line : line = Head(o)
    OBVIOUS
  <2>11. Reads(line) /\ line.kind # "header"
    BY <2>6, <2>7, <2>8, <2>10
  <2>12. ParserOK(parser')
    BY <2>11, ReadsOK
  <2> QED
    BY <2>8, <2>9, <2>12 DEF YcsbOK, LogOK
<1>5. CASE WorkloadDone
  <2>1. log # <<>> /\ UNCHANGED <<format, out>>
    BY <1>5 DEF WorkloadDone, InWorkload
  <2>2. PICK e : e = [Run EXCEPT !.done = TRUE]
    OBVIOUS
  <2>3. Len(log) \in DOMAIN log /\ log[Len(log)] = Run
    BY <2>1, RunFacts DEF YcsbOK, LogOK
  <2>4. log' = [log EXCEPT ![Len(log)] = e]
    BY <1>5, <2>2, <2>3 DEF WorkloadDone
  <2>5. "when" \in DOMAIN e /\ e.when \in Nat
    BY <2>1, <2>2, RunFacts DEF YcsbOK
  <2>6. LogOK'
    BY <2>1, <2>4, <2>5, LastRunOK DEF YcsbOK
  <2>7. PICK line : line = [kind |-> "done"]
    OBVIOUS
  <2>8. Reads(line)
    BY <1>5, <2>7 DEF WorkloadDone
  <2>9. ParserOK(parser')
    BY <2>7, <2>8, ReadsOK
  <2> QED
    BY <2>1, <2>6, <2>9 DEF YcsbOK, OutOK
<1>6. CASE ScriptEnds
  <2>1. log # <<>> /\ out' = <<>> /\ UNCHANGED <<format, parser>>
    BY <1>6 DEF ScriptEnds
  <2>2. PICK d : d = (Run.dirty \/ out # <<>>)
    OBVIOUS
  <2>3. PICK e : e = [Run EXCEPT !.dirty = d]
    OBVIOUS
  <2>4. Len(log) \in DOMAIN log /\ log[Len(log)] = Run
    BY <2>1, RunFacts DEF YcsbOK, LogOK
  <2>5. log' = [log EXCEPT ![Len(log)] = e]
    BY <1>6, <2>2, <2>3, <2>4 DEF ScriptEnds
  <2>6. "when" \in DOMAIN e /\ e.when \in Nat
    BY <2>1, <2>3, RunFacts DEF YcsbOK
  <2>7. LogOK'
    BY <2>1, <2>5, <2>6, LastRunOK DEF YcsbOK
  <2>8. <<>> \in Seq({})
    OBVIOUS
  <2>9. OutOK'
    BY <2>1, <2>8, OutIsOK
  <2> QED
    BY <2>1, <2>7, <2>9 DEF YcsbOK
<1>7. CASE ParseEnds
  <2>1. ParserOK(EndOfFile(parser))
    BY WithHostOK, AddWorkloadOK DEF YcsbOK, EndOfFile
  <2>2. parser' = EndOfFile(parser) /\ UNCHANGED <<format, out, log>>
    BY <1>7 DEF ParseEnds
  <2> QED
    BY <2>1, <2>2 DEF YcsbOK, LogOK, OutOK
<1>8. ASSUME NEW h, NEW r, HostFails(h, Output(r)) PROVE YcsbOK'
  <2>1. PICK lines : lines = Output(r)
    OBVIOUS
  <2>2. \E S : lines \in Seq(S) /\ \A line \in S : line.kind # "header"
    BY <2>1, OutputOK DEF YcsbOK
  <2> QED
    BY <1>3, <1>8, <2>1, <2>2
<1>9. ASSUME NEW h, HostFails(h, <<>>) PROVE YcsbOK'
  <2>1. PICK lines : lines = <<>>
    OBVIOUS
  <2>2. lines \in Seq({}) /\ \A line \in {} : line.kind # "header"
    BY <2>1
  <2>3. \E S : lines \in Seq(S) /\ \A line \in S : line.kind # "header"
    BY <2>2
  <2>4. HostFails(h, lines)
    BY <1>9, <2>1
  <2> QED
    BY <1>3, <2>3, <2>4
<1> QED
  BY <1>1, <1>2, <1>4, <1>5, <1>6, <1>7, <1>8, <1>9 DEF YcsbNext

-----------------------------------------------------------------------------
(* What the steps of the upload have in common.                                *)

LEMMA SameOK ==
    ASSUME InputOK, Same
    PROVE  /\ InputOK' /\ Keys' = Keys /\ Todo' = Todo /\ Rows' = Rows
           /\ InputReady' = InputReady
           /\ program' = program /\ drop' = drop /\ kinds' = kinds /\ before' = before
           /\ LastKind(kinds)' = LastKind(kinds) /\ \A row : KindRow(row)' <=> KindRow(row)
<1>1. /\ UNCHANGED <<format, stage, running, out, log, parser, dir, agg>>
      /\ UNCHANGED <<program, drop, kinds, before>>
  BY DEF Same, ycsbVars, aggVars
<1>2. InputOK'
  BY <1>1 DEF InputOK, LogOK, OutOK, AggOK
<1>3. Keys' = Keys /\ InputReady' = InputReady
  BY <1>1 DEF Keys, InputReady
<1>4. Todo' = Todo
  BY <1>1, <1>3 DEF Todo
<1>5. Rows' = Rows
  BY <1>1 DEF Rows, TpccRow
<1>6. LastKind(kinds)' = LastKind(kinds) /\ \A row : KindRow(row)' <=> KindRow(row)
  BY <1>1 DEF LastKind, KindRow
<1> QED
  BY <1>1, <1>2, <1>3, <1>4, <1>5, <1>6

\* The kinds that are printed first and last.
LEMMA FirstKindFacts ==
    ASSUME NEW S \in SUBSET Range(AllKinds), S # {}
    PROVE  FirstKind(S) \in S /\ \A other \in S : NotAfter(FirstKind(S), other)
<1>1. AllKinds \in Seq(Range(AllKinds)) /\ Len(AllKinds) \in Nat
      /\ DOMAIN AllKinds = 1 .. Len(AllKinds)
  BY UploadAssumption
<1>2. PICK I \in SUBSET Nat : I = {i \in DOMAIN AllKinds : AllKinds[i] \in S}
  <2>1. {i \in DOMAIN AllKinds : AllKinds[i] \in S} \in SUBSET Nat
    BY <1>1
  <2> QED
    BY <2>1
<1>3. \A kind \in S : \E i \in I : AllKinds[i] = kind
  BY <1>2 DEF Range
<1>4. PICK n \in I : \A i \in I : n <= i
  BY <1>3, MinFacts
<1>5. PICK first : first = AllKinds[n]
  OBVIOUS
<1>6. first \in S /\ \A other \in S : NotAfter(first, other)
  BY <1>2, <1>3, <1>4, <1>5 DEF NotAfter
<1> QED
  BY <1>6 DEF FirstKind

LEMMA LastKindFacts ==
    ASSUME NEW S \in SUBSET Range(AllKinds), S # {}
    PROVE  LastKind(S) \in S /\ \A other \in S : NotAfter(other, LastKind(S))
<1>1. AllKinds \in Seq(Range(AllKinds)) /\ Len(AllKinds) \in Nat
      /\ DOMAIN AllKinds = 1 .. Len(AllKinds)
  BY UploadAssumption
<1>2. PICK I \in SUBSET Nat : I = {i \in 0 .. Len(AllKinds) - 1 : AllKinds[Len(AllKinds) - i] \in S}
  <2>1. {i \in 0 .. Len(AllKinds) - 1 : AllKinds[Len(AllKinds) - i] \in S} \in SUBSET Nat
    BY <1>1
  <2> QED
    BY <2>1
<1>3. \A kind \in S : \E i \in I : AllKinds[Len(AllKinds) - i] = kind
  <2>1. SUFFICES ASSUME NEW kind \in S
                 PROVE  \E i \in I : AllKinds[Len(AllKinds) - i] = kind
    OBVIOUS
  <2>2. PICK j \in DOMAIN AllKinds : AllKinds[j] = kind
    BY DEF Range
  <2>3. PICK i : i = Len(AllKinds) - j
    OBVIOUS
  <2>4. i \in 0 .. Len(AllKinds) - 1 /\ Len(AllKinds) - i = j
    BY <1>1, <2>2, <2>3
  <2> QED
    BY <1>2, <2>2, <2>4
<1>4. PICK n \in I : \A i \in I : n <= i
  BY <1>3, MinFacts
<1>5. PICK last : last = AllKinds[Len(AllKinds) - n]
  OBVIOUS
<1>6. last \in S
  BY <1>2, <1>5
<1>7. \A other \in S : NotAfter(other, last)
  <2>1. SUFFICES ASSUME NEW other \in S PROVE NotAfter(other, last)
    OBVIOUS
  <2>2. PICK i \in I : AllKinds[Len(AllKinds) - i] = other
    BY <1>3
  <2>3. n <= i /\ i \in 0 .. Len(AllKinds) - 1 /\ n \in 0 .. Len(AllKinds) - 1
    BY <1>2, <1>4
  <2>4. PICK a, b : a = Len(AllKinds) - i /\ b = Len(AllKinds) - n
    OBVIOUS
  <2>5. a \in DOMAIN AllKinds /\ b \in DOMAIN AllKinds /\ a <= b
    BY <1>1, <2>3, <2>4
  <2> QED
    BY <1>5, <2>2, <2>4, <2>5 DEF NotAfter
<1> QED
  BY <1>6, <1>7 DEF LastKind

\* The kinds of a benchmark are printed once each.
LEMMA SameKind ==
    ASSUME NEW kind, NEW other, NotAfter(kind, other), NotAfter(other, kind)
    PROVE  kind = other
<1>1. PICK i, j \in DOMAIN AllKinds : i <= j /\ AllKinds[i] = kind /\ AllKinds[j] = other
  BY DEF NotAfter
<1>2. PICK k, l \in DOMAIN AllKinds : k <= l /\ AllKinds[k] = other /\ AllKinds[l] = kind
  BY DEF NotAfter
<1>3. i = l /\ j = k
  BY <1>1, <1>2, UploadAssumption
<1>4. i \in Nat /\ j \in Nat
  BY UploadAssumption
<1>5. i = j
  BY <1>1, <1>2, <1>3, <1>4
<1> QED
  BY <1>1, <1>5

LEMMA KeysFacts ==
    ASSUME InputOK, InputReady
    PROVE  Keys \in SUBSET Nat /\ DOMAIN Rows = Keys
<1>1. CASE program = "ycsb"
  <2>1. Keys = DOMAIN parser.results /\ DOMAIN parser.results \in SUBSET Nat
    BY <1>1 DEF Keys, InputOK, ParserOK
  <2>2. Rows = [i \in DOMAIN parser.results |-> YcsbRow(parser.results[i])]
    BY <1>1 DEF Rows
  <2> QED
    BY <2>1, <2>2
<1>2. CASE program = "tpcc"
  <2>1. Keys = {agg.total.start} /\ agg.total.start \in Nat
    BY <1>2 DEF Keys, InputOK, InputReady, AggOK
  <2>2. Rows = [start \in {agg.total.start} |-> TpccRow]
    BY <1>2 DEF Rows
  <2> QED
    BY <2>1, <2>2
<1>3. CASE program = "latency"
  BY <1>3 DEF Keys, Rows
<1> QED
  BY <1>1, <1>2, <1>3 DEF InputOK

\* One row is written, the others stay.
LEMMA UpsertFacts ==
    ASSUME TableOK, NEW key, NEW row, Upsert(key, row)
    PROVE  /\ DOMAIN table' = {"exists", "rows"} /\ table'.exists = table.exists
           /\ DOMAIN table'.rows = {key} \cup DOMAIN table.rows
           /\ table'.rows[key] = row
           /\ \A k \in DOMAIN table.rows : k # key => table'.rows[k] = table.rows[k]
<1>1. PICK t : t = table
  OBVIOUS
<1>2. PICK dict : dict = table.rows
  OBVIOUS
<1>3. PICK new : new = Put(dict, key, row)
  OBVIOUS
<1>4. /\ DOMAIN new = {key} \cup DOMAIN dict /\ new[key] = row
      /\ \A k \in DOMAIN dict : k # key => new[k] = dict[k]
  BY <1>3 DEF Put
<1>5. DOMAIN t = {"exists", "rows"} /\ table' = [t EXCEPT !.rows = new]
  BY <1>1, <1>2, <1>3 DEF TableOK, Upsert
<1>6. PICK u : u = table'
  OBVIOUS
<1>7. DOMAIN u = {"exists", "rows"} /\ u.exists = t.exists /\ u.rows = new
  BY <1>5, <1>6
<1> QED
  BY <1>1, <1>2, <1>4, <1>6, <1>7

\* A scheme call that takes effect.
LEMMA ExistsFacts ==
    ASSUME TableOK, table' = [table EXCEPT !.exists = TRUE]
    PROVE  DOMAIN table' = {"exists", "rows"} /\ table'.exists /\ table'.rows = table.rows
<1>1. PICK t, u : t = table /\ u = table'
  OBVIOUS
<1>2. DOMAIN t = {"exists", "rows"} /\ u = [t EXCEPT !.exists = TRUE]
  BY <1>1 DEF TableOK
<1>3. DOMAIN u = {"exists", "rows"} /\ u.exists /\ u.rows = t.rows
  BY <1>2
<1> QED
  BY <1>1, <1>3

LEMMA AbsentFacts ==
    DOMAIN Absent = {"exists", "rows"} /\ ~Absent.exists /\ DOMAIN Absent.rows = {}
  BY DEF Absent

\* A new phase, when what is left to insert is nothing.
LEMMA GotoFacts ==
    ASSUME NEW phase, NEW left, job' = [phase |-> phase, left |-> left]
    PROVE  DOMAIN job' = {"phase", "left"} /\ job'.phase = phase /\ job'.left = left
  OBVIOUS

\* What is left to insert gets smaller.
LEMMA LeftFacts ==
    ASSUME JobOK, NEW left, job' = [job EXCEPT !.left = left]
    PROVE  DOMAIN job' = {"phase", "left"} /\ job'.phase = job.phase /\ job'.left = left
<1>1. PICK j, k : j = job /\ k = job'
  OBVIOUS
<1>2. DOMAIN j = {"phase", "left"} /\ k = [j EXCEPT !.left = left]
  BY <1>1 DEF JobOK
<1>3. DOMAIN k = {"phase", "left"} /\ k.phase = j.phase /\ k.left = left
  BY <1>2
<1> QED
  BY <1>1, <1>3

\* After a failed call of the scheme, or before it, no row but the results' is there.
LEMMA StartsOver ==
    ASSUME UploadInv, Same, InputReady, DOMAIN job' = {"phase", "left"}, job'.left = {},
           job'.phase \in {"drop", "create", "failed", "raised"}, job'.phase = "drop" => drop,
           DOMAIN table' = {"exists", "rows"},
           \/ table'.rows = table.rows
           \/ DOMAIN table'.rows = {} /\ drop,
           clock' \in Nat, faults' \in 0 .. MaxFaults
    PROVE  UploadInv'
<1>1. /\ InputOK' /\ Keys' = Keys /\ Todo' = Todo /\ Rows' = Rows
      /\ InputReady' = InputReady
      /\ program' = program /\ drop' = drop /\ kinds' = kinds /\ before' = before
      /\ LastKind(kinds)' = LastKind(kinds) /\ \A row : KindRow(row)' <=> KindRow(row)
  BY SameOK DEF UploadInv
<1>2. JobOK'
  BY <1>1 DEF JobOK, Phases
<1>3. TableOK'
  BY <1>1 DEF UploadInv, TableOK
<1>4. WrittenOK'
  BY <1>1 DEF UploadInv, WrittenOK
<1> QED
  BY <1>1, <1>2, <1>3, <1>4 DEF UploadInv

-----------------------------------------------------------------------------
(* The steps of the upload.                                                    *)

LEMMA ReadyFacts ==
    ASSUME UploadInv
    PROVE  /\ job.phase # "idle" => InputReady
           /\ job.phase # "insert" => job.left = {}
           /\ job.phase = "insert" => job.left \in SUBSET Todo
           /\ DOMAIN job = {"phase", "left"} /\ clock \in Nat /\ faults \in 0 .. MaxFaults
           /\ DOMAIN table = {"exists", "rows"}
  BY DEF UploadInv, JobOK, TableOK

LEMMA FaultFacts ==
    ASSUME UploadInv, Fault
    PROVE  faults' \in 0 .. MaxFaults
<1>1. faults \in 0 .. MaxFaults /\ faults < MaxFaults /\ faults' = faults + 1
  BY DEF UploadInv, JobOK, Fault
<1> QED
  BY <1>1, UploadAssumption

LEMMA ConnectStep ==
    ASSUME UploadInv, Connect
    PROVE  UploadInv'
<1>1. job.phase \in {"idle", "failed"} /\ InputReady /\ Same /\ UNCHANGED <<table, clock, faults>>
  BY DEF Connect
<1>2. PICK phase : Goto(phase, {})
                   /\ \/ program = "ycsb" /\ parser.results = <<>> /\ phase = "done"
                      \/ drop /\ phase = "drop"
                      \/ phase = "create"
  BY DEF Connect
<1>3. PICK left : left = {}
  OBVIOUS
<1>4. DOMAIN job' = {"phase", "left"} /\ job'.phase = phase /\ job'.left = {}
  <2>1. job' = [phase |-> phase, left |-> left]
    BY <1>2, <1>3 DEF Goto
  <2> QED
    BY <1>3, <2>1, GotoFacts
<1>5. CASE phase = "done" /\ program = "ycsb" /\ parser.results = <<>>
  <2>1. /\ InputOK' /\ Keys' = Keys /\ InputReady' = InputReady /\ Rows' = Rows
        /\ program' = program /\ drop' = drop /\ kinds' = kinds /\ before' = before
        /\ LastKind(kinds)' = LastKind(kinds) /\ \A row : KindRow(row)' <=> KindRow(row)
    BY SameOK DEF UploadInv, Connect
  <2>2. JobOK'
    BY <1>1, <1>4, <1>5, <2>1 DEF UploadInv, JobOK, Phases
  <2>3. TableOK'
    BY <1>1, <1>4, <1>5, <2>1 DEF UploadInv, TableOK
  <2>4. Keys = {}
    BY <1>5 DEF Keys
  <2>5. WrittenOK'
    BY <1>1, <1>4, <1>5, <2>1, <2>4 DEF UploadInv, WrittenOK
  <2> QED
    BY <2>1, <2>2, <2>3, <2>5 DEF UploadInv
<1>6. CASE phase = "drop" /\ drop
  BY <1>1, <1>4, <1>6, ReadyFacts, StartsOver
<1>7. CASE phase = "create"
  BY <1>1, <1>4, <1>7, ReadyFacts, StartsOver
<1> QED
  BY <1>2, <1>5, <1>6, <1>7

LEMMA ConnectFailsStep ==
    ASSUME UploadInv, ConnectFails
    PROVE  UploadInv'
<1>1. InputReady /\ Same /\ UNCHANGED <<table, clock>> /\ faults' \in 0 .. MaxFaults
  BY FaultFacts DEF ConnectFails
<1>2. PICK phase, left : phase = "failed" /\ left = {}
  OBVIOUS
<1>3. job' = [phase |-> phase, left |-> left]
  BY <1>2 DEF ConnectFails, Goto
<1>4. DOMAIN job' = {"phase", "left"} /\ job'.phase = "failed" /\ job'.left = {}
  BY <1>2, <1>3, GotoFacts
<1> QED
  BY <1>1, <1>4, ReadyFacts, StartsOver

LEMMA DropTableStep ==
    ASSUME UploadInv, DropTable
    PROVE  UploadInv'
<1>1. /\ job.phase = "drop" /\ Same /\ UNCHANGED clock /\ faults' \in 0 .. MaxFaults
      /\ table' = Absent \/ table' = table
  BY FaultFacts, ReadyFacts DEF DropTable
<1>2. PICK phase, left : phase = "create" /\ left = {}
  OBVIOUS
<1>3. job' = [phase |-> phase, left |-> left]
  BY <1>2 DEF DropTable, Goto
<1>4. DOMAIN job' = {"phase", "left"} /\ job'.phase = "create" /\ job'.left = {}
  BY <1>2, <1>3, GotoFacts
<1>5. InputReady /\ drop
  BY <1>1 DEF UploadInv, JobOK, TableOK
<1>6. /\ DOMAIN table' = {"exists", "rows"}
      /\ table'.rows = table.rows \/ DOMAIN table'.rows = {}
  BY <1>1, AbsentFacts, ReadyFacts
<1> QED
  BY <1>1, <1>4, <1>5, <1>6, ReadyFacts, StartsOver

LEMMA SchemeFailsStep ==
    ASSUME UploadInv, SchemeFails
    PROVE  UploadInv'
<1>1. /\ job.phase \in {"drop", "create"} /\ Same /\ UNCHANGED clock
      /\ faults' \in 0 .. MaxFaults
  BY FaultFacts DEF SchemeFails
<1>2. InputReady /\ (job.phase = "drop" => drop) /\ TableOK /\ JobOK
  BY <1>1 DEF UploadInv, JobOK, TableOK
<1>3. DOMAIN job' = {"phase", "left"} /\ job'.left = {} /\ job'.phase \in {job.phase, "failed"}
  <2>1. CASE job' = job
    BY <1>1, <2>1, ReadyFacts
  <2>2. CASE job' = [phase |-> "failed", left |-> {}]
    <3>1. PICK phase, left : phase = "failed" /\ left = {}
      OBVIOUS
    <3>2. job' = [phase |-> phase, left |-> left]
      BY <2>2, <3>1
    <3> QED
      BY <3>1, <3>2, GotoFacts
  <2> QED
    BY <2>1, <2>2 DEF SchemeFails
<1>4. /\ DOMAIN table' = {"exists", "rows"}
      /\ table'.rows = table.rows \/ (DOMAIN table'.rows = {} /\ drop)
  <2>1. CASE table' = table
    BY <2>1, ReadyFacts
  <2>2. CASE job.phase = "drop" /\ table' = Absent
    BY <1>2, <2>2, AbsentFacts
  <2>3. CASE job.phase = "create" /\ table' = [table EXCEPT !.exists = TRUE]
    BY <1>2, <2>3, ExistsFacts
  <2> QED
    BY <1>1, <2>1, <2>2, <2>3 DEF SchemeFails
<1>5. job'.phase = "drop" => drop
  BY <1>1, <1>2, <1>3
<1>6. clock' \in Nat
  BY <1>1, ReadyFacts
<1> QED
  BY <1>1, <1>2, <1>3, <1>4, <1>5, <1>6, StartsOver

LEMMA CreateTableStep ==
    ASSUME UploadInv, CreateTable
    PROVE  UploadInv'
<1>1. /\ job.phase = "create" /\ table' = [table EXCEPT !.exists = TRUE] /\ Same
      /\ UNCHANGED <<clock, faults>>
  BY DEF CreateTable
<1>2. InputOK /\ InputReady /\ TableOK
  BY <1>1 DEF UploadInv, JobOK
<1>3. /\ InputOK' /\ Keys' = Keys /\ Todo' = Todo /\ InputReady' = InputReady /\ Rows' = Rows
      /\ program' = program /\ drop' = drop /\ kinds' = kinds /\ before' = before
      /\ LastKind(kinds)' = LastKind(kinds) /\ \A row : KindRow(row)' <=> KindRow(row)
  BY <1>1, <1>2, SameOK
<1>4. DOMAIN table' = {"exists", "rows"} /\ table'.exists /\ table'.rows = table.rows
  BY <1>1, <1>2, ExistsFacts
<1>5. PICK left : left = (IF program = "latency" THEN kinds ELSE
                          IF program = "tpcc" THEN {agg.total.start} ELSE DOMAIN Rows)
  OBVIOUS
<1>6. left = Todo
  <2>1. CASE program = "latency"
    BY <1>5, <2>1 DEF Todo
  <2>2. CASE program = "tpcc"
    BY <1>5, <2>2 DEF Todo, Keys
  <2>3. CASE program = "ycsb"
    BY <1>2, <1>5, <2>3, KeysFacts DEF Todo
  <2> QED
    BY <1>2, <2>1, <2>2, <2>3 DEF InputOK
<1>7. PICK phase : phase = "insert"
  OBVIOUS
<1>8. job' = [phase |-> phase, left |-> left]
  BY <1>5, <1>7 DEF CreateTable, Goto
<1>9. DOMAIN job' = {"phase", "left"} /\ job'.phase = "insert" /\ job'.left = Todo
  BY <1>6, <1>7, <1>8, GotoFacts
<1>10. JobOK'
  BY <1>1, <1>2, <1>3, <1>9 DEF UploadInv, JobOK, Phases
<1>11. TableOK'
  BY <1>3, <1>4, <1>9 DEF UploadInv, TableOK
<1>12. WrittenOK'
  <2>1. program # "latency" => Todo = Keys
    BY DEF Todo
  <2>2. program = "latency" => Todo = kinds
    BY DEF Todo
  <2>3. kinds # {} => LastKind(kinds) \in kinds
    BY <1>2, LastKindFacts DEF InputOK
  <2> QED
    BY <1>3, <1>4, <1>9, <2>1, <2>2, <2>3 DEF UploadInv, WrittenOK
<1> QED
  BY <1>3, <1>10, <1>11, <1>12 DEF UploadInv

LEMMA NextKeyFacts ==
    ASSUME UploadInv, job.phase = "insert", program # "latency", job.left # {}
    PROVE  NextKey \in job.left /\ NextKey \in Keys
<1>1. InputOK /\ InputReady /\ job.left \in SUBSET Keys
  BY DEF UploadInv, JobOK, Todo
<1>2. job.left \in SUBSET Nat
  BY <1>1, KeysFacts
<1>3. PICK S : S = job.left
  OBVIOUS
<1>4. Min(S) \in S
  BY <1>2, <1>3, MinFacts
<1> QED
  BY <1>1, <1>3, <1>4 DEF NextKey

\* A call that is made for the next row, whether it is known to have written it or not.
LEMMA RowStep ==
    ASSUME UploadInv, Same, job.phase = "insert", program # "latency", job.left # {},
           Upsert(NextKey, Rows[NextKey]) \/ UNCHANGED table,
           DOMAIN job' = {"phase", "left"},
           \/ job'.phase = "insert" /\ job'.left = job.left
           \/ job'.phase = "failed" /\ job'.left = {}
           \/ /\ job'.phase = "insert" /\ job'.left = job.left \ {NextKey}
              /\ Upsert(NextKey, Rows[NextKey]),
           clock' \in Nat, faults' \in 0 .. MaxFaults
    PROVE  UploadInv'
<1>1. InputOK /\ InputReady /\ TableOK /\ job.left \in SUBSET Keys /\ Todo = Keys
  BY DEF UploadInv, JobOK, Todo
<1>2. /\ InputOK' /\ Keys' = Keys /\ Todo' = Todo /\ InputReady' = InputReady /\ Rows' = Rows
      /\ program' = program /\ drop' = drop /\ kinds' = kinds /\ before' = before
      /\ LastKind(kinds)' = LastKind(kinds) /\ \A row : KindRow(row)' <=> KindRow(row)
  BY <1>1, SameOK
<1>3. PICK key : key = NextKey
  OBVIOUS
<1>4. PICK row : row = Rows[key]
  OBVIOUS
<1>5. key \in job.left /\ key \in Keys
  BY <1>3, NextKeyFacts
<1>6. /\ DOMAIN table' = {"exists", "rows"} /\ table'.exists = table.exists
      /\ DOMAIN table.rows \subseteq DOMAIN table'.rows
      /\ DOMAIN table'.rows \subseteq {key} \cup DOMAIN table.rows
      /\ \A k \in DOMAIN table'.rows :
            \/ k = key /\ table'.rows[k] = Rows[k]
            \/ k \in DOMAIN table.rows /\ table'.rows[k] = table.rows[k]
  <2>1. CASE Upsert(NextKey, Rows[NextKey])
    <3>1. Upsert(key, row)
      BY <1>3, <1>4, <2>1
    <3>2. /\ DOMAIN table' = {"exists", "rows"} /\ table'.exists = table.exists
          /\ DOMAIN table'.rows = {key} \cup DOMAIN table.rows
          /\ table'.rows[key] = row
          /\ \A k \in DOMAIN table.rows : k # key => table'.rows[k] = table.rows[k]
      BY <1>1, <3>1, UpsertFacts
    <3> QED
      BY <1>4, <3>2
  <2>2. CASE UNCHANGED table
    BY <1>1, <2>2 DEF TableOK
  <2> QED
    BY <2>1, <2>2
<1>7. job'.phase = "insert" /\ job'.left = job.left \ {key} => key \in DOMAIN table'.rows
  <2>1. CASE Upsert(NextKey, Rows[NextKey])
    <3>1. Upsert(key, row)
      BY <1>3, <1>4, <2>1
    <3>2. DOMAIN table'.rows = {key} \cup DOMAIN table.rows
      BY <1>1, <3>1, UpsertFacts
    <3> QED
      BY <3>2
  <2>2. CASE ~Upsert(NextKey, Rows[NextKey]) /\ job'.left = job.left
    BY <1>5, <2>2
  <2>3. CASE job'.phase = "failed"
    BY <2>3
  <2> QED
    BY <2>1, <2>2, <2>3
<1>8. JobOK'
  BY <1>1, <1>2, <1>3 DEF JobOK, Phases
<1>9. TableOK'
  BY <1>1, <1>2, <1>6 DEF TableOK
<1>10. WrittenOK'
  BY <1>1, <1>2, <1>3, <1>5, <1>6, <1>7 DEF UploadInv, WrittenOK
<1> QED
  BY <1>2, <1>8, <1>9, <1>10 DEF UploadInv

LEMMA InsertRowStep ==
    ASSUME UploadInv, InsertRow
    PROVE  UploadInv'
<1>1. /\ job.phase = "insert" /\ program # "latency" /\ job.left # {} /\ Same
      /\ Upsert(NextKey, Rows[NextKey]) /\ UNCHANGED <<clock, faults>> /\ JobOK
  BY DEF InsertRow, UploadInv
<1>2. PICK left : left = job.left \ {NextKey}
  OBVIOUS
<1>3. job' = [job EXCEPT !.left = left]
  BY <1>2 DEF InsertRow
<1>4. DOMAIN job' = {"phase", "left"} /\ job'.phase = job.phase /\ job'.left = left
  BY <1>1, <1>3, LeftFacts
<1> QED
  BY <1>1, <1>2, <1>4, ReadyFacts, RowStep

LEMMA InsertFailsStep ==
    ASSUME UploadInv, NEW applied \in BOOLEAN, InsertFails(applied)
    PROVE  UploadInv'
<1>1. /\ job.phase = "insert" /\ program # "latency" /\ job.left # {} /\ Same
      /\ Upsert(NextKey, Rows[NextKey]) \/ UNCHANGED table
      /\ UNCHANGED clock /\ faults' \in 0 .. MaxFaults
  BY FaultFacts DEF InsertFails
<1>2. DOMAIN job' = {"phase", "left"}
      /\ \/ job'.phase = "insert" /\ job'.left = job.left
         \/ job'.phase = "failed" /\ job'.left = {}
  <2>1. CASE job' = job
    BY <1>1, <2>1, ReadyFacts
  <2>2. CASE job' = [phase |-> "failed", left |-> {}]
    <3>1. PICK phase, left : phase = "failed" /\ left = {}
      OBVIOUS
    <3>2. job' = [phase |-> phase, left |-> left]
      BY <2>2, <3>1
    <3> QED
      BY <3>1, <3>2, GotoFacts
  <2> QED
    BY <2>1, <2>2 DEF InsertFails
<1> QED
  BY <1>1, <1>2, ReadyFacts, RowStep

LEMMA RowCannotBeMadeStep ==
    ASSUME UploadInv, RowCannotBeMade
    PROVE  UploadInv'
<1>1. job.phase = "insert" /\ Same /\ UNCHANGED <<table, clock, faults>>
  BY DEF RowCannotBeMade
<1>2. PICK phase, left : phase = "raised" /\ left = {}
  OBVIOUS
<1>3. job' = [phase |-> phase, left |-> left]
  BY <1>2 DEF RowCannotBeMade, Goto
<1>4. DOMAIN job' = {"phase", "left"} /\ job'.phase = "raised" /\ job'.left = {}
  BY <1>2, <1>3, GotoFacts
<1> QED
  BY <1>1, <1>4, ReadyFacts, StartsOver

LEMMA FinishStep ==
    ASSUME UploadInv, Finish
    PROVE  UploadInv'
<1>1. job.phase = "insert" /\ job.left = {} /\ Same /\ UNCHANGED <<table, clock, faults>>
  BY DEF Finish
<1>2. PICK phase, left : phase = "done" /\ left = {}
  OBVIOUS
<1>3. job' = [phase |-> phase, left |-> left]
  BY <1>2 DEF Finish, Goto
<1>4. DOMAIN job' = {"phase", "left"} /\ job'.phase = "done" /\ job'.left = {}
  BY <1>2, <1>3, GotoFacts
<1>5. /\ InputOK' /\ Keys' = Keys /\ InputReady' = InputReady /\ Rows' = Rows
      /\ program' = program /\ drop' = drop /\ kinds' = kinds /\ before' = before
      /\ LastKind(kinds)' = LastKind(kinds) /\ \A row : KindRow(row)' <=> KindRow(row)
  BY <1>1, SameOK DEF UploadInv
<1>6. JobOK'
  BY <1>1, <1>4, <1>5 DEF UploadInv, JobOK, Phases
<1>7. TableOK'
  BY <1>1, <1>4, <1>5 DEF UploadInv, TableOK
<1>8. WrittenOK'
  BY <1>1, <1>4, <1>5 DEF UploadInv, WrittenOK
<1> QED
  BY <1>5, <1>6, <1>7, <1>8 DEF UploadInv

\* One kind is written, under the time of this call.
LEMMA KindWritten ==
    ASSUME UploadInv, Same, job.phase = "insert", program = "latency", job.left # {},
           NEW kind \in kinds, NEW row, row = [kind |-> kind],
           Upsert(clock, row) \/ UNCHANGED table,
           job'.phase \in {"insert", "failed"}
    PROVE  /\ TableOK' /\ \A key \in DOMAIN table'.rows \ {OldKey} : KindRow(table'.rows[key])
           /\ Upsert(clock, row) => clock \in DOMAIN table'.rows /\ table'.rows[clock] = row
<1>1. InputOK /\ TableOK /\ KindRow(row)
      /\ \A key \in DOMAIN table.rows \ {OldKey} : KindRow(table.rows[key])
  BY DEF UploadInv, WrittenOK, KindRow
<1>2. drop' = drop /\ before' = before
  BY <1>1, SameOK
<1>3. CASE UNCHANGED table /\ ~Upsert(clock, row)
  BY <1>1, <1>2, <1>3 DEF TableOK
<1>4. CASE Upsert(clock, row)
  <2>1. PICK at : at = clock
    OBVIOUS
  <2>2. Upsert(at, row)
    BY <1>4, <2>1
  <2>3. /\ DOMAIN table' = {"exists", "rows"} /\ table'.exists = table.exists
        /\ DOMAIN table'.rows = {at} \cup DOMAIN table.rows
        /\ table'.rows[at] = row
        /\ \A k \in DOMAIN table.rows : k # at => table'.rows[k] = table.rows[k]
    BY <1>1, <2>2, UpsertFacts
  <2>4. TableOK'
    BY <1>1, <1>2, <2>3 DEF TableOK
  <2>5. ASSUME NEW key \in DOMAIN table'.rows \ {OldKey} PROVE KindRow(table'.rows[key])
    <3>1. CASE key = at
      BY <1>1, <2>3, <3>1
    <3>2. CASE key # at
      BY <1>1, <2>3, <2>5, <3>2
    <3> QED
      BY <3>1, <3>2
  <2> QED
    BY <2>1, <2>3, <2>4, <2>5
<1> QED
  BY <1>3, <1>4

\* The kind that is printed last is also the last that is left.
LEMMA KindStep ==
    ASSUME UploadInv, InsertKind
    PROVE  UploadInv'
<1>1. /\ job.phase = "insert" /\ program = "latency" /\ job.left # {} /\ Same
      /\ clock' = clock /\ faults' = faults
  BY DEF InsertKind
<1>2. PICK k, last : k = FirstKind(job.left) /\ last = LastKind(kinds)
  OBVIOUS
<1>3. PICK row : row = [kind |-> k]
  OBVIOUS
<1>4. PICK left : left = job.left \ {k}
  OBVIOUS
<1>5. Upsert(clock, row) /\ job' = [job EXCEPT !.left = left]
  BY <1>2, <1>3, <1>4 DEF InsertKind
<1>6. /\ InputOK /\ InputReady /\ TableOK /\ JobOK /\ Todo = kinds
      /\ job.left \in SUBSET kinds /\ kinds \in SUBSET Range(AllKinds) /\ last \in job.left
  BY <1>1, <1>2 DEF UploadInv, WrittenOK, JobOK, InputOK, Todo
<1>7. k \in job.left /\ \A other \in job.left : NotAfter(k, other)
  <2>1. PICK S \in SUBSET Range(AllKinds) : S = job.left
    BY <1>6
  <2> QED
    BY <1>1, <1>2, <2>1, FirstKindFacts
<1>8. \A other \in kinds : NotAfter(other, last)
  BY <1>2, <1>6, LastKindFacts
<1>9. left # {} => last \in left
  <2>1. CASE k = last
    <3>1. \A other \in left : other = k
      BY <1>4, <1>6, <1>7, <1>8, <2>1, SameKind
    <3> QED
      BY <1>4, <3>1
  <2>2. CASE k # last
    BY <1>4, <1>6, <2>2
  <2> QED
    BY <2>1, <2>2
<1>10. left = {} => k = last
  BY <1>4, <1>6
<1>11. DOMAIN job' = {"phase", "left"} /\ job'.phase = job.phase /\ job'.left = left
  BY <1>5, <1>6, LeftFacts
<1>12. /\ InputOK' /\ Todo' = Todo /\ InputReady' = InputReady
       /\ program' = program /\ drop' = drop /\ kinds' = kinds /\ before' = before
       /\ LastKind(kinds)' = LastKind(kinds) /\ \A r : KindRow(r)' <=> KindRow(r)
  BY <1>1, <1>6, SameOK
<1>13. /\ TableOK' /\ \A key \in DOMAIN table'.rows \ {OldKey} : KindRow(table'.rows[key])
       /\ clock \in DOMAIN table'.rows /\ table'.rows[clock] = row
  BY <1>1, <1>3, <1>5, <1>6, <1>7, <1>11, KindWritten
<1>14. JobOK'
  BY <1>1, <1>4, <1>6, <1>11, <1>12 DEF JobOK, Phases
<1>15. WrittenOK'
  <2>1. \A key \in DOMAIN table'.rows \ {OldKey} : KindRow(table.rows[key])'
    BY <1>12, <1>13
  <2> QED
    BY <1>1, <1>2, <1>3, <1>9, <1>10, <1>11, <1>12, <1>13, <2>1 DEF WrittenOK
<1> QED
  BY <1>12, <1>13, <1>14, <1>15 DEF UploadInv

LEMMA KindsFailStep ==
    ASSUME UploadInv, NEW applied \in BOOLEAN, KindsFail(applied)
    PROVE  UploadInv'
<1>1. /\ job.phase = "insert" /\ program = "latency" /\ Same /\ job.left # {}
      /\ faults' \in 0 .. MaxFaults /\ clock' \in {clock, clock + 1}
  BY FaultFacts DEF KindsFail
<1>2. PICK k : k = FirstKind(job.left)
  OBVIOUS
<1>3. PICK row : row = [kind |-> k]
  OBVIOUS
<1>4. /\ Upsert(clock, row) \/ UNCHANGED table
      /\ job' \in {[job EXCEPT !.left = kinds], [phase |-> "failed", left |-> {}]}
  BY <1>2, <1>3 DEF KindsFail
<1>5. /\ InputOK /\ InputReady /\ TableOK /\ JobOK /\ Todo = kinds
      /\ job.left \in SUBSET kinds /\ kinds \in SUBSET Range(AllKinds)
  BY <1>1 DEF UploadInv, JobOK, InputOK, Todo
<1>6. k \in kinds
  <2>1. PICK S \in SUBSET Range(AllKinds) : S = job.left
    BY <1>5
  <2> QED
    BY <1>1, <1>2, <1>5, <2>1, FirstKindFacts
<1>7. clock' \in Nat
  BY <1>1, ReadyFacts
<1>8. /\ DOMAIN job' = {"phase", "left"}
      /\ \/ job'.phase = "failed" /\ job'.left = {}
         \/ job'.phase = "insert" /\ job'.left = kinds
  <2>1. CASE job' = [phase |-> "failed", left |-> {}]
    <3>1. PICK phase, left : phase = "failed" /\ left = {}
      OBVIOUS
    <3>2. job' = [phase |-> phase, left |-> left]
      BY <2>1, <3>1
    <3> QED
      BY <3>1, <3>2, GotoFacts
  <2>2. CASE job' = [job EXCEPT !.left = kinds]
    <3>1. PICK left : left = kinds
      OBVIOUS
    <3> QED
      BY <1>1, <1>5, <2>2, <3>1, LeftFacts
  <2> QED
    BY <1>4, <2>1, <2>2
<1>9. /\ InputOK' /\ Todo' = Todo /\ InputReady' = InputReady
      /\ program' = program /\ drop' = drop /\ kinds' = kinds /\ before' = before
      /\ LastKind(kinds)' = LastKind(kinds) /\ \A r : KindRow(r)' <=> KindRow(r)
  BY <1>1, <1>5, SameOK
<1>10. TableOK' /\ \A key \in DOMAIN table'.rows \ {OldKey} : KindRow(table'.rows[key])
  BY <1>1, <1>3, <1>4, <1>6, <1>8, KindWritten
<1>11. JobOK'
  BY <1>1, <1>5, <1>7, <1>8, <1>9 DEF JobOK, Phases
<1>12. WrittenOK'
  <2>1. \A key \in DOMAIN table'.rows \ {OldKey} : KindRow(table.rows[key])'
    BY <1>9, <1>10
  <2>2. LastKind(kinds) \in kinds /\ kinds # {}
    BY <1>1, <1>5, LastKindFacts
  <2> QED
    BY <1>1, <1>8, <1>9, <2>1, <2>2 DEF WrittenOK
<1> QED
  BY <1>9, <1>10, <1>11, <1>12 DEF UploadInv

-----------------------------------------------------------------------------
(* The benchmark goes on.  That is over before the upload begins.              *)

LEMMA UploadWaits ==
    ASSUME UploadInv, InputOK', program' = program, UNCHANGED uploadVars,
           job.phase = "idle"
    PROVE  UploadInv'
<1>1. UNCHANGED <<program, drop, kinds, table, job, clock, before, faults>>
  BY DEF uploadVars
<1>2. JobOK' /\ TableOK'
  BY <1>1 DEF UploadInv, JobOK, TableOK
<1>3. DOMAIN table.rows \ {OldKey} = {}
  BY DEF UploadInv, TableOK
<1>4. WrittenOK'
  BY <1>1, <1>3 DEF WrittenOK
<1> QED
  BY <1>2, <1>4 DEF UploadInv

LEMMA YcsbUploadStep ==
    ASSUME UploadInv, program = "ycsb", YcsbNext, UNCHANGED <<aggVars, uploadVars>>
    PROVE  UploadInv'
<1>1. UNCHANGED <<dir, agg, program, drop, kinds>> /\ UNCHANGED uploadVars
  BY DEF aggVars, uploadVars
<1>2. YcsbOK'
  BY YcsbStep DEF UploadInv, InputOK, YcsbOK
<1>3. InputOK'
  BY <1>1, <1>2 DEF UploadInv, InputOK, YcsbOK, AggOK
<1>4. stage # "parsed"
  BY DEF YcsbNext, StartWorkload, HostSucceeds, HostFails, PrintLine, WorkloadDone,
         ScriptEnds, ParseEnds
<1>5. job.phase = "idle"
  BY <1>4 DEF UploadInv, JobOK, InputReady
<1> QED
  BY <1>1, <1>3, <1>5, UploadWaits

LEMMA TpccUploadStep ==
    ASSUME UploadInv, program = "tpcc", AggNext, UNCHANGED <<ycsbVars, uploadVars>>
    PROVE  UploadInv'
<1>1. /\ UNCHANGED <<format, stage, running, out, log, parser, program, drop, kinds>>
      /\ UNCHANGED uploadVars
  BY DEF ycsbVars, uploadVars
<1>2. AggOK' /\ dir' = dir /\ agg.phase \in {"logs", "raw"}
  BY AggStep DEF UploadInv, InputOK
<1>3. InputOK'
  BY <1>1, <1>2 DEF UploadInv, InputOK, LogOK, OutOK
<1>4. job.phase = "idle"
  BY <1>2 DEF UploadInv, JobOK, InputReady
<1> QED
  BY <1>1, <1>3, <1>4, UploadWaits

-----------------------------------------------------------------------------
(* The results.                                                                *)

LEMMA InitOK == Init => UploadInv
<1> SUFFICES ASSUME Init PROVE UploadInv
  OBVIOUS
<1>1. ParserOK(parser)
  <2>1. PICK p : p = parser
    OBVIOUS
  <2>2. /\ DOMAIN p = ParserFields /\ p.when = 0 /\ p.lists = <<<<>>>> /\ p.per = 1
        /\ p.results = <<>>
    BY <2>1 DEF Init, YcsbInit, NewParser, ParserFields
  <2>3. p.lists \in Seq({<<>>}) /\ Len(p.lists) = 1
    BY <2>2
  <2>4. p.lists \in Seq(Range(p.lists))
    <3>1. PICK S, s : S = {<<>>} /\ s = p.lists
      OBVIOUS
    <3>2. s \in Seq(S)
      BY <2>3, <3>1
    <3> QED
      BY <3>1, <3>2, RangeFacts
  <2>5. DOMAIN p.results = {}
    BY <2>2
  <2> QED
    BY <2>1, <2>2, <2>3, <2>4, <2>5 DEF ParserOK
<1>2. LogOK /\ OutOK
  <2>1. log = <<>> /\ out = <<>>
    BY DEF Init, YcsbInit
  <2>2. log \in Seq(Range(log)) /\ out \in Seq(Range(out)) /\ Len(log) = 0 /\ Len(out) = 0
    BY <2>1
  <2> QED
    BY <2>2 DEF LogOK, OutOK
<1>3. AggOK
  <2>1. PICK a : a = agg
    OBVIOUS
  <2>2. /\ DOMAIN a = AggFields /\ a.phase = "logs" /\ a.order = <<>> /\ a.read = 0
        /\ a.results = <<>>
    BY <2>1 DEF Init, AggInit, Fresh, AggFields
  <2> QED
    BY <2>1, <2>2 DEF AggOK
<1>4. InputOK
  BY <1>1, <1>2, <1>3 DEF Init, InputOK
<1>5. DOMAIN job = {"phase", "left"} /\ job.phase = "idle" /\ job.left = {}
  <2>1. PICK j : j = job
    OBVIOUS
  <2>2. j = [phase |-> "idle", left |-> {}]
    BY <2>1 DEF Init
  <2> QED
    BY <2>1, <2>2
<1>6. /\ DOMAIN table = {"exists", "rows"} /\ before = table
      /\ DOMAIN table.rows \subseteq {OldKey} /\ (table.exists => OldKey \in DOMAIN table.rows)
  <2>1. PICK t : t = table
    OBVIOUS
  <2>2. CASE t = Absent
    BY <2>1, <2>2, AbsentFacts DEF Init
  <2>3. CASE t # Absent
    <3>1. PICK rows : rows = [key \in {OldKey} |-> OldRow]
      OBVIOUS
    <3>2. t = [exists |-> TRUE, rows |-> rows]
      BY <2>1, <2>3, <3>1 DEF Init
    <3>3. DOMAIN t = {"exists", "rows"} /\ t.rows = rows /\ DOMAIN rows = {OldKey}
      BY <3>1, <3>2
    <3>4. before = t
      BY <2>1 DEF Init
    <3> QED
      BY <2>1, <3>3, <3>4
  <2> QED
    BY <2>2, <2>3
<1>7. JobOK
  BY <1>5, UploadAssumption DEF Init, JobOK, Phases
<1>8. TableOK
  BY <1>5, <1>6 DEF TableOK
<1>9. WrittenOK
  BY <1>5, <1>6 DEF WrittenOK
<1> QED
  BY <1>4, <1>7, <1>8, <1>9 DEF UploadInv

LEMMA UnchangedOK ==
    ASSUME UploadInv, UNCHANGED allVars
    PROVE  UploadInv'
<1>1. Same /\ UNCHANGED <<table, job, clock, faults>>
  BY DEF allVars, uploadVars, Same
<1>2. /\ InputOK' /\ Keys' = Keys /\ Todo' = Todo /\ Rows' = Rows
      /\ InputReady' = InputReady
      /\ program' = program /\ drop' = drop /\ kinds' = kinds /\ before' = before
      /\ LastKind(kinds)' = LastKind(kinds) /\ \A row : KindRow(row)' <=> KindRow(row)
  BY <1>1, SameOK DEF UploadInv
<1>3. JobOK' /\ TableOK' /\ WrittenOK'
  BY <1>1, <1>2 DEF UploadInv, JobOK, TableOK, WrittenOK
<1> QED
  BY <1>2, <1>3 DEF UploadInv

\* The invariant, for any hosts, instances, logs, kinds and number of failed calls.
THEOREM UploadInvariance == Spec => []UploadInv
<1>1. ASSUME UploadInv, [Next]_allVars PROVE UploadInv'
  <2>1. CASE program = "ycsb" /\ YcsbNext /\ UNCHANGED <<aggVars, uploadVars>>
    BY <1>1, <2>1, YcsbUploadStep
  <2>2. CASE program = "tpcc" /\ AggNext /\ UNCHANGED <<ycsbVars, uploadVars>>
    BY <1>1, <2>2, TpccUploadStep
  <2>3. CASE Connect
    BY <1>1, <2>3, ConnectStep
  <2>4. CASE ConnectFails
    BY <1>1, <2>4, ConnectFailsStep
  <2>5. CASE DropTable
    BY <1>1, <2>5, DropTableStep
  <2>6. CASE CreateTable
    BY <1>1, <2>6, CreateTableStep
  <2>7. CASE SchemeFails
    BY <1>1, <2>7, SchemeFailsStep
  <2>8. CASE InsertRow
    BY <1>1, <2>8, InsertRowStep
  <2>9. CASE \E applied \in BOOLEAN : InsertFails(applied)
    BY <1>1, <2>9, InsertFailsStep
  <2>10. CASE RowCannotBeMade
    BY <1>1, <2>10, RowCannotBeMadeStep
  <2>11. CASE InsertKind
    BY <1>1, <2>11, KindStep
  <2>12. CASE \E applied \in BOOLEAN : KindsFail(applied)
    BY <1>1, <2>12, KindsFailStep
  <2>13. CASE Finish
    BY <1>1, <2>13, FinishStep
  <2>14. CASE UNCHANGED allVars
    BY <1>1, <2>14, UnchangedOK
  <2> QED
    BY <1>1, <2>1, <2>2, <2>3, <2>4, <2>5, <2>6, <2>7, <2>8, <2>9, <2>10, <2>11, <2>12,
       <2>13, <2>14 DEF Next
<1> QED
  BY <1>1, InitOK, PTL DEF Spec

\* The types; among them that each result refers to one of the parser's lists.
THEOREM TypeCorrect == Spec => []TypeOK
<1>1. UploadInv => TypeOK
  <2> SUFFICES ASSUME UploadInv PROVE TypeOK
    OBVIOUS
  <2>1. job.left \subseteq (IF program = "latency" THEN kinds ELSE Nat)
    <3>1. CASE job.phase = "insert"
      <4>1. InputOK /\ InputReady /\ job.left \in SUBSET Todo
        BY <3>1 DEF UploadInv, JobOK
      <4> QED
        BY <4>1, KeysFacts DEF Todo
    <3>2. CASE job.phase # "insert"
      BY <3>2, ReadyFacts
    <3> QED
      BY <3>1, <3>2
  <2>2. DOMAIN parser.lists = 1 .. Len(parser.lists) /\ ParserOK(parser)
    BY DEF UploadInv, InputOK, ParserOK
  <2> QED
    BY <2>1, <2>2 DEF TypeOK, UploadInv, JobOK, TableOK, Phases, ParserOK
<1> QED
  BY <1>1, UploadInvariance, PTL

\* ycsb and tpcc: one row for each result and no other, however often calls are repeated
\* and programs are run again, for every sequence of faults; and no program touches what
\* was in the table, unless it is told to drop it.
THEOREM RowsExactAlways == Spec => []RowsExact
<1>1. UploadInv => RowsExact
  <2> SUFFICES ASSUME UploadInv PROVE RowsExact
    OBVIOUS
  <2>1. TableOK /\ WrittenOK /\ (job.phase # "idle" => DOMAIN Rows = Keys)
    BY KeysFacts DEF UploadInv, JobOK
  <2>2. program # "latency" =>
          \A key \in DOMAIN table.rows \ {OldKey} :
              key \in DOMAIN Rows /\ table.rows[key] = Rows[key]
    <3>1. CASE job.phase = "idle"
      BY <2>1, <3>1 DEF TableOK
    <3>2. CASE job.phase # "idle"
      BY <2>1, <3>2 DEF WrittenOK
    <3> QED
      BY <3>1, <3>2
  <2>3. job.phase = "done" => job.left = {}
    BY ReadyFacts
  <2>4. job.phase = "done" /\ program # "latency" /\ Rows # <<>> =>
          DOMAIN Rows \subseteq DOMAIN table.rows
    BY <2>1, <2>3 DEF WrittenOK
  <2> QED
    BY <2>1, <2>2, <2>4 DEF RowsExact, TableOK
<1> QED
  BY <1>1, UploadInvariance, PTL

\* latency: the call that succeeded leaves the kind printed last under the time it has
\* read; whatever else is there is of a kind with a result too.
THEOREM LatencyRowsAlways == Spec => []LatencyRows
<1>1. UploadInv => LatencyRows
  <2> SUFFICES ASSUME UploadInv PROVE LatencyRows
    OBVIOUS
  <2>1. WrittenOK /\ (job.phase = "done" => job.left = {})
    BY ReadyFacts DEF UploadInv
  <2> QED
    BY <2>1 DEF WrittenOK, LatencyRows, KindRow
<1> QED
  BY <1>1, UploadInvariance, PTL

-----------------------------------------------------------------------------
(* What the aggregator reports.                                                *)

AggregateInv == IF program = "tpcc" THEN TotalsOK(agg) ELSE agg.phase = "logs"

\* The database changes nothing of what is reported.
LEMMA AggregateSame ==
    ASSUME AggregateInv, UNCHANGED aggVars, program' = program
    PROVE  AggregateInv'
<1>1. dir' = dir /\ agg' = agg
  BY DEF aggVars
<1>2. CASE program = "tpcc"
  <2>1. TotalsOK(agg')
    BY <1>1, <1>2 DEF AggregateInv
  <2>2. TotalsOK(agg)'
    BY <1>1, <2>1, TotalsPrimed
  <2> QED
    BY <1>2, <2>2 DEF AggregateInv
<1>3. CASE program # "tpcc"
  BY <1>1, <1>3 DEF AggregateInv
<1> QED
  BY <1>2, <1>3

\* Its steps keep the sums.
LEMMA AggregateStep ==
    ASSUME InputOK, AggregateInv, program = "tpcc", AggNext, UNCHANGED uploadVars
    PROVE  AggregateInv'
<1>1. TotalsOK(agg') /\ dir' = dir /\ program' = program
  BY AggTotalsStep DEF InputOK, AggregateInv, uploadVars
<1>2. TotalsOK(agg)'
  BY <1>1, TotalsPrimed
<1> QED
  BY <1>1, <1>2 DEF AggregateInv

\* What is reported is about all instances: the totals are their sums, the counts and
\* the percentiles those of all their transactions taken together, whatever the order of
\* the directory.  For any instances, samples, limits of buckets and percentiles.
THEOREM AggregateExactAlways == Spec => []AggregateExact
<1>1. Init => AggregateInv
  <2> SUFFICES ASSUME Init PROVE AggregateInv
    OBVIOUS
  <2>1. AggInit
    BY DEF Init
  <2>2. agg.phase = "logs"
    BY <2>1 DEF AggInit, Fresh
  <2> QED
    BY <2>1, <2>2, TotalsInit DEF AggregateInv
<1>2. ASSUME UploadInv, AggregateInv, [Next]_allVars PROVE AggregateInv'
  <2>1. CASE program = "ycsb" /\ YcsbNext /\ UNCHANGED <<aggVars, uploadVars>>
    <3>1. UNCHANGED aggVars /\ program' = program
      BY <2>1 DEF uploadVars
    <3> QED
      BY <1>2, <3>1, AggregateSame
  <2>2. CASE program = "tpcc" /\ AggNext /\ UNCHANGED <<ycsbVars, uploadVars>>
    BY <1>2, <2>2, AggregateStep DEF UploadInv
  <2>3. CASE Same
    <3>1. UNCHANGED aggVars /\ program' = program
      BY <2>3 DEF Same
    <3> QED
      BY <1>2, <3>1, AggregateSame
  <2>4. CASE UNCHANGED allVars
    <3>1. UNCHANGED aggVars /\ program' = program
      BY <2>4 DEF allVars, uploadVars
    <3> QED
      BY <1>2, <3>1, AggregateSame
  <2>5. CASE Connect \/ ConnectFails \/ DropTable \/ CreateTable \/ SchemeFails
    BY <2>3, <2>5 DEF Connect, ConnectFails, DropTable, CreateTable, SchemeFails
  <2>6. CASE InsertRow \/ (\E applied \in BOOLEAN : InsertFails(applied)) \/ RowCannotBeMade
    BY <2>3, <2>6 DEF InsertRow, InsertFails, RowCannotBeMade
  <2>7. CASE InsertKind \/ (\E applied \in BOOLEAN : KindsFail(applied)) \/ Finish
    BY <2>3, <2>7 DEF InsertKind, KindsFail, Finish
  <2> QED
    BY <1>2, <2>1, <2>2, <2>4, <2>5, <2>6, <2>7 DEF Next
<1>3. UploadInv /\ AggregateInv => AggregateExact
  <2> SUFFICES ASSUME UploadInv, AggregateInv PROVE AggregateExact
    OBVIOUS
  <2>1. CASE program = "tpcc"
    BY <2>1, TotalsAreExact DEF UploadInv, InputOK, AggregateInv
  <2>2. CASE program # "tpcc"
    BY <2>2 DEF AggregateInv, AggregateExact
  <2> QED
    BY <2>1, <2>2
<1> QED
  BY <1>1, <1>2, <1>3, UploadInvariance, PTL DEF Spec

-----------------------------------------------------------------------------
(* The totals of YCSB.                                                         *)

\* The parser has left the run; that of Go does when the log ends, if a host reported.
Finished(i) ==
    \/ i < Len(log) \/ stage = "parsed"
    \/ log[i].done /\ (format # "go" \/ DOMAIN log[i].good = {})

\* For Go one run is followed, with at most one host that reports.
Followed == format = "go" => Len(log) <= 1

Tracked(i) ==
    /\ Followed /\ CountMatches(log[i].count) /\ ~log[i].dirty
    /\ format = "go" => Cardinality(DOMAIN log[i].good) <= 1

AllMatch == \A j \in 1 .. Len(log) : CountMatches(log[j].count)

\* list has what the hosts of H reported.
Holds(list, good, H) ==
    /\ list \in Seq(Range(list)) /\ Len(list) = Cardinality(H)
    /\ \A i \in DOMAIN list : /\ list[i].host \in H
                              /\ \A f \in HostFigures : list[i][f] = good[list[i].host][f]
    /\ \A h \in H : \E i \in DOMAIN list : list[i].host = h
    /\ \A f \in {"thr", "errors"} : Total(list, f) = SumFunction([h \in H |-> good[h][f]])

\* lines are those that YCSB prints of r, but for the first k.
Rest(lines, r, k) ==
    /\ k \in 0 .. Len(Output(r)) /\ Len(lines) = Len(Output(r)) - k
    /\ \A j \in 1 .. Len(lines) : lines[j] = Output(r)[k + j]

\* The first k lines have been read.
FiguresRead(cur, finished, r, k) ==
    /\ format = "java" => /\ k >= 1 => cur.time = r.time
                          /\ k >= 2 => cur.thr = r.thr
                          /\ cur.latency = IF k >= 3 THEN r.latency ELSE 0
                          /\ k >= 5 => cur.errors = r.errors
    /\ format = "cockroach" /\ k = 2 => \A f \in HostFigures : cur[f] = r[f]
    /\ format = "go" => /\ finished <=> k >= 1
                        /\ k >= 1 => cur.time = r.time
                        /\ cur.errors = IF k >= 2 THEN r.errors ELSE 0
                        /\ k >= 3 => cur.thr = r.thr /\ cur.latency = r.latency

\* The parser is in a run of which no host, or some hosts, have reported.
NoneHeard(p, lines) ==
    /\ p.lists[p.per] = <<>> /\ p.cur.host = ""
    /\ format = "go" => ~p.finished /\ lines = <<>>

SomeHeard(good, p, lines) ==
    LET h == p.cur.host IN
    /\ h \in DOMAIN good
    /\ Holds(p.lists[p.per], good, DOMAIN good \ {h})
    /\ \E k \in 0 .. 5 : Rest(lines, good[h], k) /\ FiguresRead(p.cur, p.finished, good[h], k)

InRun(run, p, lines) ==
    /\ p.workload = run.workload /\ p.when = run.when /\ p.count = run.count
    /\ IF DOMAIN run.good = {} THEN NoneHeard(p, lines) ELSE SomeHeard(run.good, p, lines)

\* The totals of a run, kept with the list per.
Totals(run, per) ==
    LET figures(f) == {run.good[h][f] : h \in DOMAIN run.good}
        sum(f) == SumFunction([h \in DOMAIN run.good |-> run.good[h][f]])
    IN  [workload |-> run.workload, count |-> run.count, per |-> per,
         thr |-> sum("thr"), errors |-> sum("errors"), latency |-> Max(figures("latency")),
         maxTime |-> Max(figures("time")), minTime |-> Min(figures("time"))]

RunOK(run) ==
    /\ DOMAIN run = {"workload", "when", "count", "good", "dirty", "done"}
    /\ run.workload # "" /\ run.when \in Nat /\ run.dirty \in BOOLEAN /\ run.done \in BOOLEAN
    /\ DOMAIN run.good \in SUBSET YcsbHosts
    /\ \A h \in DOMAIN run.good : run.good[h] \in Results
    /\ run.good = <<>> <=> DOMAIN run.good = {}

\* A run with results ends before the second in which the next one begins.
RunsOK ==
    /\ \A i \in 1 .. Len(log) : RunOK(log[i])
    /\ \A i, j \in 1 .. Len(log) :
          i < j => /\ log[i].done /\ log[i].when <= log[j].when
                   /\ DOMAIN log[i].good # {} => log[i].when < log[j].when

\* The script: a host reports once.
ScriptOK ==
    /\ stage \in {"script", "eof", "parsed"}
    /\ running \in SUBSET YcsbHosts
    /\ out # <<>> \/ running # {} => stage = "script" /\ InWorkload
    /\ log # <<>> => running \cap DOMAIN Run.good = {}
    /\ stage # "script" => log # <<>>

\* What is still to be printed, and the current result.
PrintedOK ==
    /\ DOMAIN parser.cur = {"host"} \cup HostFigures
    /\ log = <<>> => parser = NewParser
    /\ out # <<>> => \E r \in Results, k \in 0 .. 5 : Rest(out, r, k)
    /\ format = "cockroach" /\ stage = "script" => (parser.title <=> Len(out) = 1)

\* The run that the parser is in.
OpenOK ==
    log # <<>> /\ ~Finished(Len(log)) /\ Tracked(Len(log)) => InRun(Run, parser, out)

\* Results are those of runs in which a host reported.
BoundOK ==
    Followed =>
        /\ \A when \in DOMAIN parser.results : \E i \in 1 .. Len(log) :
              /\ CountMatches(log[i].count) /\ DOMAIN log[i].good # {}
              /\ log[i].when = when
        /\ parser.workload # "" =>
              /\ log # <<>> /\ CountMatches(Run.count) /\ parser.when = Run.when
              /\ DOMAIN Run.good = {} =>
                    parser.lists[parser.per] = <<>> /\ parser.cur.host = ""
        /\ format # "go" /\ ~InWorkload => parser.workload = "" /\ parser.cur.host = ""

\* What is kept of the run i that the parser has left.
Kept(i) ==
    /\ log[i].when \in DOMAIN parser.results
    /\ LET per == parser.results[log[i].when].per
       IN  /\ parser.results[log[i].when] = Totals(log[i], per)
           /\ AllMatch => /\ Holds(parser.lists[per], log[i].good, DOMAIN log[i].good)
                          /\ ~Finished(Len(log)) => per # parser.per

KeptOK ==
    \A i \in 1 .. Len(log) :
        Finished(i) /\ Tracked(i) /\ DOMAIN log[i].good # {} => Kept(i)

TotalsInv == RunsOK /\ ScriptOK /\ PrintedOK /\ OpenOK /\ BoundOK /\ KeptOK

-----------------------------------------------------------------------------
(* Lists of results.                                                           *)

\* The figures of the hosts of H are numbers.
Good(good, H) == \A h \in H, f \in HostFigures : good[h][f] \in Nat

\* c is what h reported.
Reported(c, good, h) == c.host = h /\ \A f \in HostFigures : c[f] = good[h][f]

\* A new list has what nobody reported.
LEMMA HoldsNone ==
    ASSUME NEW good
    PROVE  Holds(<<>>, good, {})
<1>1. PICK list : list = <<>>
  OBVIOUS
<1>2. DOMAIN list = {} /\ Len(list) = 0 /\ list \in Seq(Range(list))
  BY <1>1
<1>3. Cardinality({}) = 0
  BY FS_EmptySet
<1>4. ASSUME NEW f PROVE Total(list, f) = SumFunction([h \in {} |-> good[h][f]])
  <2>1. PICK g : g = [i \in DOMAIN list |-> list[i][f]]
    OBVIOUS
  <2>2. PICK k : k = [h \in {} |-> good[h][f]]
    OBVIOUS
  <2>3. SumFunction(g) = SumFunctionOnSet(g, {}) /\ SumFunction(k) = SumFunctionOnSet(k, {})
    BY <1>2, <2>1, <2>2, SumFunctionIs
  <2>4. SumFunctionOnSet(g, {}) = 0 /\ SumFunctionOnSet(k, {}) = 0
    BY SumEmpty
  <2> QED
    BY <2>1, <2>2, <2>3, <2>4 DEF Total
<1>5. Holds(list, good, {})
  BY <1>2, <1>3, <1>4 DEF Holds
<1> QED
  BY <1>1, <1>5

\* Hosts that are not of H may report anything.
LEMMA HoldsSame ==
    ASSUME NEW list, NEW good, NEW H, Holds(list, good, H), NEW more,
           \A h \in H : more[h] = good[h]
    PROVE  Holds(list, more, H)
<1>1. ASSUME NEW f \in {"thr", "errors"}
      PROVE  Total(list, f) = SumFunction([h \in H |-> more[h][f]])
  <2>1. PICK k : k = [h \in H |-> good[h][f]]
    OBVIOUS
  <2>2. k = [h \in H |-> more[h][f]]
    BY <2>1
  <2>3. Total(list, f) = SumFunction(k)
    BY <2>1 DEF Holds
  <2> QED
    BY <2>2, <2>3
<1>2. \A i \in DOMAIN list : /\ list[i].host \in H
                             /\ \A f \in HostFigures : list[i][f] = more[list[i].host][f]
  BY DEF Holds
<1>3. /\ list \in Seq(Range(list)) /\ Len(list) = Cardinality(H)
      /\ \A h \in H : \E i \in DOMAIN list : list[i].host = h
  BY DEF Holds
<1> QED
  BY <1>1, <1>2, <1>3 DEF Holds

\* One more host.
LEMMA HoldsMore ==
    ASSUME NEW list, NEW good, NEW H, IsFiniteSet(H), Holds(list, good, H),
           NEW h, h \notin H, Good(good, H \cup {h}), NEW c, Reported(c, good, h)
    PROVE  Holds(Append(list, c), good, H \cup {h})
<1>1. PICK more : more = Append(list, c)
  OBVIOUS
<1>2. PICK n : n = Len(list)
  OBVIOUS
<1>3. /\ list \in Seq(Range(list)) /\ n \in Nat /\ DOMAIN list = 1 .. n
      /\ n = Cardinality(H)
  BY <1>2 DEF Holds
<1>4. /\ more \in Seq(Range(more)) /\ Len(more) = n + 1 /\ DOMAIN more = 1 .. (n + 1)
      /\ \A i \in 1 .. n : more[i] = list[i]
      /\ more[n + 1] = c
  BY <1>1, <1>2, <1>3, AppendFacts
<1>5. Cardinality(H \cup {h}) = n + 1
  BY <1>3, FS_AddElement
<1>6. \A i \in 1 .. (n + 1) : i \in 1 .. n \/ i = n + 1
  BY <1>3
<1>7. n + 1 \in 1 .. (n + 1) /\ \A i \in 1 .. n : i \in 1 .. (n + 1)
  BY <1>3
<1>8. \A i \in DOMAIN more : /\ more[i].host \in H \cup {h}
                             /\ \A f \in HostFigures : more[i][f] = good[more[i].host][f]
  <2>1. \A i \in 1 .. n : /\ list[i].host \in H
                          /\ \A f \in HostFigures : list[i][f] = good[list[i].host][f]
    BY <1>3 DEF Holds
  <2>2. c.host = h /\ \A f \in HostFigures : c[f] = good[h][f]
    BY DEF Reported
  <2> QED
    BY <1>4, <1>6, <2>1, <2>2
<1>9. \A x \in H \cup {h} : \E i \in DOMAIN more : more[i].host = x
  <2>1. \A x \in H : \E i \in 1 .. n : list[i].host = x
    BY <1>3 DEF Holds
  <2>2. c.host = h
    BY DEF Reported
  <2> QED
    BY <1>4, <1>7, <2>1, <2>2
<1>10. ASSUME NEW f \in {"thr", "errors"}
       PROVE  Total(more, f) = SumFunction([x \in H \cup {h} |-> good[x][f]])
  <2>0. f \in HostFigures
    BY DEF HostFigures
  <2>1. PICK V : V = Range(list) \cup {c}
    OBVIOUS
  <2>2. list \in Seq(V) /\ c \in V
    <3>1. \A i \in 1 .. n : list[i] \in V
      BY <1>3, <2>1 DEF Range
    <3> QED
      BY <1>2, <1>3, <2>1, <3>1
  <2>3. Numbers(V, f)
    <3>1. ASSUME NEW x \in V PROVE x[f] \in Int
      <4>1. CASE x = c
        BY <2>0, <4>1 DEF Reported, Good
      <4>2. CASE x \in Range(list)
        <5>1. PICK i \in 1 .. n : x = list[i]
          BY <1>3, <4>2 DEF Range
        <5>2. list[i].host \in H /\ list[i][f] = good[list[i].host][f]
          BY <1>3, <2>0, <5>1 DEF Holds
        <5> QED
          BY <2>0, <5>1, <5>2 DEF Good
      <4> QED
        BY <2>1, <4>1, <4>2
    <3> QED
      BY <3>1 DEF Numbers
  <2>4. SumOf(more, f) = c[f] + SumOf(list, f)
    BY <1>1, <2>2, <2>3, SumAppend
  <2>5. PICK k : k = [x \in H |-> good[x][f]]
    OBVIOUS
  <2>6. PICK g : g = [x \in H \cup {h} |-> good[x][f]]
    OBVIOUS
  <2>7. Extends(g, k, H, h) /\ g[h] = good[h][f]
    BY <2>0, <2>5, <2>6 DEF Extends, Good
  <2>8. SumFunction(g) = g[h] + SumFunction(k)
    BY <2>7, SumExtend
  <2>9. Total(list, f) = SumFunction(k)
    BY <2>5 DEF Holds
  <2>10. c[f] = good[h][f]
    BY <2>0 DEF Reported
  <2> QED
    BY <2>4, <2>6, <2>7, <2>8, <2>9, <2>10 DEF Total, SumOf
<1>11. Holds(more, good, H \cup {h})
  BY <1>4, <1>5, <1>8, <1>9, <1>10 DEF Holds
<1> QED
  BY <1>1, <1>11

\* The figures in a list, and those of the hosts.
ListFigures(list, f) == {list[i][f] : i \in DOMAIN list}
HostsFigures(good, H, f) == {good[h][f] : h \in H}

\* They have the figures that the hosts reported.
LEMMA FiguresHeld ==
    ASSUME NEW list, NEW good, NEW H, Holds(list, good, H), NEW f \in HostFigures
    PROVE  ListFigures(list, f) = HostsFigures(good, H, f)
  BY DEF Holds, ListFigures, HostsFigures

\* Such a list, read host by host.
LEMMA HostsHeld ==
    ASSUME NEW list, NEW good, NEW H, Holds(list, good, H),
           \A h \in H : good[h] \in [HostFigures -> Nat]
    PROVE  Hosts(list) = {<<h, good[h]>> : h \in H}
<1>1. ASSUME NEW i \in DOMAIN list
      PROVE  <<list[i].host, [f \in HostFigures |-> list[i][f]]>> = <<list[i].host, good[list[i].host]>>
             /\ list[i].host \in H
  <2>1. list[i].host \in H /\ \A f \in HostFigures : list[i][f] = good[list[i].host][f]
    BY DEF Holds
  <2>2. PICK r : r = good[list[i].host]
    OBVIOUS
  <2>3. r = [f \in HostFigures |-> r[f]] /\ \A f \in HostFigures : list[i][f] = r[f]
    BY <2>1, <2>2
  <2> QED
    BY <2>1, <2>2, <2>3
<1>2. \A h \in H : \E i \in DOMAIN list : list[i].host = h
  BY DEF Holds
<1>3. ASSUME NEW x \in Hosts(list) PROVE \E h \in H : x = <<h, good[h]>>
  <2>1. PICK i \in DOMAIN list : x = <<list[i].host, [f \in HostFigures |-> list[i][f]]>>
    BY DEF Hosts
  <2> QED
    BY <1>1, <2>1
<1>4. ASSUME NEW h \in H PROVE <<h, good[h]>> \in Hosts(list)
  <2>1. PICK i \in DOMAIN list : list[i].host = h
    BY <1>2
  <2>2. <<list[i].host, [f \in HostFigures |-> list[i][f]]>> \in Hosts(list)
    BY DEF Hosts
  <2> QED
    BY <1>1, <2>1, <2>2
<1> QED
  BY <1>3, <1>4

\* The largest number.
LEMMA MaxIs ==
    ASSUME NEW S \in SUBSET Nat, NEW n \in S, \A m \in S : m <= n
    PROVE  Max(S) = n
<1>1. PICK k : k = Max(S)
  OBVIOUS
<1>2. k \in S /\ \A x \in S : k >= x
  BY <1>1 DEF Max
<1>3. k \in Nat /\ n \in Nat /\ k <= n /\ n <= k
  BY <1>2
<1> QED
  BY <1>1, <1>3

\* With results the greatest figure is not that of a host that does not exist.
LEMMA MaxWithZero ==
    ASSUME NEW H, IsFiniteSet(H), H # {}, NEW good, NEW f, \A h \in H : good[h][f] \in Nat
    PROVE  /\ Max({0} \cup HostsFigures(good, H, f)) = Max(HostsFigures(good, H, f))
           /\ \E h \in H : Max(HostsFigures(good, H, f)) = good[h][f]
<1>1. PICK v : v = [h \in H |-> good[h][f]]
  OBVIOUS
<1>2. \A h \in H : v[h] = good[h][f] /\ v[h] \in Nat
  BY <1>1
<1>3. PICK u \in H : \A h \in H : v[h] <= v[u]
  BY <1>2, LargestExists
<1>4. PICK S, T : S = HostsFigures(good, H, f) /\ T = {0} \cup S
  OBVIOUS
<1>5. \A x \in S : \E h \in H : x = v[h]
  BY <1>2, <1>4 DEF HostsFigures
<1>6. v[u] \in S
  BY <1>2, <1>4 DEF HostsFigures
<1>7. /\ S \in SUBSET Nat /\ \A m \in S : m <= v[u]
      /\ T \in SUBSET Nat /\ v[u] \in T /\ \A m \in T : m <= v[u]
  BY <1>2, <1>3, <1>4, <1>5, <1>6
<1>8. Max(S) = v[u] /\ Max(T) = v[u]
  BY <1>6, <1>7, MaxIs
<1> QED
  BY <1>2, <1>4, <1>8

-----------------------------------------------------------------------------
(* Lines of figures.                                                           *)

\* The lines of a host, one by one.
JavaOutput(lines, r) ==
    /\ Len(lines) = 5
    /\ lines[1].kind = "time" /\ lines[1].value = r.time
    /\ lines[2].kind = "thr" /\ lines[2].value = r.thr
    /\ lines[3].kind = "latency" /\ lines[3].value = r.latency
    /\ lines[4].kind = "latency" /\ lines[4].value = 1
    /\ lines[5].kind = "errors" /\ lines[5].value = r.errors

GoOutput(lines, r) ==
    /\ Len(lines) = 3
    /\ lines[1].kind = "time" /\ lines[1].value = r.time
    /\ lines[2].kind = "errors" /\ lines[2].value = r.errors
    /\ lines[3].kind = "total" /\ lines[3].value = r

\* What Java YCSB prints.
LEMMA JavaLines ==
    ASSUME format = "java", NEW r, NEW lines, lines = Output(r)
    PROVE  JavaOutput(lines, r)
<1>1. PICK a : a = [kind |-> "time", value |-> r.time]
  OBVIOUS
<1>2. PICK b : b = [kind |-> "thr", value |-> r.thr]
  OBVIOUS
<1>3. PICK c : c = [kind |-> "latency", value |-> r.latency]
  OBVIOUS
<1>4. PICK d : d = [kind |-> "latency", value |-> 1]
  OBVIOUS
<1>5. PICK e : e = [kind |-> "errors", value |-> r.errors]
  OBVIOUS
<1>6. lines = <<a, b, c, d, e>>
  BY <1>1, <1>2, <1>3, <1>4, <1>5 DEF Output
<1>7. /\ Len(lines) = 5 /\ lines[1] = a /\ lines[2] = b /\ lines[3] = c /\ lines[4] = d
      /\ lines[5] = e
  BY <1>6
<1> QED
  BY <1>1, <1>2, <1>3, <1>4, <1>5, <1>7 DEF JavaOutput

\* What the YCSB of CockroachDB prints.
LEMMA CockroachLines ==
    ASSUME format = "cockroach", NEW r, NEW lines, lines = Output(r)
    PROVE  /\ Len(lines) = 2 /\ lines[1].kind = "title"
           /\ DOMAIN lines[2].value = {"host"} \cup DOMAIN r
           /\ \A f \in DOMAIN r : f # "host" => lines[2].value[f] = r[f]
<1>1. PICK a : a = [kind |-> "title"]
  OBVIOUS
<1>2. PICK v : v = Put(r, "host", "")
  OBVIOUS
<1>3. PICK b : b = [kind |-> "values", value |-> v]
  OBVIOUS
<1>4. lines = <<a, b>>
  BY <1>1, <1>2, <1>3 DEF Output
<1>5. Len(lines) = 2 /\ lines[1] = a /\ lines[2] = b
  BY <1>4
<1>6. DOMAIN v = {"host"} \cup DOMAIN r /\ \A f \in DOMAIN r : f # "host" => v[f] = r[f]
  BY <1>2 DEF Put
<1> QED
  BY <1>1, <1>3, <1>5, <1>6

\* What the YCSB of Go prints.
LEMMA GoLines ==
    ASSUME format = "go", NEW r, NEW lines, lines = Output(r)
    PROVE  GoOutput(lines, r)
<1>1. PICK a : a = [kind |-> "time", value |-> r.time]
  OBVIOUS
<1>2. PICK b : b = [kind |-> "errors", value |-> r.errors]
  OBVIOUS
<1>3. PICK c : c = [kind |-> "total", value |-> r]
  OBVIOUS
<1>4. lines = <<a, b, c>>
  BY <1>1, <1>2, <1>3 DEF Output
<1>5. Len(lines) = 3 /\ lines[1] = a /\ lines[2] = b /\ lines[3] = c
  BY <1>4
<1> QED
  BY <1>1, <1>2, <1>3, <1>5 DEF GoOutput

\* The lines of YCSB go by one by one.
LEMMA RestNext ==
    ASSUME NEW lines, lines \in Seq(Range(lines)), lines # <<>>, NEW r, NEW k,
           Len(Output(r)) \in Nat, Rest(lines, r, k)
    PROVE  /\ k \in Nat /\ k + 1 <= Len(Output(r)) /\ Len(lines) = Len(Output(r)) - k
           /\ Head(lines) = Output(r)[k + 1]
           /\ Rest(Tail(lines), r, k + 1)
<1>1. PICK o, m, n : o = Output(r) /\ m = Len(o) /\ n = Len(lines)
  OBVIOUS
<1>2. /\ k \in 0 .. m /\ m \in Nat /\ n = m - k /\ n \in Nat /\ n # 0
      /\ \A j \in 1 .. n : lines[j] = o[k + j]
  BY <1>1 DEF Rest
<1>3. /\ Head(lines) = lines[1] /\ Len(Tail(lines)) = n - 1
      /\ \A j \in 1 .. (n - 1) : Tail(lines)[j] = lines[j + 1]
  <2>1. PICK S : lines \in Seq(S)
    OBVIOUS
  <2>2. /\ Head(lines) = lines[1] /\ Len(Tail(lines)) = Len(lines) - 1
        /\ \A j \in 1 .. (Len(lines) - 1) : Tail(lines)[j] = lines[j + 1]
    BY <2>1
  <2> QED
    BY <1>1, <2>2
<1>4. lines[1] = o[k + 1]
  BY <1>2
<1>5. ASSUME NEW j \in 1 .. (n - 1) PROVE Tail(lines)[j] = o[(k + 1) + j]
  <2>1. j + 1 \in 1 .. n /\ k + (j + 1) = (k + 1) + j
    BY <1>2
  <2> QED
    BY <1>2, <1>3, <2>1
<1>6. k + 1 \in 0 .. m /\ n - 1 = m - (k + 1)
  BY <1>2
<1>7. Rest(Tail(lines), r, k + 1)
  BY <1>1, <1>3, <1>5, <1>6 DEF Rest
<1> QED
  BY <1>1, <1>2, <1>3, <1>4, <1>6, <1>7

\* q is p but for the figures of the current result.
SameBut(p, q) ==
    /\ DOMAIN q = ParserFields
    /\ q.workload = p.workload /\ q.when = p.when /\ q.count = p.count
    /\ q.lists = p.lists /\ q.per = p.per /\ q.results = p.results
    /\ DOMAIN q.cur = DOMAIN p.cur /\ q.cur.host = p.cur.host

\* A figure of the current result is set.
FigureIs(p, q, f, v) == q = [p EXCEPT !.cur = [p.cur EXCEPT ![f] = v]]

\* A figure is set, the rest of the result stays.
LEMMA FigureSet ==
    ASSUME NEW p, DOMAIN p = ParserFields, DOMAIN p.cur = {"host"} \cup HostFigures,
           NEW f \in HostFigures, NEW v, NEW q, FigureIs(p, q, f, v)
    PROVE  /\ SameBut(p, q) /\ q.title = p.title /\ q.finished = p.finished
           /\ q.cur[f] = v /\ \A g \in HostFigures : g # f => q.cur[g] = p.cur[g]
<1>1. PICK c : c = p.cur
  OBVIOUS
<1>2. PICK d : d = [c EXCEPT ![f] = v]
  OBVIOUS
<1>3. /\ DOMAIN d = DOMAIN c /\ d.host = c.host /\ d[f] = v
      /\ \A g \in HostFigures : g # f => d[g] = c[g]
  BY <1>1, <1>2 DEF HostFigures
<1>4. q = [p EXCEPT !.cur = d]
  BY <1>1, <1>2 DEF FigureIs
<1> QED
  BY <1>1, <1>3, <1>4 DEF SameBut, ParserFields

\* A parser of which the fields are known.
FieldsOK(p) == DOMAIN p = ParserFields /\ DOMAIN p.cur = {"host"} \cup HostFigures

\* The figures of a result are numbers; its time and latency are not 0.
LEMMA ResultFacts ==
    ASSUME NEW r \in Results
    PROVE  /\ DOMAIN r = HostFigures /\ \A f \in HostFigures : r[f] \in Nat
           /\ r.thr \in Nat /\ r.errors \in Nat /\ r.latency \in Nat /\ r.time \in Nat
           /\ r.latency > 0 /\ r.time > 0
<1>1. r \in [HostFigures -> Nat] /\ r.latency > 0 /\ r.time > 0
  BY YcsbAssumption
<1> QED
  BY <1>1 DEF HostFigures

\* One more line of the five of Java is read.  The second latency does not hide the first.
LEMMA JavaFigure ==
    ASSUME format = "java", NEW p, FieldsOK(p), NEW r \in Results, NEW lines,
           lines \in Seq(Range(lines)), lines # <<>>, NEW k, Rest(lines, r, k),
           NEW q, q = ParseJava(p, Head(lines))
    PROVE  /\ SameBut(p, q) /\ q.title = p.title
           /\ FiguresRead(p.cur, p.finished, r, k) => FiguresRead(q.cur, q.finished, r, k + 1)
<1>1. PICK line : line = Head(lines)
  OBVIOUS
<1>2. PICK o : o = Output(r)
  OBVIOUS
<1>3. /\ Len(o) = 5
      /\ o[1].kind = "time" /\ o[1].value = r.time
      /\ o[2].kind = "thr" /\ o[2].value = r.thr
      /\ o[3].kind = "latency" /\ o[3].value = r.latency
      /\ o[4].kind = "latency" /\ o[4].value = 1
      /\ o[5].kind = "errors" /\ o[5].value = r.errors
  <2>1. JavaOutput(o, r)
    BY <1>2, JavaLines
  <2> QED
    BY <2>1 DEF JavaOutput
<1>4. k \in Nat /\ k + 1 <= 5 /\ line = o[k + 1]
  BY <1>1, <1>2, <1>3, RestNext
<1>5. DOMAIN p = ParserFields /\ DOMAIN p.cur = {"host"} \cup HostFigures
  BY DEF FieldsOK
<1>6. /\ "time" \in HostFigures /\ "thr" \in HostFigures /\ "latency" \in HostFigures
      /\ "errors" \in HostFigures
  BY DEF HostFigures
<1>7. r.latency \in Nat /\ r.latency > 0
  BY ResultFacts
<1>8. CASE k = 0
  <2>1. line.kind = "time" /\ line.value = r.time
    BY <1>3, <1>4, <1>8
  <2>2. FigureIs(p, q, "time", r.time)
    BY <1>1, <2>1 DEF ParseJava, FigureIs
  <2>3. /\ SameBut(p, q) /\ q.title = p.title /\ q.cur["time"] = r.time
        /\ \A g \in HostFigures : g # "time" => q.cur[g] = p.cur[g]
    BY <1>5, <1>6, <2>2, FigureSet
  <2>4. FiguresRead(p.cur, p.finished, r, 0) => FiguresRead(q.cur, q.finished, r, 1)
    BY <1>6, <2>3 DEF FiguresRead
  <2> QED
    BY <1>8, <2>3, <2>4
<1>9. CASE k = 1
  <2>1. line.kind = "thr" /\ line.value = r.thr
    BY <1>3, <1>4, <1>9
  <2>2. FigureIs(p, q, "thr", r.thr)
    BY <1>1, <2>1 DEF ParseJava, FigureIs
  <2>3. /\ SameBut(p, q) /\ q.title = p.title /\ q.cur["thr"] = r.thr
        /\ \A g \in HostFigures : g # "thr" => q.cur[g] = p.cur[g]
    BY <1>5, <1>6, <2>2, FigureSet
  <2>4. FiguresRead(p.cur, p.finished, r, 1) => FiguresRead(q.cur, q.finished, r, 2)
    BY <1>6, <2>3 DEF FiguresRead
  <2> QED
    BY <1>9, <2>3, <2>4
<1>10. CASE k = 2
  <2>1. line.kind = "latency" /\ line.value = r.latency
    BY <1>3, <1>4, <1>10
  <2>2. PICK v : v = Max({p.cur.latency, r.latency})
    OBVIOUS
  <2>3. FigureIs(p, q, "latency", v)
    BY <1>1, <2>1, <2>2 DEF ParseJava, FigureIs
  <2>4. /\ SameBut(p, q) /\ q.title = p.title /\ q.cur["latency"] = v
        /\ \A g \in HostFigures : g # "latency" => q.cur[g] = p.cur[g]
    BY <1>5, <1>6, <2>3, FigureSet
  <2>5. ASSUME FiguresRead(p.cur, p.finished, r, 2) PROVE FiguresRead(q.cur, q.finished, r, 3)
    <3>1. p.cur.latency = 0
      BY <2>5 DEF FiguresRead
    <3>2. v = r.latency
      <4>1. PICK S : S = {0, r.latency}
        OBVIOUS
      <4>2. S \in SUBSET Nat /\ r.latency \in S /\ \A m \in S : m <= r.latency
        BY <1>7, <4>1
      <4>3. Max(S) = r.latency
        BY <4>2, MaxIs
      <4> QED
        BY <2>2, <3>1, <4>1, <4>3
    <3> QED
      BY <1>6, <2>4, <2>5, <3>2 DEF FiguresRead
  <2> QED
    BY <1>10, <2>4, <2>5
<1>11. CASE k = 3
  <2>1. line.kind = "latency" /\ line.value = 1
    BY <1>3, <1>4, <1>11
  <2>2. PICK v : v = Max({p.cur.latency, 1})
    OBVIOUS
  <2>3. FigureIs(p, q, "latency", v)
    BY <1>1, <2>1, <2>2 DEF ParseJava, FigureIs
  <2>4. /\ SameBut(p, q) /\ q.title = p.title /\ q.cur["latency"] = v
        /\ \A g \in HostFigures : g # "latency" => q.cur[g] = p.cur[g]
    BY <1>5, <1>6, <2>3, FigureSet
  <2>5. ASSUME FiguresRead(p.cur, p.finished, r, 3) PROVE FiguresRead(q.cur, q.finished, r, 4)
    <3>1. p.cur.latency = r.latency
      BY <2>5 DEF FiguresRead
    <3>2. v = r.latency
      <4>1. PICK S : S = {r.latency, 1}
        OBVIOUS
      <4>2. S \in SUBSET Nat /\ r.latency \in S /\ \A m \in S : m <= r.latency
        BY <1>7, <4>1
      <4>3. Max(S) = r.latency
        BY <4>2, MaxIs
      <4> QED
        BY <2>2, <3>1, <4>1, <4>3
    <3> QED
      BY <1>6, <2>4, <2>5, <3>2 DEF FiguresRead
  <2> QED
    BY <1>11, <2>4, <2>5
<1>12. CASE k = 4
  <2>1. line.kind = "errors" /\ line.value = r.errors
    BY <1>3, <1>4, <1>12
  <2>2. FigureIs(p, q, "errors", r.errors)
    BY <1>1, <2>1 DEF ParseJava, FigureIs
  <2>3. /\ SameBut(p, q) /\ q.title = p.title /\ q.cur["errors"] = r.errors
        /\ \A g \in HostFigures : g # "errors" => q.cur[g] = p.cur[g]
    BY <1>5, <1>6, <2>2, FigureSet
  <2>4. FiguresRead(p.cur, p.finished, r, 4) => FiguresRead(q.cur, q.finished, r, 5)
    BY <1>6, <2>3 DEF FiguresRead
  <2> QED
    BY <1>12, <2>3, <2>4
<1> QED
  BY <1>4, <1>8, <1>9, <1>10, <1>11, <1>12

\* The title or the figures are read.
LEMMA CockroachFigure ==
    ASSUME format = "cockroach", NEW p, FieldsOK(p), NEW r \in Results, NEW lines,
           lines \in Seq(Range(lines)), lines # <<>>, NEW k, Rest(lines, r, k),
           (p.title <=> Len(lines) = 1),
           NEW q, q = ParseCockroach(p, Head(lines))
    PROVE  /\ SameBut(p, q) /\ (q.title <=> Len(Tail(lines)) = 1)
           /\ FiguresRead(q.cur, q.finished, r, k + 1)
<1>1. PICK line : line = Head(lines)
  OBVIOUS
<1>2. PICK o : o = Output(r)
  OBVIOUS
<1>3. /\ Len(o) = 2 /\ o[1].kind = "title"
      /\ DOMAIN o[2].value = {"host"} \cup DOMAIN r
      /\ \A f \in DOMAIN r : f # "host" => o[2].value[f] = r[f]
  BY <1>2, CockroachLines
<1>4. k \in Nat /\ k + 1 <= 2 /\ line = o[k + 1] /\ Len(lines) = 2 - k
  <2>1. Len(Output(r)) = 2
    BY <1>2, <1>3
  <2>2. /\ k \in Nat /\ k + 1 <= Len(Output(r)) /\ Len(lines) = Len(Output(r)) - k
        /\ Head(lines) = Output(r)[k + 1]
    <3>1. Len(Output(r)) \in Nat
      BY <2>1
    <3> QED
      BY <3>1, RestNext
  <2> QED
    BY <1>1, <1>2, <2>1, <2>2
<1>5. DOMAIN p = ParserFields /\ DOMAIN p.cur = {"host"} \cup HostFigures
  BY DEF FieldsOK
<1>6. DOMAIN r = HostFigures
  BY ResultFacts
<1>7. Len(Tail(lines)) = Len(lines) - 1
  <2>1. PICK S : lines \in Seq(S)
    OBVIOUS
  <2> QED
    BY <2>1
<1>8. CASE k = 0
  <2>1. line.kind = "title" /\ Len(lines) = 2 /\ Len(Tail(lines)) = 1
    BY <1>3, <1>4, <1>7, <1>8
  <2>2. ~p.title
    BY <2>1
  <2>3. q = [p EXCEPT !.title = TRUE]
    BY <1>1, <2>1, <2>2 DEF ParseCockroach
  <2>4. SameBut(p, q) /\ q.title
    BY <1>5, <2>3 DEF SameBut, ParserFields
  <2>5. FiguresRead(q.cur, q.finished, r, 1)
    BY DEF FiguresRead
  <2> QED
    BY <1>8, <2>1, <2>3, <2>4, <2>5
<1>9. CASE k = 1
  <2>1. line = o[2] /\ Len(lines) = 1 /\ Len(Tail(lines)) = 0
    BY <1>4, <1>7, <1>9
  <2>2. p.title
    BY <2>1
  <2>3. PICK v : v = line.value
    OBVIOUS
  <2>4. PICK d : d = [v EXCEPT !.host = p.cur.host]
    OBVIOUS
  <2>5. q = [p EXCEPT !.title = FALSE, !.cur = d]
    BY <1>1, <2>2, <2>3, <2>4 DEF ParseCockroach
  <2>6. /\ DOMAIN d = {"host"} \cup HostFigures /\ d.host = p.cur.host
        /\ \A f \in HostFigures : d[f] = r[f]
    BY <1>3, <1>6, <2>1, <2>3, <2>4 DEF HostFigures
  <2>7. q.cur = d /\ q.title = FALSE
    BY <1>5, <2>5 DEF ParserFields
  <2>8. SameBut(p, q)
    BY <1>5, <2>5, <2>6 DEF SameBut, ParserFields
  <2>9. FiguresRead(q.cur, q.finished, r, 2)
    BY <2>6, <2>7 DEF FiguresRead
  <2> QED
    BY <1>9, <2>1, <2>7, <2>8, <2>9
<1> QED
  BY <1>4, <1>8, <1>9

\* One more line of the three of Go is read.
LEMMA GoFigure ==
    ASSUME format = "go", NEW p, FieldsOK(p), NEW r \in Results, NEW lines,
           lines \in Seq(Range(lines)), lines # <<>>, NEW k, Rest(lines, r, k),
           NEW q, q = ParseGo(p, Head(lines))
    PROVE  /\ SameBut(p, q)
           /\ FiguresRead(p.cur, p.finished, r, k) => FiguresRead(q.cur, q.finished, r, k + 1)
<1>1. PICK line : line = Head(lines)
  OBVIOUS
<1>2. PICK o : o = Output(r)
  OBVIOUS
<1>3. /\ Len(o) = 3
      /\ o[1].kind = "time" /\ o[1].value = r.time
      /\ o[2].kind = "errors" /\ o[2].value = r.errors
      /\ o[3].kind = "total" /\ o[3].value = r
  <2>1. GoOutput(o, r)
    BY <1>2, GoLines
  <2> QED
    BY <2>1 DEF GoOutput
<1>4. k \in Nat /\ k + 1 <= 3 /\ line = o[k + 1]
  BY <1>1, <1>2, <1>3, RestNext
<1>5. DOMAIN p = ParserFields /\ DOMAIN p.cur = {"host"} \cup HostFigures
  BY DEF FieldsOK
<1>6. /\ "time" \in HostFigures /\ "thr" \in HostFigures /\ "latency" \in HostFigures
      /\ "errors" \in HostFigures
  BY DEF HostFigures
<1>7. SameBut(p, p)
  BY <1>5 DEF SameBut
<1>8. CASE k = 0
  <2>1. line.kind = "time" /\ line.value = r.time
    BY <1>3, <1>4, <1>8
  <2>2. PICK c : c = p.cur
    OBVIOUS
  <2>3. PICK d : d = [c EXCEPT !.time = r.time]
    OBVIOUS
  <2>4. q = [p EXCEPT !.cur = d, !.finished = TRUE]
    BY <1>1, <2>1, <2>2, <2>3 DEF ParseGo
  <2>5. /\ DOMAIN d = DOMAIN c /\ d.host = c.host /\ d.time = r.time /\ d.errors = c.errors
    BY <1>5, <2>2, <2>3 DEF HostFigures
  <2>6. q.cur = d /\ q.finished = TRUE
    BY <1>5, <2>4 DEF ParserFields
  <2>7. SameBut(p, q)
    BY <1>5, <2>2, <2>4, <2>5 DEF SameBut, ParserFields
  <2>8. FiguresRead(p.cur, p.finished, r, 0) => FiguresRead(q.cur, q.finished, r, 1)
    BY <2>2, <2>5, <2>6 DEF FiguresRead
  <2> QED
    BY <1>8, <2>7, <2>8
<1>9. CASE k = 1
  <2>1. line.kind = "errors" /\ line.value = r.errors
    BY <1>3, <1>4, <1>9
  <2>2. CASE p.finished
    <3>1. PICK v : v = p.cur.errors + r.errors
      OBVIOUS
    <3>2. FigureIs(p, q, "errors", v)
      BY <1>1, <2>1, <2>2, <3>1 DEF ParseGo, FigureIs
    <3>3. /\ SameBut(p, q) /\ q.finished = p.finished /\ q.cur["errors"] = v
          /\ \A g \in HostFigures : g # "errors" => q.cur[g] = p.cur[g]
      BY <1>5, <1>6, <3>2, FigureSet
    <3>4. ASSUME FiguresRead(p.cur, p.finished, r, 1)
          PROVE  FiguresRead(q.cur, q.finished, r, 2)
      <4>1. p.cur.errors = 0 /\ p.finished /\ p.cur.time = r.time
        BY <3>4 DEF FiguresRead
      <4>2. v = r.errors
        BY <3>1, <4>1, ResultFacts
      <4>3. q.cur.time = r.time /\ q.cur.errors = r.errors /\ q.finished
        BY <1>6, <3>3, <4>1, <4>2
      <4> QED
        BY <4>3 DEF FiguresRead
    <3> QED
      BY <1>9, <3>3, <3>4
  <2>3. CASE ~p.finished
    <3>1. q = p
      BY <1>1, <2>1, <2>3 DEF ParseGo, Common
    <3>2. ~FiguresRead(p.cur, p.finished, r, 1)
      BY <2>3 DEF FiguresRead
    <3> QED
      BY <1>7, <1>9, <3>1, <3>2
  <2> QED
    BY <2>2, <2>3
<1>10. CASE k = 2
  <2>1. line.kind = "total" /\ line.value = r
    BY <1>3, <1>4, <1>10
  <2>2. CASE p.finished
    <3>1. PICK c : c = p.cur
      OBVIOUS
    <3>2. PICK d : d = [c EXCEPT !.thr = r.thr, !.latency = r.latency]
      OBVIOUS
    <3>3. q = [p EXCEPT !.cur = d]
      BY <1>1, <2>1, <2>2, <3>1, <3>2 DEF ParseGo
    <3>4. /\ DOMAIN d = DOMAIN c /\ d.host = c.host /\ d.time = c.time
          /\ d.errors = c.errors /\ d.thr = r.thr /\ d.latency = r.latency
      BY <1>5, <3>1, <3>2 DEF HostFigures
    <3>5. q.cur = d /\ q.finished = p.finished
      BY <1>5, <3>3 DEF ParserFields
    <3>6. SameBut(p, q)
      BY <1>5, <3>1, <3>3, <3>4 DEF SameBut, ParserFields
    <3>7. FiguresRead(p.cur, p.finished, r, 2) => FiguresRead(q.cur, q.finished, r, 3)
      BY <3>1, <3>4, <3>5 DEF FiguresRead
    <3> QED
      BY <1>10, <3>6, <3>7
  <2>3. CASE ~p.finished
    <3>1. q = p
      BY <1>1, <2>1, <2>3 DEF ParseGo, Common
    <3>2. ~FiguresRead(p.cur, p.finished, r, 2)
      BY <2>3 DEF FiguresRead
    <3> QED
      BY <1>7, <1>10, <3>1, <3>2
  <2> QED
    BY <2>2, <2>3
<1> QED
  BY <1>4, <1>8, <1>9, <1>10

\* A line of figures changes nothing but the current result, which gets its figure.
LEMMA FigureStep ==
    ASSUME format \in {"java", "cockroach", "go"}, NEW p, FieldsOK(p), NEW r \in Results,
           NEW lines, lines \in Seq(Range(lines)), lines # <<>>, NEW k, Rest(lines, r, k),
           format = "cockroach" => (p.title <=> Len(lines) = 1),
           NEW q, q = Parse(p, Head(lines))
    PROVE  /\ SameBut(p, q)
           /\ format = "cockroach" => (q.title <=> Len(Tail(lines)) = 1)
           /\ k + 1 \in 0 .. 5 /\ Rest(Tail(lines), r, k + 1)
           /\ FiguresRead(p.cur, p.finished, r, k) => FiguresRead(q.cur, q.finished, r, k + 1)
<1>1. CASE format = "java"
  <2>1. q = ParseJava(p, Head(lines))
    BY <1>1 DEF Parse
  <2>2. Len(Output(r)) = 5
    BY <1>1, JavaLines DEF JavaOutput
  <2> QED
    BY <1>1, <2>1, <2>2, JavaFigure, RestNext
<1>2. CASE format = "cockroach"
  <2>1. q = ParseCockroach(p, Head(lines))
    BY <1>2 DEF Parse
  <2>2. Len(Output(r)) = 2
    BY <1>2, CockroachLines
  <2> QED
    BY <1>2, <2>1, <2>2, CockroachFigure, RestNext
<1>3. CASE format = "go"
  <2>1. q = ParseGo(p, Head(lines))
    BY <1>3 DEF Parse
  <2>2. Len(Output(r)) = 3
    BY <1>3, GoLines DEF GoOutput
  <2> QED
    BY <1>3, <2>1, <2>2, GoFigure, RestNext
<1> QED
  BY <1>1, <1>2, <1>3

-----------------------------------------------------------------------------
(* Lines of the script.                                                        *)

\* A line of the script is read as all parsers read it, or that of Go skips it.
LEMMA ScriptLine ==
    ASSUME format \in {"java", "cockroach", "go"}, NEW p,
           format = "cockroach" => ~p.title,
           NEW line, line.kind \in {"header", "host", "done"}
    PROVE  /\ format = "go" /\ p.finished => Parse(p, line) = p
           /\ ~(format = "go" /\ p.finished) => Parse(p, line) = Common(p, line)
<1>1. CASE format = "java"
  BY <1>1 DEF Parse, ParseJava
<1>2. CASE format = "cockroach"
  BY <1>2 DEF Parse, ParseCockroach
<1>3. CASE format = "go"
  BY <1>3 DEF Parse, ParseGo
<1> QED
  BY <1>1, <1>2, <1>3

\* Of p the list of the current run may get another element, in q.
ListEnds(p, q) ==
    /\ DOMAIN q = ParserFields /\ q.when = p.when /\ q.count = p.count /\ q.per = p.per
    /\ DOMAIN q.lists = DOMAIN p.lists
    /\ \A i \in DOMAIN p.lists : i # p.per => q.lists[i] = p.lists[i]
    /\ q.lists[p.per] = IF p.cur.host = "" THEN p.lists[p.per]
                                           ELSE Append(p.lists[p.per], p.cur)

\* The last host joins the list; nothing else changes.
LEMMA WithHostFields ==
    ASSUME NEW p, ParserOK(p), NEW q, q = WithHost(p)
    PROVE  /\ ListEnds(p, q)
           /\ q.workload = p.workload /\ q.cur = p.cur /\ q.title = p.title
           /\ q.finished = p.finished /\ q.results = p.results
<1>1. DOMAIN p = ParserFields /\ p.lists \in Seq(Range(p.lists)) /\ p.per \in 1 .. Len(p.lists)
  BY DEF ParserOK
<1>2. CASE p.cur.host = ""
  BY <1>1, <1>2 DEF WithHost, ListEnds
<1>3. CASE p.cur.host # ""
  <2>1. PICK e : e = Append(p.lists[p.per], p.cur)
    OBVIOUS
  <2>2. PICK ps : ps = p.lists
    OBVIOUS
  <2>3. PICK ls : ls = [ps EXCEPT ![p.per] = e]
    OBVIOUS
  <2>4. q = [p EXCEPT !.lists = ls]
    BY <1>3, <2>1, <2>2, <2>3 DEF WithHost
  <2>5. p.per \in DOMAIN ps
    BY <1>1, <2>2
  <2>6. DOMAIN ls = DOMAIN ps /\ ls[p.per] = e /\ \A i \in DOMAIN ps : i # p.per => ls[i] = ps[i]
    BY <2>3, <2>5
  <2>7. /\ DOMAIN q = ParserFields /\ q.lists = ls /\ q.per = p.per /\ q.when = p.when
        /\ q.count = p.count /\ q.workload = p.workload /\ q.cur = p.cur
        /\ q.title = p.title /\ q.finished = p.finished /\ q.results = p.results
    BY <1>1, <2>4 DEF ParserFields
  <2> QED
    BY <1>3, <2>1, <2>2, <2>6, <2>7 DEF ListEnds
<1> QED
  BY <1>2, <1>3

\* The results of q are those of p, but for what is put at p.when.
ResultsEnd(p, q) ==
    /\ DOMAIN p.results \subseteq DOMAIN q.results
    /\ DOMAIN q.results \subseteq {p.when} \cup DOMAIN p.results
    /\ \A i \in DOMAIN p.results : i # p.when => q.results[i] = p.results[i]

\* q is p with the totals of its workload among the results, unless there are none.
WorkloadAdded(p, q) ==
    /\ DOMAIN q = ParserFields /\ q.workload = p.workload /\ q.when = p.when
    /\ q.count = p.count /\ q.lists = p.lists /\ q.per = p.per /\ q.cur = p.cur
    /\ q.title = p.title /\ q.finished = p.finished
    /\ ResultsEnd(p, q)
    /\ p.workload = "" \/ Aggregated(p).maxTime = 0 => q = p
    /\ p.workload # "" /\ Aggregated(p).maxTime # 0 =>
          p.when \in DOMAIN q.results /\ q.results[p.when] = Aggregated(p)

\* The totals of the workload are added, unless there is nothing to add.
LEMMA AddWorkloadFields ==
    ASSUME NEW p, DOMAIN p = ParserFields, NEW q, q = AddWorkload(p)
    PROVE  WorkloadAdded(p, q)
<1>1. CASE p.workload = "" \/ Aggregated(p).maxTime = 0
  BY <1>1 DEF AddWorkload, ResultsEnd, WorkloadAdded
<1>2. CASE ~(p.workload = "" \/ Aggregated(p).maxTime = 0)
  <2>1. PICK total : total = Aggregated(p)
    OBVIOUS
  <2>2. PICK dict, key : dict = p.results /\ key = p.when
    OBVIOUS
  <2>3. PICK results : results = Put(dict, key, total)
    OBVIOUS
  <2>4. /\ DOMAIN results = {key} \cup DOMAIN dict /\ results[key] = total
        /\ \A i \in DOMAIN dict : i # key => results[i] = dict[i]
    BY <2>3 DEF Put
  <2>5. q = [p EXCEPT !.results = results]
    BY <1>2, <2>1, <2>2, <2>3 DEF AddWorkload
  <2>6. /\ DOMAIN q = ParserFields /\ q.workload = p.workload /\ q.when = p.when
        /\ q.count = p.count /\ q.lists = p.lists /\ q.per = p.per /\ q.cur = p.cur
        /\ q.title = p.title /\ q.finished = p.finished /\ q.results = results
    BY <2>5 DEF ParserFields
  <2>7. ResultsEnd(p, q)
    BY <2>2, <2>4, <2>6 DEF ResultsEnd
  <2> QED
    BY <1>2, <2>1, <2>2, <2>4, <2>6, <2>7 DEF WorkloadAdded
<1> QED
  BY <1>1, <1>2

\* An empty list has no largest time.
LEMMA NothingAggregated ==
    ASSUME NEW p, p.lists[p.per] = <<>>
    PROVE  Aggregated(p).maxTime = 0
<1>1. PICK list : list = p.lists[p.per]
  OBVIOUS
<1>2. Aggregated(p).maxTime = Biggest(list, "time")
  BY <1>1 DEF Aggregated
<1>3. PICK S : S = {0} \cup {list[i].time : i \in DOMAIN list}
  OBVIOUS
<1>4. S = {0}
  BY <1>1, <1>3
<1>5. S \in SUBSET Nat /\ 0 \in S /\ \A m \in S : m <= 0
  BY <1>4
<1>6. Biggest(list, "time") = Max(S)
  BY <1>3 DEF Biggest
<1> QED
  BY <1>2, <1>5, <1>6, MaxIs

\* The largest figure of a list is that of the hosts.
LEMMA BiggestHeld ==
    ASSUME NEW list, NEW good, NEW H, IsFiniteSet(H), H # {}, Holds(list, good, H),
           Good(good, H), NEW f \in HostFigures
    PROVE  /\ Biggest(list, f) = Max(HostsFigures(good, H, f))
           /\ \E h \in H : Biggest(list, f) = good[h][f]
<1>1. Biggest(list, f) = Max({0} \cup ListFigures(list, f))
  BY DEF Biggest, ListFigures
<1>2. ListFigures(list, f) = HostsFigures(good, H, f)
  BY FiguresHeld
<1>3. \A h \in H : good[h][f] \in Nat
  BY DEF Good
<1>4. /\ Max({0} \cup HostsFigures(good, H, f)) = Max(HostsFigures(good, H, f))
      /\ \E h \in H : Max(HostsFigures(good, H, f)) = good[h][f]
  BY <1>3, MaxWithZero
<1> QED
  BY <1>1, <1>2, <1>4

\* A list that has what the hosts of a run reported gives its totals.
LEMMA AggregatedHeld ==
    ASSUME NEW p, NEW run, RunOK(run), DOMAIN run.good # {},
           Holds(p.lists[p.per], run.good, DOMAIN run.good),
           p.workload = run.workload, p.count = run.count
    PROVE  Aggregated(p) = Totals(run, p.per) /\ Aggregated(p).maxTime # 0
<1>1. PICK list : list = p.lists[p.per]
  OBVIOUS
<1>2. PICK good : good = run.good
  OBVIOUS
<1>3. PICK H : H = DOMAIN good
  OBVIOUS
<1>4. /\ Holds(list, good, H) /\ H # {} /\ H \in SUBSET YcsbHosts
      /\ \A h \in H : good[h] \in Results
  BY <1>1, <1>2, <1>3 DEF RunOK
<1>5. IsFiniteSet(H)
  BY <1>4, FS_Subset, YcsbAssumption
<1>6. Good(good, H)
  BY <1>4, ResultFacts DEF Good
<1>7. "latency" \in HostFigures /\ "time" \in HostFigures
  BY DEF HostFigures
<1>8. /\ Biggest(list, "latency") = Max(HostsFigures(good, H, "latency"))
      /\ Biggest(list, "time") = Max(HostsFigures(good, H, "time"))
      /\ \E h \in H : Biggest(list, "time") = good[h]["time"]
  BY <1>4, <1>5, <1>6, <1>7, BiggestHeld
<1>9. ListFigures(list, "time") = HostsFigures(good, H, "time")
  BY <1>4, <1>7, FiguresHeld
<1>10. list # <<>>
  <2>1. PICK h \in H : \E i \in DOMAIN list : list[i].host = h
    BY <1>4 DEF Holds
  <2> QED
    BY <2>1
<1>11. /\ Total(list, "thr") = SumFunction([h \in H |-> good[h]["thr"]])
       /\ Total(list, "errors") = SumFunction([h \in H |-> good[h]["errors"]])
  BY <1>4 DEF Holds
<1>12. PICK a, b, c, d, e :
         /\ a = Total(list, "thr") /\ b = Total(list, "errors")
         /\ c = Biggest(list, "latency") /\ d = Biggest(list, "time")
         /\ e = Min(ListFigures(list, "time"))
  OBVIOUS
<1>13. Aggregated(p) = [workload |-> p.workload, count |-> p.count, per |-> p.per, thr |-> a,
                        errors |-> b, latency |-> c, maxTime |-> d, minTime |-> e]
  BY <1>1, <1>10, <1>12 DEF Aggregated, ListFigures
<1>14. Totals(run, p.per) = [workload |-> run.workload, count |-> run.count, per |-> p.per,
                            thr |-> a, errors |-> b, latency |-> c, maxTime |-> d, minTime |-> e]
  <2>1. /\ c = Max({good[h]["latency"] : h \in H}) /\ d = Max({good[h]["time"] : h \in H})
        /\ e = Min({good[h]["time"] : h \in H})
    BY <1>8, <1>9, <1>12 DEF HostsFigures
  <2>2. /\ a = SumFunction([h \in H |-> good[h]["thr"]])
        /\ b = SumFunction([h \in H |-> good[h]["errors"]])
    BY <1>11, <1>12
  <2> QED
    BY <1>2, <1>3, <2>1, <2>2 DEF Totals
<1>15. d # 0
  BY <1>4, <1>8, <1>12, ResultFacts
<1> QED
  BY <1>13, <1>14, <1>15

\* The log ends: the last host joins, and the totals are added.
LEMMA EndOfFileFields ==
    ASSUME NEW p, ParserOK(p), NEW q, q = EndOfFile(p)
    PROVE  /\ ListEnds(p, q) /\ ResultsEnd(p, q)
           /\ q.workload = p.workload /\ q.cur = p.cur /\ q.title = p.title
           /\ p.workload = "" => q.results = p.results
           /\ p.lists[p.per] = <<>> /\ p.cur.host = "" => q.results = p.results
<1>1. PICK w : w = WithHost(p)
  OBVIOUS
<1>2. /\ ListEnds(p, w) /\ w.workload = p.workload /\ w.cur = p.cur /\ w.title = p.title
      /\ w.results = p.results
  BY <1>1, WithHostFields
<1>3. DOMAIN w = ParserFields /\ w.when = p.when /\ w.count = p.count /\ w.per = p.per
  BY <1>2 DEF ListEnds
<1>4. q = AddWorkload(w)
  BY <1>1 DEF EndOfFile
<1>5. /\ DOMAIN q = ParserFields /\ q.workload = w.workload /\ q.when = w.when
      /\ q.count = w.count /\ q.lists = w.lists /\ q.per = w.per /\ q.cur = w.cur
      /\ q.title = w.title /\ ResultsEnd(w, q)
      /\ w.workload = "" \/ Aggregated(w).maxTime = 0 => q = w
  <2>1. WorkloadAdded(w, q)
    BY <1>3, <1>4, AddWorkloadFields
  <2> QED
    BY <2>1 DEF WorkloadAdded
<1>6. ListEnds(p, q)
  BY <1>2, <1>3, <1>5 DEF ListEnds
<1>7. ResultsEnd(p, q)
  BY <1>2, <1>3, <1>5 DEF ResultsEnd
<1>8. ASSUME p.lists[p.per] = <<>>, p.cur.host = "" PROVE q.results = p.results
  <2>1. w.lists[w.per] = <<>>
    BY <1>2, <1>3, <1>8 DEF ListEnds
  <2> QED
    BY <1>2, <1>5, <2>1, NothingAggregated
<1> QED
  BY <1>2, <1>5, <1>6, <1>7, <1>8

\* The end of a workload is that, and the parser forgets workload and host.
LEMMA DoneLineFields ==
    ASSUME NEW p, ParserOK(p), NEW q, q = DoneLine(p), NEW e, e = EndOfFile(p)
    PROVE  /\ DOMAIN q = ParserFields /\ q.lists = e.lists /\ q.per = p.per
           /\ q.results = e.results /\ q.title = p.title
           /\ q.workload = "" /\ q.cur = NoHost
<1>1. DOMAIN e = ParserFields /\ e.per = p.per /\ e.title = p.title
  BY EndOfFileFields DEF ListEnds
<1>2. q = [e EXCEPT !.cur = NoHost, !.workload = ""]
  BY DEF DoneLine, EndOfFile
<1> QED
  BY <1>1, <1>2 DEF ParserFields

\* A host begins: the one before it joins the list.
LEMMA HostLineFields ==
    ASSUME NEW p, ParserOK(p), NEW line, NEW q, q = HostLine(p, line)
    PROVE  /\ ListEnds(p, q)
           /\ q.workload = p.workload /\ q.title = p.title /\ ~q.finished
           /\ q.results = p.results
           /\ DOMAIN q.cur = {"host"} \cup HostFigures /\ q.cur.host = line.host
           /\ q.cur.latency = 0 /\ q.cur.errors = 0
<1>1. PICK w : w = WithHost(p)
  OBVIOUS
<1>2. /\ ListEnds(p, w) /\ w.workload = p.workload /\ w.title = p.title
      /\ w.results = p.results
  BY <1>1, WithHostFields
<1>3. PICK c : c = NoHost
  OBVIOUS
<1>4. PICK d : d = [c EXCEPT !.host = line.host]
  OBVIOUS
<1>5. /\ DOMAIN d = {"host"} \cup HostFigures /\ d.host = line.host
      /\ d.latency = 0 /\ d.errors = 0
  BY <1>3, <1>4 DEF NoHost, HostFigures
<1>6. q = [w EXCEPT !.cur = d, !.finished = FALSE]
  BY <1>1, <1>3, <1>4 DEF HostLine
<1>7. /\ DOMAIN q = ParserFields /\ q.workload = w.workload /\ q.when = w.when
      /\ q.count = w.count /\ q.lists = w.lists /\ q.per = w.per /\ q.cur = d
      /\ q.title = w.title /\ q.finished = FALSE /\ q.results = w.results
  BY <1>2, <1>6 DEF ParserFields, ListEnds
<1>8. ListEnds(p, q)
  BY <1>2, <1>7 DEF ListEnds
<1> QED
  BY <1>2, <1>5, <1>7, <1>8

\* A workload begins, with a list of its own.
LEMMA HeaderFields ==
    ASSUME NEW p, ParserOK(p), NEW line, NEW q, q = Header(p, line)
    PROVE  /\ DOMAIN q = ParserFields /\ q.workload = line.workload /\ q.when = line.when
           /\ q.count = line.count /\ q.cur = NoHost /\ q.title = p.title /\ ~q.finished
           /\ q.results = p.results
           /\ Len(p.lists) \in Nat /\ q.per = Len(p.lists) + 1 /\ q.lists[q.per] = <<>>
           /\ \A i \in 1 .. Len(p.lists) : q.lists[i] = p.lists[i]
<1>1. PICK ps, e : ps = p.lists /\ e = <<>>
  OBVIOUS
<1>2. PICK ls : ls = Append(ps, e)
  OBVIOUS
<1>3. ps \in Seq(Range(ps)) /\ DOMAIN p = ParserFields
  BY <1>1 DEF ParserOK
<1>4. /\ Len(ps) \in Nat /\ ls[Len(ps) + 1] = e /\ \A i \in 1 .. Len(ps) : ls[i] = ps[i]
  BY <1>2, <1>3, AppendFacts
<1>5. PICK c, n : c = NoHost /\ n = Len(ps) + 1
  OBVIOUS
<1>6. q = [p EXCEPT !.workload = line.workload, !.when = line.when, !.count = line.count,
                    !.lists = ls, !.per = n, !.cur = c, !.finished = FALSE]
  BY <1>1, <1>2, <1>5 DEF Header
<1>7. /\ DOMAIN q = ParserFields /\ q.workload = line.workload /\ q.when = line.when
      /\ q.count = line.count /\ q.cur = c /\ q.title = p.title /\ q.finished = FALSE
      /\ q.results = p.results /\ q.per = n /\ q.lists = ls
  BY <1>3, <1>6 DEF ParserFields
<1> QED
  BY <1>1, <1>4, <1>5, <1>7

-----------------------------------------------------------------------------
(* The runs that the parser is in.                                             *)

\* When all that the last host printed has been read, the parser has what it reported.
LEMMA LastReported ==
    ASSUME format \in {"java", "cockroach", "go"}, NEW p, NEW run, RunOK(run),
           DOMAIN run.good # {}, InRun(run, p, <<>>)
    PROVE  /\ p.cur.host \in DOMAIN run.good /\ p.cur.host # ""
           /\ Reported(p.cur, run.good, p.cur.host)
           /\ format = "go" => p.finished
<1>1. PICK h, r, c, lines : h = p.cur.host /\ r = run.good[h] /\ c = p.cur /\ lines = <<>>
  OBVIOUS
<1>2. SomeHeard(run.good, p, lines)
  BY <1>1 DEF InRun
<1>3. h \in DOMAIN run.good
  BY <1>1, <1>2 DEF SomeHeard
<1>4. PICK k \in 0 .. 5 : Rest(lines, r, k) /\ FiguresRead(c, p.finished, r, k)
  BY <1>1, <1>2 DEF SomeHeard
<1>5. r \in Results /\ h # ""
  BY <1>1, <1>3, YcsbAssumption DEF RunOK
<1>6. PICK m : m = Len(Output(r))
  OBVIOUS
<1>7. k \in 0 .. m /\ Len(lines) = m - k /\ Len(lines) = 0
  BY <1>1, <1>4, <1>6 DEF Rest
<1>8. ASSUME m \in Nat PROVE k = m
  BY <1>7, <1>8
<1>9. CASE format = "java"
  <2>1. m = 5
    BY <1>6, <1>9, JavaLines DEF JavaOutput
  <2>2. k = 5
    BY <1>8, <2>1
  <2>3. FiguresRead(c, p.finished, r, 5)
    BY <1>4, <2>2
  <2>4. c.time = r.time /\ c.thr = r.thr /\ c.latency = r.latency /\ c.errors = r.errors
    BY <1>9, <2>3 DEF FiguresRead
  <2>5. \A f \in HostFigures : c[f] = r[f]
    BY <2>4 DEF HostFigures
  <2> QED
    BY <1>1, <1>3, <1>5, <1>9, <2>5 DEF Reported
<1>10. CASE format = "cockroach"
  <2>1. m = 2
    BY <1>6, <1>10, CockroachLines
  <2>2. k = 2
    BY <1>8, <2>1
  <2>3. FiguresRead(c, p.finished, r, 2)
    BY <1>4, <2>2
  <2>4. \A f \in HostFigures : c[f] = r[f]
    BY <1>10, <2>3 DEF FiguresRead
  <2> QED
    BY <1>1, <1>3, <1>5, <1>10, <2>4 DEF Reported
<1>11. CASE format = "go"
  <2>1. m = 3
    <3>1. Len(Output(r)) = 3
      BY <1>11, GoLines DEF GoOutput
    <3> QED
      BY <1>6, <3>1
  <2>2. k = 3
    BY <1>8, <2>1
  <2>3. FiguresRead(c, p.finished, r, 3)
    BY <1>4, <2>2
  <2>4. /\ c.time = r.time /\ c.thr = r.thr /\ c.latency = r.latency /\ c.errors = r.errors
        /\ p.finished
    BY <1>11, <2>3 DEF FiguresRead
  <2>5. \A f \in HostFigures : c[f] = r[f]
    BY <2>4 DEF HostFigures
  <2> QED
    BY <1>1, <1>3, <1>5, <1>11, <2>4, <2>5 DEF Reported
<1> QED
  BY <1>9, <1>10, <1>11

\* Then its list, with the current result, has what all hosts reported.
LEMMA AllReported ==
    ASSUME format \in {"java", "cockroach", "go"}, NEW p, NEW run, RunOK(run),
           DOMAIN run.good # {}, InRun(run, p, <<>>)
    PROVE  Holds(Append(p.lists[p.per], p.cur), run.good, DOMAIN run.good)
<1>1. PICK h, good, c, list : /\ h = p.cur.host /\ good = run.good /\ c = p.cur
                              /\ list = p.lists[p.per]
  OBVIOUS
<1>2. PICK D : D = DOMAIN good
  OBVIOUS
<1>3. PICK H : H = D \ {h}
  OBVIOUS
<1>4. h \in D /\ Reported(c, good, h)
  BY <1>1, <1>2, LastReported
<1>5. Holds(list, good, H)
  BY <1>1, <1>2, <1>3 DEF InRun, SomeHeard
<1>6. D \in SUBSET YcsbHosts /\ \A x \in D : good[x] \in Results
  BY <1>1, <1>2 DEF RunOK
<1>7. IsFiniteSet(H)
  BY <1>3, <1>6, FS_Subset, YcsbAssumption
<1>8. D = H \cup {h} /\ h \notin H
  BY <1>3, <1>4
<1>9. Good(good, H \cup {h})
  BY <1>6, <1>8, ResultFacts DEF Good
<1>10. Holds(Append(list, c), good, H \cup {h})
  BY <1>4, <1>5, <1>7, <1>8, <1>9, HoldsMore
<1> QED
  BY <1>1, <1>2, <1>8, <1>10

\* When the parser leaves the run, it has its totals and its list.
LEMMA RunEnds ==
    ASSUME format \in {"java", "cockroach", "go"}, NEW p, ParserOK(p), NEW run, RunOK(run),
           DOMAIN run.good # {}, InRun(run, p, <<>>), NEW q, q = EndOfFile(p)
    PROVE  /\ run.when \in DOMAIN q.results /\ q.results[run.when] = Totals(run, p.per)
           /\ Holds(q.lists[p.per], run.good, DOMAIN run.good)
<1>1. PICK w : w = WithHost(p)
  OBVIOUS
<1>2. ListEnds(p, w) /\ w.workload = p.workload
  BY <1>1, WithHostFields
<1>3. /\ DOMAIN w = ParserFields /\ w.when = p.when /\ w.count = p.count /\ w.per = p.per
  BY <1>2 DEF ListEnds
<1>4. p.cur.host # ""
  BY LastReported
<1>5. PICK list : list = Append(p.lists[p.per], p.cur)
  OBVIOUS
<1>6. w.lists[p.per] = list
  BY <1>2, <1>4, <1>5 DEF ListEnds
<1>7. Holds(list, run.good, DOMAIN run.good)
  BY <1>5, AllReported
<1>8. /\ p.workload = run.workload /\ p.when = run.when /\ p.count = run.count
      /\ run.workload # ""
  BY DEF InRun, RunOK
<1>9. Aggregated(w) = Totals(run, w.per) /\ Aggregated(w).maxTime # 0
  BY <1>2, <1>3, <1>6, <1>7, <1>8, AggregatedHeld
<1>10. q = AddWorkload(w)
  BY <1>1 DEF EndOfFile
<1>11. /\ q.lists = w.lists
       /\ w.when \in DOMAIN q.results /\ q.results[w.when] = Aggregated(w)
  <2>1. w.workload # ""
    BY <1>2, <1>8
  <2>2. /\ q.lists = w.lists
        /\ w.workload # "" /\ Aggregated(w).maxTime # 0 =>
              w.when \in DOMAIN q.results /\ q.results[w.when] = Aggregated(w)
    BY <1>3, <1>10, AddWorkloadFields DEF WorkloadAdded
  <2> QED
    BY <1>9, <2>1, <2>2
<1> QED
  BY <1>3, <1>6, <1>7, <1>8, <1>9, <1>11

-----------------------------------------------------------------------------
(* How the log changes.                                                        *)

\* The last run of the log is now e.
Changed(e) ==
    /\ log # <<>> /\ log' # <<>> /\ Len(log') = Len(log) /\ log'[Len(log)] = e
    /\ Run' = e
    /\ \A i \in 1 .. Len(log) : i # Len(log) => log'[i] = log[i]

\* A run e has begun.
Added(e) ==
    /\ log' # <<>> /\ Len(log') = Len(log) + 1 /\ log'[Len(log) + 1] = e
    /\ Run' = e
    /\ \A i \in 1 .. Len(log) : log'[i] = log[i]

\* The log has indices 1 to its length, and its last run is Run.
LEMMA LogFacts ==
    ASSUME LogOK
    PROVE  /\ Len(log) \in Nat /\ DOMAIN log = 1 .. Len(log)
           /\ log # <<>> => Len(log) \in 1 .. Len(log) /\ Run = log[Len(log)]
           /\ log = <<>> <=> Len(log) = 0
<1>1. PICK s : s = log
  OBVIOUS
<1>2. s \in Seq(Range(s))
  BY <1>1 DEF LogOK
<1>3. Len(s) \in Nat /\ DOMAIN s = 1 .. Len(s) /\ (s = <<>> <=> Len(s) = 0)
  BY <1>2
<1>4. s # <<>> => Len(s) \in 1 .. Len(s)
  BY <1>3
<1> QED
  BY <1>1, <1>3, <1>4 DEF Run

\* An assignment to the last run changes it and no other.
LEMMA ChangedIs ==
    ASSUME LogOK, log # <<>>, NEW e, log' = [log EXCEPT ![Len(log)] = e]
    PROVE  Changed(e)
<1>1. PICK s : s = log
  OBVIOUS
<1>2. s \in Seq(Range(s)) /\ Len(s) \in Nat /\ Len(s) # 0 /\ DOMAIN s = 1 .. Len(s)
  BY <1>1, LogFacts DEF LogOK
<1>3. PICK t : t = [s EXCEPT ![Len(s)] = e]
  OBVIOUS
<1>4. Len(s) \in 1 .. Len(s)
  BY <1>2
<1>5. Len(t) = Len(s)
  BY <1>2, <1>3, <1>4, ReplaceFacts
<1>6. t[Len(s)] = e /\ \A i \in 1 .. Len(s) : i # Len(s) => t[i] = s[i]
  BY <1>2, <1>3, <1>4
<1>7. t # <<>>
  BY <1>2, <1>5
<1>8. log' = t /\ Run' = t[Len(t)]
  BY <1>1, <1>3 DEF Run
<1> QED
  BY <1>1, <1>2, <1>5, <1>6, <1>7, <1>8 DEF Changed

\* A new run follows the others.
LEMMA AddedIs ==
    ASSUME LogOK, NEW e, log' = Append(log, e)
    PROVE  Added(e)
<1>1. PICK s, t : s = log /\ t = Append(s, e)
  OBVIOUS
<1>2. s \in Seq(Range(s))
  BY <1>1 DEF LogOK
<1>3. /\ t \in Seq(Range(t)) /\ Len(s) \in Nat /\ Len(t) = Len(s) + 1
      /\ \A i \in 1 .. Len(s) : t[i] = s[i]
      /\ t[Len(s) + 1] = e
  BY <1>1, <1>2, AppendFacts
<1>4. t # <<>>
  BY <1>3
<1>5. log' = t /\ Run' = t[Len(t)]
  BY <1>1 DEF Run
<1> QED
  BY <1>1, <1>3, <1>4, <1>5 DEF Added

\* The last run is one of them.
LEMMA RunIsOK ==
    ASSUME LogOK, RunsOK, log # <<>>
    PROVE  RunOK(Run)
  BY LogFacts DEF RunsOK

\* Runs go on and end.
LEMMA RunsChanged ==
    ASSUME LogOK, RunsOK, NEW e, Changed(e), RunOK(e), e.when = Run.when
    PROVE  RunsOK'
<1>1. PICK n : n = Len(log)
  OBVIOUS
<1>2. /\ n \in Nat /\ n \in 1 .. n /\ Run = log[n] /\ Len(log') = n /\ log'[n] = e
      /\ \A i \in 1 .. n : i # n => log'[i] = log[i]
  BY <1>1, LogFacts DEF Changed
<1>3. \A i \in 1 .. n : RunOK(log'[i])
  BY <1>1, <1>2 DEF RunsOK
<1>4. ASSUME NEW i \in 1 .. n, NEW j \in 1 .. n, i < j
      PROVE  /\ log'[i].done /\ log'[i].when <= log'[j].when
             /\ DOMAIN log'[i].good # {} => log'[i].when < log'[j].when
  <2>1. i # n
    BY <1>2, <1>4
  <2>2. log'[i] = log[i] /\ log'[j].when = log[j].when
    BY <1>2, <2>1
  <2>3. /\ log[i].done /\ log[i].when <= log[j].when
        /\ DOMAIN log[i].good # {} => log[i].when < log[j].when
    BY <1>1, <1>4 DEF RunsOK
  <2> QED
    BY <2>2, <2>3
<1> QED
  BY <1>1, <1>2, <1>3, <1>4 DEF RunsOK

\* A new run keeps the runs in order, for it begins later than a run with results.
LEMMA RunsAdded ==
    ASSUME LogOK, RunsOK, NEW e, Added(e), RunOK(e),
           log # <<>> => /\ Run.done /\ Run.when <= e.when
                         /\ DOMAIN Run.good # {} => Run.when < e.when
    PROVE  RunsOK'
<1>1. PICK n : n = Len(log)
  OBVIOUS
<1>2. /\ n \in Nat /\ (n # 0 => n \in 1 .. n /\ Run = log[n] /\ log # <<>>) /\ Len(log') = n + 1
      /\ log'[n + 1] = e /\ \A i \in 1 .. n : log'[i] = log[i]
  BY <1>1, LogFacts DEF Added
<1>3. \A i \in 1 .. (n + 1) : i \in 1 .. n \/ i = n + 1
  BY <1>2
<1>4. \A i \in 1 .. (n + 1) : RunOK(log'[i])
  BY <1>1, <1>2, <1>3 DEF RunsOK
<1>5. ASSUME NEW i \in 1 .. (n + 1), NEW j \in 1 .. (n + 1), i < j
      PROVE  /\ log'[i].done /\ log'[i].when <= log'[j].when
             /\ DOMAIN log'[i].good # {} => log'[i].when < log'[j].when
  <2>1. i \in 1 .. n /\ n # 0
    BY <1>2, <1>5
  <2>2. RunOK(log[i]) /\ RunOK(log[n])
    BY <1>1, <1>2, <2>1 DEF RunsOK
  <2>3. log'[i] = log[i] /\ log[i].when \in Nat /\ log[n].when \in Nat /\ e.when \in Nat
    BY <1>2, <2>1, <2>2 DEF RunOK
  <2>4. CASE j = n + 1
    <3>1. log'[j] = e
      BY <1>2, <2>4
    <3>2. CASE i = n
      BY <1>2, <2>1, <2>3, <3>1, <3>2
    <3>3. CASE i # n
      <4>1. i < n /\ n \in 1 .. n
        BY <1>2, <2>1, <3>3
      <4>2. /\ log[i].done /\ log[i].when <= log[n].when
            /\ DOMAIN log[i].good # {} => log[i].when < log[n].when
        BY <1>1, <2>1, <4>1 DEF RunsOK
      <4>3. log[n].when <= e.when
        BY <1>2, <2>1
      <4> QED
        BY <2>3, <3>1, <4>2, <4>3
    <3> QED
      BY <3>2, <3>3
  <2>5. CASE j # n + 1
    <3>1. j \in 1 .. n
      BY <1>3, <2>5
    <3> QED
      BY <1>1, <1>2, <1>5, <2>1, <3>1 DEF RunsOK
  <2> QED
    BY <2>4, <2>5
<1> QED
  BY <1>1, <1>2, <1>4, <1>5 DEF RunsOK

-----------------------------------------------------------------------------
(* What stays.                                                                 *)

\* What is still to be printed depends on the format alone.
LEMMA RestSame ==
    ASSUME format' = format, NEW lines, NEW r, NEW k
    PROVE  Rest(lines, r, k)' <=> Rest(lines, r, k)
<1>1. Output(r)' = Output(r)
  BY DEF Output
<1> QED
  BY <1>1 DEF Rest

\* So does what the parser has of its run.
LEMMA InRunSame ==
    ASSUME format' = format, NEW run, NEW p, NEW lines
    PROVE  InRun(run, p, lines)' <=> InRun(run, p, lines)
<1>1. \A r, k : Rest(lines, r, k)' <=> Rest(lines, r, k)
  BY RestSame
<1>2. \A c, f, r, k : FiguresRead(c, f, r, k)' <=> FiguresRead(c, f, r, k)
  BY DEF FiguresRead
<1>3. NoneHeard(p, lines)' <=> NoneHeard(p, lines)
  BY DEF NoneHeard
<1>4. \A good : SomeHeard(good, p, lines)' <=> SomeHeard(good, p, lines)
  BY <1>1, <1>2 DEF SomeHeard
<1> QED
  BY <1>3, <1>4 DEF InRun

\* The parser is in the run, after a step.
LEMMA OpenIs ==
    ASSUME format' = format, InRun(Run', parser', out')
    PROVE  OpenOK'
<1>1. PICK run, p, lines : run = Run' /\ p = parser' /\ lines = out'
  OBVIOUS
<1>2. InRun(run, p, lines)'
  BY <1>1, InRunSame
<1>3. InRun(Run, parser, out)'
  BY <1>1, <1>2
<1> QED
  BY <1>3 DEF OpenOK

\* What is kept of a run stays, when its row and its list do.
LEMMA KeptStays ==
    ASSUME NEW i, Kept(i), log'[i].when = log[i].when, log'[i].good = log[i].good,
           log'[i].workload = log[i].workload, log'[i].count = log[i].count,
           NEW when, when = log[i].when, when \in DOMAIN parser'.results,
           parser'.results[when] = parser.results[when],
           NEW per, per = parser.results[when].per,
           AllMatch' => /\ AllMatch /\ parser'.lists[per] = parser.lists[per]
                        /\ ~Finished(Len(log))' => per # parser'.per
    PROVE  Kept(i)'
<1>1. /\ parser.results[when] = Totals(log[i], per)
      /\ AllMatch => Holds(parser.lists[per], log[i].good, DOMAIN log[i].good)
  BY DEF Kept
<1>2. Totals(log'[i], per) = Totals(log[i], per)
  BY DEF Totals
<1> QED
  BY <1>1, <1>2 DEF Kept

-----------------------------------------------------------------------------
(* The steps.                                                                  *)

\* The parser before the log.
LEMMA NewParserFields ==
    /\ NewParser.workload = "" /\ NewParser.cur = NoHost /\ ~NewParser.finished
    /\ ~NewParser.title /\ DOMAIN NewParser.results = {}
    /\ NoHost.host = "" /\ DOMAIN NoHost = {"host"} \cup HostFigures
<1>1. PICK c : c = NoHost
  OBVIOUS
<1>2. PICK ls, d : ls = <<<<>>>> /\ d = <<>>
  OBVIOUS
<1>3. NewParser = [workload |-> "", when |-> 0, count |-> 0, lists |-> ls, per |-> 1,
                   cur |-> c, title |-> FALSE, finished |-> FALSE, results |-> d]
  BY <1>1, <1>2 DEF NewParser
<1>4. DOMAIN d = {}
  BY <1>2
<1>5. c.host = "" /\ DOMAIN c = {"host"} \cup HostFigures
  BY <1>1 DEF NoHost, HostFigures
<1> QED
  BY <1>1, <1>3, <1>4, <1>5

\* A workload begins.  For Go nothing is claimed of a log with two of them.
LEMMA StartWorkloadTotals ==
    ASSUME YcsbOK, TotalsInv, NEW n \in Counts, NEW pause \in {0, 1}, StartWorkload(n, pause)
    PROVE  TotalsInv'
<1>1. /\ stage = "script" /\ ~InWorkload /\ Len(log) < Len(Workloads)
      /\ log # <<>> /\ Run.good # <<>> => pause = 1
      /\ UNCHANGED <<format, stage, out>>
      /\ running' \in SUBSET YcsbHosts
  BY DEF StartWorkload
<1>2. PICK N, p, q : N = Len(log) /\ p = parser /\ q = parser'
  OBVIOUS
<1>3. /\ LogOK /\ ParserOK(p) /\ format \in {"java", "cockroach", "go"}
      /\ N \in Nat /\ DOMAIN log = 1 .. N
      /\ log # <<>> => N \in 1 .. N /\ Run = log[N] /\ Run.done /\ RunOK(Run)
      /\ log = <<>> <=> N = 0
  BY <1>1, <1>2, LogFacts, RunIsOK DEF YcsbOK, InWorkload, TotalsInv
<1>4. out = <<>>
  BY <1>1 DEF TotalsInv, ScriptOK
<1>5. PICK w : w = (IF log = <<>> THEN 1 ELSE Run.when + pause)
  OBVIOUS
<1>6. /\ w \in Nat
      /\ log # <<>> => Run.when <= w /\ (DOMAIN Run.good # {} => Run.when < w)
  <2>1. CASE log = <<>>
    BY <1>5, <2>1
  <2>2. CASE log # <<>>
    <3>1. Run.when \in Nat /\ w = Run.when + pause
      BY <1>3, <1>5, <2>2 DEF RunOK
    <3>2. DOMAIN Run.good # {} => pause = 1
      BY <1>1, <1>3, <2>2 DEF RunOK
    <3> QED
      BY <3>1, <3>2
  <2> QED
    BY <2>1, <2>2
<1>7. PICK name, none : name = Workloads[N + 1] /\ none = <<>>
  OBVIOUS
<1>8. name # ""
  <2>1. PICK ws : ws = Workloads
    OBVIOUS
  <2>2. ws \in Seq(Range(ws)) /\ "" \notin Range(ws)
    BY <2>1, YcsbAssumption
  <2>3. N + 1 \in DOMAIN ws
    <3>1. Len(ws) \in Nat /\ DOMAIN ws = 1 .. Len(ws)
      <4>1. PICK S : ws \in Seq(S)
        BY <2>2
      <4> QED
        BY <4>1
    <3>2. N < Len(ws)
      BY <1>1, <1>2, <2>1
    <3> QED
      BY <1>3, <3>1, <3>2
  <2>4. ws[N + 1] \in Range(ws)
    BY <2>3 DEF Range
  <2> QED
    BY <1>7, <2>1, <2>2, <2>4
<1>9. PICK e : e = [workload |-> name, when |-> w, count |-> n, good |-> none,
                    dirty |-> FALSE, done |-> FALSE]
  OBVIOUS
<1>10. /\ e.workload = name /\ e.when = w /\ e.count = n /\ e.good = none
       /\ ~e.dirty /\ ~e.done
  BY <1>9
<1>11. DOMAIN none = {} /\ none = <<>>
  BY <1>7
<1>12. RunOK(e)
  BY <1>6, <1>8, <1>9, <1>10, <1>11 DEF RunOK
<1>13. Added(e)
  <2>1. log' = Append(log, e)
    BY <1>2, <1>5, <1>7, <1>9 DEF StartWorkload
  <2> QED
    BY <1>3, <2>1, AddedIs
<1>14. /\ log' # <<>> /\ Len(log') = N + 1 /\ log'[N + 1] = e /\ Run' = e
       /\ \A i \in 1 .. N : log'[i] = log[i]
  BY <1>2, <1>13 DEF Added
<1>15. N + 1 \in 1 .. (N + 1) /\ \A i \in 1 .. N : i \in 1 .. (N + 1) /\ i < N + 1
  BY <1>3
<1>16. /\ p.per \in 1 .. Len(p.lists)
       /\ \A i \in DOMAIN p.results : p.results[i].per \in 1 .. Len(p.lists)
  BY <1>3 DEF ParserOK
<1>17. /\ log = <<>> => p = NewParser
       /\ DOMAIN p.cur = {"host"} \cup HostFigures
       /\ format = "cockroach" => ~p.title
  <2>1. Len(out) = 0
    BY <1>4
  <2> QED
    BY <1>1, <1>2, <2>1 DEF TotalsInv, PrintedOK
<1>18. format = "go" => (Followed' <=> log = <<>>)
  BY <1>1, <1>3, <1>14 DEF Followed
\* The line is taken by all, but it may have no number that matches.
<1>19. /\ CountMatches(n) /\ ~(format = "go" /\ p.finished) =>
             /\ DOMAIN q = ParserFields /\ q.workload = name /\ q.when = w /\ q.count = n
             /\ q.cur = NoHost /\ q.title = p.title /\ ~q.finished /\ q.results = p.results
             /\ Len(p.lists) \in Nat /\ q.per = Len(p.lists) + 1 /\ q.lists[q.per] = <<>>
             /\ \A i \in 1 .. Len(p.lists) : q.lists[i] = p.lists[i]
       /\ ~(CountMatches(n) /\ ~(format = "go" /\ p.finished)) => q = p
  <2>1. PICK line : line = [kind |-> "header", workload |-> name, when |-> w, count |-> n]
    OBVIOUS
  <2>2. line.kind = "header" /\ line.workload = name /\ line.when = w /\ line.count = n
    BY <2>1
  <2>3. q = Parse(p, line)
    BY <1>2, <1>5, <1>7, <2>1 DEF StartWorkload, Reads
  <2>4. /\ format = "go" /\ p.finished => q = p
        /\ ~(format = "go" /\ p.finished) => q = Common(p, line)
    BY <1>3, <1>17, <2>2, <2>3, ScriptLine
  <2>5. CASE CountMatches(n) /\ ~(format = "go" /\ p.finished)
    <3>1. q = Header(p, line)
      BY <2>2, <2>4, <2>5 DEF Common
    <3> QED
      BY <1>3, <2>2, <2>5, <3>1, HeaderFields
  <2>6. CASE ~(CountMatches(n) /\ ~(format = "go" /\ p.finished))
    BY <2>2, <2>4, <2>6 DEF Common
  <2> QED
    BY <2>5, <2>6
<1>20. RunsOK'
  BY <1>3, <1>6, <1>10, <1>12, <1>13, RunsAdded DEF TotalsInv
<1>21. ScriptOK'
  BY <1>1, <1>4, <1>10, <1>11, <1>14 DEF TotalsInv, ScriptOK, InWorkload
<1>22. PrintedOK'
  <2>1. DOMAIN q.cur = {"host"} \cup HostFigures /\ q.title = p.title
    BY <1>17, <1>19, NewParserFields
  <2>2. Len(out) = 0
    BY <1>4
  <2> QED
    BY <1>1, <1>2, <1>4, <1>14, <1>17, <2>1, <2>2 DEF PrintedOK
<1>23. OpenOK'
  <2>1. SUFFICES ASSUME Tracked(Len(log))' PROVE OpenOK'
    BY DEF OpenOK
  <2>2. Followed' /\ CountMatches(n)
    BY <1>10, <1>14, <2>1 DEF Tracked
  <2>3. format = "go" => ~p.finished
    BY <1>17, <1>18, <2>2, NewParserFields
  <2>4. NoneHeard(q, out')
    BY <1>1, <1>4, <1>19, <2>2, <2>3, NewParserFields DEF NoneHeard
  <2>5. InRun(e, q, out')
    BY <1>10, <1>11, <1>19, <2>2, <2>3, <2>4 DEF InRun
  <2> QED
    BY <1>1, <1>2, <1>14, <2>5, OpenIs
<1>24. BoundOK'
  <2>1. SUFFICES ASSUME Followed' PROVE BoundOK'
    BY DEF BoundOK
  <2>2. Followed /\ (format = "go" => log = <<>> /\ ~p.finished)
    <3>1. format = "go" => log = <<>> /\ Len(log) = 0
      BY <1>2, <1>3, <1>18, <2>1
    <3>2. Followed
      BY <3>1 DEF Followed
    <3> QED
      BY <1>17, <3>1, <3>2, NewParserFields
  <2>3. /\ \A when \in DOMAIN p.results : \E i \in 1 .. N :
              CountMatches(log[i].count) /\ DOMAIN log[i].good # {} /\ log[i].when = when
        /\ format # "go" => p.workload = "" /\ p.cur.host = ""
    BY <1>1, <1>2, <2>2 DEF TotalsInv, BoundOK
  <2>4. q.results = p.results
    BY <1>19
  <2>5. \A when \in DOMAIN q.results : \E i \in 1 .. (N + 1) :
          CountMatches(log'[i].count) /\ DOMAIN log'[i].good # {} /\ log'[i].when = when
    BY <1>14, <1>15, <2>3, <2>4
  <2>6. ASSUME q.workload # ""
        PROVE  CountMatches(n) /\ q.when = w /\ q.lists[q.per] = <<>> /\ q.cur.host = ""
    <3>1. CASE CountMatches(n)
      BY <1>19, <2>2, <3>1, NewParserFields
    <3>2. CASE ~CountMatches(n)
      BY <1>17, <1>19, <2>2, <2>3, <2>6, <3>2, NewParserFields
    <3> QED
      BY <3>1, <3>2
  <2>7. InWorkload'
    BY <1>10, <1>14 DEF InWorkload
  <2> QED
    BY <1>2, <1>10, <1>14, <2>5, <2>6, <2>7 DEF BoundOK
<1>25. KeptOK'
  <2>1. SUFFICES ASSUME NEW i \in 1 .. (N + 1), Tracked(i)', DOMAIN log'[i].good # {}
                 PROVE  Kept(i)'
    BY <1>14 DEF KeptOK
  <2>2. i \in 1 .. N /\ log'[i] = log[i]
    BY <1>3, <1>10, <1>11, <1>14, <2>1
  <2>3. N # 0 /\ Followed' /\ CountMatches(log[i].count) /\ ~log[i].dirty
    BY <1>3, <2>1, <2>2 DEF Tracked
  <2>4. format # "go"
    BY <1>3, <1>18, <2>3
  <2>5. Tracked(i) /\ Finished(i)
    BY <1>2, <1>3, <2>2, <2>3, <2>4 DEF Tracked, Followed, Finished
  <2>6. Kept(i)
    BY <1>2, <2>1, <2>2, <2>5 DEF TotalsInv, KeptOK
  <2>7. PICK when, per : when = log[i].when /\ per = p.results[when].per
    OBVIOUS
  <2>8. when \in DOMAIN p.results
    BY <1>2, <2>6, <2>7 DEF Kept
  <2>9. q.results = p.results
    BY <1>19
  <2>10. per \in 1 .. Len(p.lists)
    BY <1>16, <2>7, <2>8
  <2>11. ASSUME AllMatch'
         PROVE  AllMatch /\ q.lists[per] = p.lists[per] /\ per # q.per
    <3>1. AllMatch /\ CountMatches(n)
      BY <1>2, <1>10, <1>14, <1>15, <2>11 DEF AllMatch
    <3> QED
      BY <1>19, <2>4, <2>10, <3>1
  <2> QED
    BY <1>2, <2>2, <2>6, <2>7, <2>8, <2>9, <2>11, KeptStays
<1> QED
  BY <1>20, <1>21, <1>22, <1>23, <1>24, <1>25 DEF TotalsInv

\* What is known while a workload runs, or when its log ends.
LEMMA WorkloadFacts ==
    ASSUME YcsbOK, TotalsInv, log # <<>>
    PROVE  /\ LogOK /\ ParserOK(parser) /\ format \in {"java", "cockroach", "go"}
           /\ Len(log) \in Nat /\ DOMAIN log = 1 .. Len(log)
           /\ Len(log) \in 1 .. Len(log) /\ Run = log[Len(log)] /\ RunOK(Run)
           /\ DOMAIN Run = {"workload", "when", "count", "good", "dirty", "done"}
           /\ Run.when \in Nat /\ DOMAIN Run.good \in SUBSET YcsbHosts
           /\ \A h \in DOMAIN Run.good : Run.good[h] \in Results
           /\ Run.good = <<>> <=> DOMAIN Run.good = {}
           /\ parser.per \in 1 .. Len(parser.lists)
           /\ \A i \in DOMAIN parser.results :
                 parser.results[i].per \in 1 .. Len(parser.lists)
           /\ DOMAIN parser.lists = 1 .. Len(parser.lists)
           /\ DOMAIN parser.cur = {"host"} \cup HostFigures
           /\ DOMAIN parser = ParserFields
           /\ stage = "script" /\ out = <<>> /\ format = "cockroach" => ~parser.title
<1>1. LogOK /\ ParserOK(parser) /\ format \in {"java", "cockroach", "go"}
  BY DEF YcsbOK
<1>2. /\ Len(log) \in Nat /\ DOMAIN log = 1 .. Len(log)
      /\ Len(log) \in 1 .. Len(log) /\ Run = log[Len(log)] /\ RunOK(Run)
  BY <1>1, LogFacts, RunIsOK DEF TotalsInv
<1>3. /\ DOMAIN Run = {"workload", "when", "count", "good", "dirty", "done"}
      /\ Run.when \in Nat /\ DOMAIN Run.good \in SUBSET YcsbHosts
      /\ \A h \in DOMAIN Run.good : Run.good[h] \in Results
      /\ Run.good = <<>> <=> DOMAIN Run.good = {}
  BY <1>2 DEF RunOK
<1>4. /\ parser.per \in 1 .. Len(parser.lists) /\ DOMAIN parser = ParserFields
      /\ \A i \in DOMAIN parser.results : parser.results[i].per \in 1 .. Len(parser.lists)
      /\ DOMAIN parser.lists = 1 .. Len(parser.lists)
  <2>1. parser.lists \in Seq(Range(parser.lists))
    BY <1>1 DEF ParserOK
  <2>2. DOMAIN parser.lists = 1 .. Len(parser.lists)
    BY <2>1
  <2> QED
    BY <1>1, <2>2 DEF ParserOK
<1>5. DOMAIN parser.cur = {"host"} \cup HostFigures
  BY DEF TotalsInv, PrintedOK
<1>6. stage = "script" /\ out = <<>> /\ format = "cockroach" => ~parser.title
  <2>1. PICK lines : lines = out
    OBVIOUS
  <2>2. lines = <<>> => Len(lines) = 0
    OBVIOUS
  <2> QED
    BY <2>1, <2>2 DEF TotalsInv, PrintedOK
<1> QED
  BY <1>1, <1>2, <1>3, <1>4, <1>5, <1>6

\* What is kept of the runs before the last stays, unless the parser puts something at
\* another second than that of the last run, or changes other lists than its current one.
LEMMA EarlierKept ==
    ASSUME YcsbOK, TotalsInv, stage \in {"script", "eof"}, log # <<>>, ~Finished(Len(log)),
           NEW e, Changed(e), format' = format,
           NEW i \in 1 .. Len(log), i # Len(log), Tracked(i)', DOMAIN log'[i].good # {},
           e.count = Run.count, parser'.per = parser.per,
           \A k \in DOMAIN parser.results :
              k # Run.when => k \in DOMAIN parser'.results /\ parser'.results[k] = parser.results[k],
           \A j \in DOMAIN parser.lists : j # parser.per => parser'.lists[j] = parser.lists[j]
    PROVE  Kept(i)'
<1>1. PICK n : n = Len(log)
  OBVIOUS
<1>2. /\ n \in Nat /\ n \in 1 .. n /\ Run = log[n] /\ Run.when \in Nat /\ log' # <<>>
      /\ Len(log') = n /\ log'[n] = e /\ \A j \in 1 .. n : j # n => log'[j] = log[j]
  BY <1>1, WorkloadFacts DEF Changed
<1>3. i \in 1 .. n /\ i < n /\ log'[i] = log[i]
  BY <1>1, <1>2
<1>4. Finished(i)
  BY <1>1, <1>3 DEF Finished
<1>5. Tracked(i)
  BY <1>1, <1>2, <1>3 DEF Tracked, Followed
<1>6. Kept(i)
  BY <1>1, <1>3, <1>4, <1>5 DEF TotalsInv, KeptOK
<1>7. RunOK(log[i]) /\ log[i].when < Run.when
  BY <1>1, <1>2, <1>3 DEF TotalsInv, RunsOK
<1>8. PICK when, per : when = log[i].when /\ per = parser.results[when].per
  OBVIOUS
<1>9. when \in DOMAIN parser.results /\ when # Run.when
  <2>1. when \in Nat /\ when < Run.when
    BY <1>7, <1>8 DEF RunOK
  <2> QED
    BY <1>2, <1>6, <1>8, <2>1 DEF Kept
<1>10. when \in DOMAIN parser'.results /\ parser'.results[when] = parser.results[when]
  BY <1>9
<1>11. per \in DOMAIN parser.lists
  BY <1>8, <1>9, WorkloadFacts
<1>12. ASSUME AllMatch'
       PROVE  AllMatch /\ parser'.lists[per] = parser.lists[per] /\ per # parser'.per
  <2>1. \A j \in 1 .. n : CountMatches(log'[j].count)
    BY <1>2, <1>12 DEF AllMatch
  <2>2. AllMatch
    BY <1>1, <1>2, <2>1 DEF AllMatch
  <2>3. per # parser.per
    BY <1>6, <1>8, <2>2 DEF Kept
  <2> QED
    BY <1>11, <2>2, <2>3
<1> QED
  BY <1>3, <1>6, <1>8, <1>10, <1>12, KeptStays

\* A host ends: the host before it joins the list, with all of its lines read.
LEMMA HostSucceedsTotals ==
    ASSUME YcsbOK, TotalsInv, NEW h \in YcsbHosts, NEW r \in Results, HostSucceeds(h, r)
    PROVE  TotalsInv'
<1>1. /\ stage = "script" /\ log # <<>> /\ ~Run.done /\ out = <<>> /\ h \in running
      /\ running' = running \ {h} /\ out' = Output(r) /\ UNCHANGED <<format, stage>>
  BY DEF HostSucceeds, InWorkload
<1>2. PICK n, p, q, run : n = Len(log) /\ p = parser /\ q = parser' /\ run = Run
  OBVIOUS
<1>3. /\ LogOK /\ ParserOK(p) /\ format \in {"java", "cockroach", "go"}
      /\ n \in Nat /\ n \in 1 .. n /\ run = log[n] /\ RunOK(run)
      /\ DOMAIN run = {"workload", "when", "count", "good", "dirty", "done"}
      /\ DOMAIN run.good \in SUBSET YcsbHosts
      /\ \A x \in DOMAIN run.good : run.good[x] \in Results
      /\ p.per \in DOMAIN p.lists /\ DOMAIN p.cur = {"host"} \cup HostFigures
      /\ format = "cockroach" => ~p.title
  BY <1>1, <1>2, WorkloadFacts
<1>4. PICK good : good = run.good
  OBVIOUS
<1>5. PICK g : g = Put(good, h, r)
  OBVIOUS
<1>6. /\ DOMAIN g = {h} \cup DOMAIN good /\ g[h] = r
      /\ \A x \in DOMAIN good : x # h => g[x] = good[x]
  BY <1>5 DEF Put
<1>7. h \notin DOMAIN good /\ DOMAIN good \in SUBSET YcsbHosts
  BY <1>1, <1>2, <1>3, <1>4 DEF TotalsInv, ScriptOK
<1>8. PICK e : e = [run EXCEPT !.good = g]
  OBVIOUS
<1>9. /\ DOMAIN e = DOMAIN run /\ e.workload = run.workload /\ e.when = run.when
      /\ e.count = run.count /\ e.good = g /\ e.dirty = run.dirty /\ e.done = run.done
  BY <1>3, <1>8
<1>10. g # <<>>
  <2>1. PICK d : d = <<>>
    OBVIOUS
  <2>2. DOMAIN d = {}
    BY <2>1
  <2> QED
    BY <1>6, <2>1, <2>2
<1>11. RunOK(e)
  <2>1. \A x \in DOMAIN g : g[x] \in Results
    BY <1>3, <1>4, <1>6
  <2> QED
    BY <1>3, <1>4, <1>6, <1>7, <1>9, <1>10, <2>1 DEF RunOK
<1>12. Changed(e)
  <2>1. log' = [log EXCEPT ![n] = [log[n] EXCEPT !.good = Put(log[n].good, h, r)]]
    BY <1>2 DEF HostSucceeds
  <2>2. log' = [log EXCEPT ![n] = e]
    BY <1>3, <1>4, <1>5, <1>8, <2>1
  <2> QED
    BY <1>1, <1>2, <1>3, <2>2, ChangedIs
<1>13. /\ log' # <<>> /\ Len(log') = n /\ log'[n] = e /\ Run' = e
       /\ \A i \in 1 .. n : i # n => log'[i] = log[i]
  BY <1>2, <1>12 DEF Changed
<1>14. /\ format = "go" /\ p.finished => q = p
       /\ ~(format = "go" /\ p.finished) =>
             /\ ListEnds(p, q)
             /\ q.workload = p.workload /\ q.title = p.title /\ ~q.finished
             /\ q.results = p.results
             /\ DOMAIN q.cur = {"host"} \cup HostFigures /\ q.cur.host = h
             /\ q.cur.latency = 0 /\ q.cur.errors = 0
  <2>1. PICK line : line = [kind |-> "host", host |-> h]
    OBVIOUS
  <2>2. line.kind = "host" /\ line.host = h
    BY <2>1
  <2>3. q = Parse(p, line)
    BY <1>2, <2>1 DEF HostSucceeds, Reads
  <2>4. /\ format = "go" /\ p.finished => q = p
        /\ ~(format = "go" /\ p.finished) => q = Common(p, line)
    BY <1>3, <2>2, <2>3, ScriptLine
  <2>5. CASE ~(format = "go" /\ p.finished)
    <3>1. q = HostLine(p, line)
      BY <2>2, <2>4, <2>5 DEF Common
    <3> QED
      BY <1>3, <2>2, <2>5, <3>1, HostLineFields
  <2> QED
    BY <2>4, <2>5
\* Whatever the parser does, it stays in its run, with its results and other lists.
<1>15. /\ q.workload = p.workload /\ q.when = p.when /\ q.count = p.count
       /\ q.per = p.per /\ q.results = p.results /\ q.title = p.title
       /\ DOMAIN q.cur = {"host"} \cup HostFigures
       /\ \A j \in DOMAIN p.lists : j # p.per => q.lists[j] = p.lists[j]
  BY <1>3, <1>14 DEF ListEnds
<1>16. RunsOK'
  BY <1>2, <1>3, <1>9, <1>11, <1>12, RunsChanged DEF TotalsInv
<1>17. ScriptOK'
  BY <1>1, <1>2, <1>4, <1>6, <1>9, <1>13 DEF TotalsInv, ScriptOK, InWorkload
<1>18. PrintedOK'
  <2>1. PICK lines : lines = Output(r)
    OBVIOUS
  <2>2. /\ format = "java" => Len(lines) = 5
        /\ format = "cockroach" => Len(lines) = 2
        /\ format = "go" => Len(lines) = 3
    BY <2>1, JavaLines, CockroachLines, GoLines DEF JavaOutput, GoOutput
  <2>3. Rest(lines, r, 0)
    BY <1>3, <2>1, <2>2 DEF Rest
  <2>4. Rest(lines, r, 0)'
    BY <1>1, <2>3, RestSame
  <2>5. Rest(out, r, 0)'
    BY <1>1, <2>1, <2>4
  <2>6. (out # <<>> => \E x \in Results, k \in 0 .. 5 : Rest(out, x, k))'
    BY <2>5
  <2>7. (format = "cockroach" /\ stage = "script" => (parser.title <=> Len(out) = 1))'
    BY <1>1, <1>2, <1>3, <1>15, <2>1, <2>2
  <2> QED
    BY <1>2, <1>13, <1>15, <2>6, <2>7 DEF PrintedOK
<1>19. InWorkload /\ InWorkload'
  BY <1>1, <1>2, <1>9, <1>13 DEF InWorkload
<1>20. ~Finished(n)
  BY <1>1, <1>2, <1>3 DEF Finished
<1>21. OpenOK'
  <2>1. SUFFICES ASSUME Tracked(n)' PROVE OpenOK'
    BY <1>13 DEF OpenOK
  <2>2. IsFiniteSet(DOMAIN g) /\ IsFiniteSet(DOMAIN good)
    BY <1>6, <1>7, FS_Subset, FS_AddElement, YcsbAssumption
  <2>3. ASSUME format = "go" PROVE DOMAIN good = {} /\ Cardinality(DOMAIN good) <= 1
    <3>1. Cardinality(DOMAIN g) <= 1
      BY <1>1, <1>9, <1>13, <2>1, <2>3 DEF Tracked
    <3>2. Cardinality(DOMAIN g) = Cardinality(DOMAIN good) + 1
      BY <1>6, <1>7, <2>2, FS_AddElement
    <3>3. PICK m : m = Cardinality(DOMAIN good)
      OBVIOUS
    <3>4. m \in Nat
      BY <2>2, <3>3, FS_CardinalityType
    <3>5. m = 0
      BY <3>1, <3>2, <3>3, <3>4
    <3>6. PICK D : D = DOMAIN good
      OBVIOUS
    <3>7. IsFiniteSet(D) /\ Cardinality(D) = 0
      BY <2>2, <3>3, <3>5, <3>6
    <3>8. D = {}
      BY <3>7, FS_EmptySet
    <3> QED
      BY <3>6, <3>7, <3>8
  <2>4. Tracked(n)
    BY <1>1, <1>3, <1>4, <1>9, <1>13, <2>1, <2>3, <1>2 DEF Tracked, Followed
  <2>5. InRun(run, p, out)
    BY <1>1, <1>2, <1>20, <2>4 DEF TotalsInv, OpenOK
  <2>6. ~(format = "go" /\ p.finished)
    BY <1>4, <2>3, <2>5 DEF InRun, NoneHeard
  <2>7. /\ ListEnds(p, q) /\ ~q.finished /\ q.cur.host = h
        /\ q.cur.latency = 0 /\ q.cur.errors = 0
    BY <1>14, <2>6
  <2>8. q.lists[p.per] = IF p.cur.host = "" THEN p.lists[p.per]
                                            ELSE Append(p.lists[p.per], p.cur)
    BY <2>7 DEF ListEnds
  <2>9. Holds(q.lists[p.per], good, DOMAIN good)
    <3>1. CASE DOMAIN good = {}
      <4>1. p.lists[p.per] = <<>> /\ p.cur.host = ""
        BY <1>4, <2>5, <3>1 DEF InRun, NoneHeard
      <4>2. q.lists[p.per] = <<>>
        BY <2>8, <4>1
      <4> QED
        BY <3>1, <4>2, HoldsNone
    <3>2. CASE DOMAIN good # {}
      <4>1. InRun(run, p, <<>>)
        BY <1>1, <2>5
      <4>2. p.cur.host # "" /\ Holds(Append(p.lists[p.per], p.cur), good, DOMAIN good)
        BY <1>3, <1>4, <3>2, <4>1, LastReported, AllReported
      <4> QED
        BY <2>8, <4>2
    <3> QED
      BY <3>1, <3>2
  <2>10. \A x \in DOMAIN good : g[x] = good[x]
    BY <1>6, <1>7
  <2>11. Holds(q.lists[p.per], g, DOMAIN good)
    BY <2>9, <2>10, HoldsSame
  <2>12. DOMAIN g \ {h} = DOMAIN good
    BY <1>6, <1>7
  <2>13. PICK lines : lines = Output(r)
    OBVIOUS
  <2>14. Rest(lines, r, 0)
    <3>1. /\ format = "java" => Len(lines) = 5
          /\ format = "cockroach" => Len(lines) = 2
          /\ format = "go" => Len(lines) = 3
      BY <2>13, JavaLines, CockroachLines, GoLines DEF JavaOutput, GoOutput
    <3> QED
      BY <1>3, <2>13, <3>1 DEF Rest
  <2>15. FiguresRead(q.cur, q.finished, r, 0)
    BY <2>7 DEF FiguresRead
  <2>16. SomeHeard(g, q, lines)
    BY <1>6, <1>15, <2>7, <2>11, <2>12, <2>14, <2>15 DEF SomeHeard
  <2>17. p.workload = run.workload /\ p.when = run.when /\ p.count = run.count
    BY <2>5 DEF InRun
  <2>18. DOMAIN e.good # {}
    BY <1>6, <1>9
  <2>19. InRun(e, q, lines)
    BY <1>9, <1>15, <2>16, <2>17, <2>18 DEF InRun
  <2> QED
    BY <1>1, <1>2, <1>13, <2>13, <2>19, OpenIs
<1>22. BoundOK'
  <2>1. SUFFICES ASSUME Followed' PROVE BoundOK'
    BY DEF BoundOK
  <2>2. Followed
    BY <1>1, <1>2, <1>13, <2>1 DEF Followed
  <2>3. /\ \A when \in DOMAIN p.results : \E i \in 1 .. n :
              CountMatches(log[i].count) /\ DOMAIN log[i].good # {} /\ log[i].when = when
        /\ p.workload # "" => CountMatches(run.count) /\ p.when = run.when
    BY <1>2, <2>2 DEF TotalsInv, BoundOK
  <2>4. \A i \in 1 .. n : log'[i].count = log[i].count /\ log'[i].when = log[i].when
                         /\ (DOMAIN log[i].good # {} => DOMAIN log'[i].good # {})
    BY <1>3, <1>4, <1>6, <1>9, <1>13
  <2>5. \A when \in DOMAIN q.results : \E i \in 1 .. n :
          CountMatches(log'[i].count) /\ DOMAIN log'[i].good # {} /\ log'[i].when = when
    <3>1. ASSUME NEW when \in DOMAIN p.results
          PROVE  \E i \in 1 .. n :
                    CountMatches(log'[i].count) /\ DOMAIN log'[i].good # {} /\ log'[i].when = when
      <4>1. PICK i \in 1 .. n :
              CountMatches(log[i].count) /\ DOMAIN log[i].good # {} /\ log[i].when = when
        BY <2>3
      <4> QED
        BY <2>4, <4>1
    <3>2. DOMAIN q.results = DOMAIN p.results
      BY <1>15
    <3> QED
      BY <3>1, <3>2
  <2>6. DOMAIN e.good # {}
    BY <1>6, <1>9
  <2>7. \A when \in DOMAIN parser'.results : \E i \in 1 .. Len(log') :
          CountMatches(log'[i].count) /\ DOMAIN log'[i].good # {} /\ log'[i].when = when
    BY <1>2, <1>13, <2>5
  <2>8. parser'.workload # "" => CountMatches(Run'.count) /\ parser'.when = Run'.when
    BY <1>2, <1>9, <1>13, <1>15, <2>3
  <2>9. log' # <<>> /\ DOMAIN Run'.good # {}
    BY <1>13, <2>6
  <2> QED
    BY <1>19, <2>7, <2>8, <2>9 DEF BoundOK
<1>23. KeptOK'
  <2>1. SUFFICES ASSUME NEW i \in 1 .. n, Finished(i)', Tracked(i)', DOMAIN log'[i].good # {}
                 PROVE  Kept(i)'
    BY <1>13 DEF KeptOK
  <2>2. i # n
    BY <1>1, <1>2, <1>3, <1>9, <1>13, <2>1 DEF Finished
  <2>3. \A k \in DOMAIN p.results : k \in DOMAIN q.results /\ q.results[k] = p.results[k]
    BY <1>15
  <2> QED
    BY <1>1, <1>2, <1>9, <1>12, <1>15, <1>20, <2>1, <2>2, <2>3, EarlierKept
<1> QED
  BY <1>16, <1>17, <1>18, <1>21, <1>22, <1>23 DEF TotalsInv

\* Of the lines of a host none is read at first.
LEMMA OutputRest ==
    ASSUME format \in {"java", "cockroach", "go"}, NEW r, NEW lines, lines = Output(r)
    PROVE  Rest(lines, r, 0) /\ Len(lines) # 1
<1>1. /\ format = "java" => Len(lines) = 5
      /\ format = "cockroach" => Len(lines) = 2
      /\ format = "go" => Len(lines) = 3
  BY JavaLines, CockroachLines, GoLines DEF JavaOutput, GoOutput
<1>2. Len(lines) \in Nat /\ Len(lines) # 1
  <2>1. PICK m : m = Len(lines)
    OBVIOUS
  <2>2. m = 5 \/ m = 2 \/ m = 3
    BY <1>1, <2>1
  <2> QED
    BY <2>1, <2>2
<1>3. Rest(lines, r, 0)
  BY <1>2 DEF Rest
<1> QED
  BY <1>2, <1>3

\* The parser does nothing while the last run becomes dirty.
LEMMA DirtyTotals ==
    ASSUME YcsbOK, TotalsInv, log # <<>>, format' = format, parser' = parser,
           NEW d \in BOOLEAN, Run.dirty => d, NEW e, e = [Run EXCEPT !.dirty = d], Changed(e),
           stage' = stage \/ (stage = "script" /\ stage' = "eof")
    PROVE  /\ RunsOK' /\ BoundOK' /\ KeptOK'
           /\ RunOK(e) /\ e.workload = Run.workload /\ e.when = Run.when /\ e.count = Run.count
           /\ e.good = Run.good /\ (e.dirty <=> d) /\ e.done = Run.done
<1>1. PICK n, p, run : n = Len(log) /\ p = parser /\ run = Run
  OBVIOUS
<1>2. /\ LogOK /\ n \in Nat /\ n \in 1 .. n /\ run = log[n] /\ RunOK(run)
      /\ DOMAIN run = {"workload", "when", "count", "good", "dirty", "done"}
  BY <1>1, WorkloadFacts
<1>3. /\ DOMAIN e = DOMAIN run /\ e.workload = run.workload /\ e.when = run.when
      /\ e.count = run.count /\ e.good = run.good /\ e.dirty = d /\ e.done = run.done
  BY <1>1, <1>2
<1>4. RunOK(e)
  BY <1>2, <1>3 DEF RunOK
<1>5. /\ log' # <<>> /\ Len(log') = n /\ log'[n] = e /\ Run' = e
      /\ \A i \in 1 .. n : i # n => log'[i] = log[i]
  BY <1>1 DEF Changed
<1>6. \A i \in 1 .. n : /\ log'[i].workload = log[i].workload /\ log'[i].when = log[i].when
                        /\ log'[i].count = log[i].count /\ log'[i].good = log[i].good
                        /\ log'[i].done = log[i].done /\ (log[i].dirty => log'[i].dirty)
  BY <1>1, <1>2, <1>3, <1>5
<1>7. RunsOK'
  BY <1>1, <1>2, <1>3, <1>4, RunsChanged DEF TotalsInv
<1>8. BoundOK'
  <2>1. SUFFICES ASSUME Followed' PROVE BoundOK'
    BY DEF BoundOK
  <2>2. Followed
    BY <1>1, <1>5, <2>1 DEF Followed
  <2>3. InWorkload' <=> InWorkload
    BY <1>1, <1>3, <1>5 DEF InWorkload
  <2>4. \A when \in DOMAIN p.results : \E i \in 1 .. n :
          CountMatches(log[i].count) /\ DOMAIN log[i].good # {} /\ log[i].when = when
    BY <1>1, <2>2 DEF TotalsInv, BoundOK
  <2>5. /\ p.workload # "" =>
              /\ CountMatches(run.count) /\ p.when = run.when
              /\ DOMAIN run.good = {} => p.lists[p.per] = <<>> /\ p.cur.host = ""
        /\ format # "go" /\ ~InWorkload => p.workload = "" /\ p.cur.host = ""
    BY <1>1, <2>2 DEF TotalsInv, BoundOK
  <2>6. ASSUME NEW when \in DOMAIN p.results
        PROVE  \E i \in 1 .. n :
                 CountMatches(log'[i].count) /\ DOMAIN log'[i].good # {} /\ log'[i].when = when
    <3>1. PICK i \in 1 .. n :
            CountMatches(log[i].count) /\ DOMAIN log[i].good # {} /\ log[i].when = when
      BY <2>4
    <3>2. log'[i].when = log[i].when /\ log'[i].count = log[i].count /\ log'[i].good = log[i].good
      BY <1>6
    <3> QED
      BY <3>1, <3>2
  <2>7. /\ p.workload # "" =>
              /\ CountMatches(e.count) /\ p.when = e.when
              /\ DOMAIN e.good = {} => p.lists[p.per] = <<>> /\ p.cur.host = ""
        /\ format # "go" /\ ~InWorkload' => p.workload = "" /\ p.cur.host = ""
    BY <1>3, <2>3, <2>5
  <2> QED
    BY <1>1, <1>5, <2>6, <2>7 DEF BoundOK
<1>9. KeptOK'
  <2>1. SUFFICES ASSUME NEW i \in 1 .. n, Finished(i)', Tracked(i)', DOMAIN log'[i].good # {}
                 PROVE  Kept(i)'
    BY <1>5 DEF KeptOK
  <2>2. \A j \in 1 .. n : Finished(j)' <=> Finished(j)
    BY <1>1, <1>5, <1>6 DEF Finished
  <2>3. Tracked(i)
    BY <1>1, <1>5, <1>6, <2>1 DEF Tracked, Followed
  <2>4. Kept(i)
    BY <1>1, <1>6, <2>1, <2>2, <2>3 DEF TotalsInv, KeptOK
  <2>5. PICK when, per : when = log[i].when /\ per = parser.results[when].per
    OBVIOUS
  <2>6. when \in DOMAIN parser.results
    BY <2>4, <2>5 DEF Kept
  <2>7. ASSUME AllMatch'
        PROVE  AllMatch /\ (~Finished(Len(log))' => per # parser'.per)
    <3>1. AllMatch
      BY <1>1, <1>5, <1>6, <2>7 DEF AllMatch
    <3>2. ~Finished(Len(log))' => ~Finished(n)
      BY <1>2, <1>5, <2>2
    <3> QED
      BY <1>1, <2>4, <2>5, <3>1, <3>2 DEF Kept
  <2> QED
    BY <1>6, <2>4, <2>5, <2>6, <2>7, KeptStays
<1> QED
  BY <1>1, <1>3, <1>4, <1>7, <1>8, <1>9

\* A host fails, and what it prints is that of no host that succeeded.
LEMMA HostFailsTotals ==
    ASSUME YcsbOK, TotalsInv, NEW h \in YcsbHosts, NEW lines, HostFails(h, lines),
           lines = <<>> \/ \E r \in Results : lines = Output(r)
    PROVE  TotalsInv'
<1>1. /\ stage = "script" /\ log # <<>> /\ ~Run.done /\ out = <<>> /\ h \in running
      /\ running' = running \ {h} /\ out' = lines /\ UNCHANGED <<format, stage, parser>>
  BY DEF HostFails, InWorkload
<1>2. PICK n, p, run : n = Len(log) /\ p = parser /\ run = Run
  OBVIOUS
<1>3. /\ LogOK /\ format \in {"java", "cockroach", "go"}
      /\ n \in Nat /\ n \in 1 .. n /\ run = log[n] /\ RunOK(run)
      /\ DOMAIN p.cur = {"host"} \cup HostFigures
      /\ format = "cockroach" => ~p.title
      /\ run.good = <<>> <=> DOMAIN run.good = {}
  BY <1>1, <1>2, WorkloadFacts
<1>4. PICK d \in BOOLEAN :
        d <=> run.dirty \/ (lines # <<>> /\ (run.good # <<>> \/ format = "go"))
  OBVIOUS
<1>5. PICK e : e = [run EXCEPT !.dirty = d]
  OBVIOUS
<1>6. Changed(e)
  <2>1. log' = [log EXCEPT ![n] = [log[n] EXCEPT !.dirty =
                  run.dirty \/ (lines # <<>> /\ (run.good # <<>> \/ format = "go"))]]
    BY <1>2, <1>3 DEF HostFails
  <2>2. d = (run.dirty \/ (lines # <<>> /\ (run.good # <<>> \/ format = "go")))
    BY <1>4
  <2>3. log' = [log EXCEPT ![n] = e]
    BY <1>3, <1>5, <2>1, <2>2
  <2> QED
    BY <1>1, <1>2, <1>3, <2>3, ChangedIs
<1>7. /\ RunsOK' /\ BoundOK' /\ KeptOK'
      /\ RunOK(e) /\ e.workload = run.workload /\ e.when = run.when /\ e.count = run.count
      /\ e.good = run.good /\ (e.dirty <=> d) /\ e.done = run.done
  BY <1>1, <1>2, <1>4, <1>5, <1>6, DirtyTotals
<1>8. log' # <<>> /\ Len(log') = n /\ log'[n] = e /\ Run' = e
  BY <1>2, <1>6 DEF Changed
<1>9. ScriptOK'
  BY <1>1, <1>2, <1>7, <1>8 DEF TotalsInv, ScriptOK, InWorkload
<1>10. PrintedOK'
  <2>1. lines # <<>> => \E r \in Results : Rest(lines, r, 0)
    BY <1>3, OutputRest
  <2>2. lines # <<>> => \E r \in Results : Rest(lines, r, 0)'
    BY <1>1, <2>1, RestSame
  <2>3. (out # <<>> => \E r \in Results, k \in 0 .. 5 : Rest(out, r, k))'
    BY <1>1, <2>2
  <2>4. Len(lines) # 1
    <3>1. CASE lines = <<>>
      <4>1. Len(lines) = 0
        BY <3>1
      <4> QED
        BY <4>1
    <3>2. CASE \E r \in Results : lines = Output(r)
      BY <1>3, <3>2, OutputRest
    <3> QED
      BY <3>1, <3>2
  <2> QED
    BY <1>1, <1>2, <1>3, <1>8, <2>3, <2>4 DEF PrintedOK
<1>11. OpenOK'
  <2>1. SUFFICES ASSUME Tracked(n)' PROVE OpenOK'
    BY <1>8 DEF OpenOK
  <2>2. ~e.dirty /\ Tracked(n)
    BY <1>1, <1>2, <1>3, <1>4, <1>7, <1>8, <2>1 DEF Tracked, Followed
  <2>3. lines # <<>> => run.good = <<>> /\ format # "go"
    BY <1>4, <1>7, <2>2
  <2>4. ~Finished(n)
    BY <1>1, <1>2, <1>3 DEF Finished
  <2>5. InRun(run, p, out)
    BY <1>1, <1>2, <2>2, <2>4 DEF TotalsInv, OpenOK
  <2>6. InRun(e, p, lines)
    <3>1. CASE lines = <<>>
      BY <1>1, <1>7, <2>5, <3>1 DEF InRun
    <3>2. CASE lines # <<>>
      <4>1. DOMAIN run.good = {} /\ format # "go"
        BY <1>3, <2>3, <3>2
      <4> QED
        BY <1>7, <2>5, <4>1 DEF InRun, NoneHeard
    <3> QED
      BY <3>1, <3>2
  <2> QED
    BY <1>1, <1>2, <1>8, <2>6, OpenIs
<1> QED
  BY <1>7, <1>9, <1>10, <1>11 DEF TotalsInv

\* The script ends.  A run cut in the middle of a result is dirty.
LEMMA ScriptEndsTotals ==
    ASSUME YcsbOK, TotalsInv, ScriptEnds
    PROVE  TotalsInv'
<1>1. /\ stage = "script" /\ log # <<>> /\ stage' = "eof" /\ out' = <<>> /\ running' = {}
      /\ UNCHANGED <<format, parser>>
  BY DEF ScriptEnds
<1>2. PICK n, p, run : n = Len(log) /\ p = parser /\ run = Run
  OBVIOUS
<1>3. /\ LogOK /\ format \in {"java", "cockroach", "go"}
      /\ n \in Nat /\ n \in 1 .. n /\ run = log[n] /\ RunOK(run)
      /\ DOMAIN p.cur = {"host"} \cup HostFigures
  BY <1>1, <1>2, WorkloadFacts
<1>4. PICK d \in BOOLEAN : d <=> run.dirty \/ out # <<>>
  OBVIOUS
<1>5. PICK e : e = [run EXCEPT !.dirty = d]
  OBVIOUS
<1>6. Changed(e)
  <2>1. log' = [log EXCEPT ![n] = [log[n] EXCEPT !.dirty = run.dirty \/ out # <<>>]]
    BY <1>2, <1>3 DEF ScriptEnds
  <2>2. d = (run.dirty \/ out # <<>>)
    BY <1>4
  <2>3. log' = [log EXCEPT ![n] = e]
    BY <1>3, <1>5, <2>1, <2>2
  <2> QED
    BY <1>1, <1>2, <1>3, <2>3, ChangedIs
<1>7. /\ RunsOK' /\ BoundOK' /\ KeptOK'
      /\ RunOK(e) /\ e.workload = run.workload /\ e.when = run.when /\ e.count = run.count
      /\ e.good = run.good /\ (e.dirty <=> d) /\ e.done = run.done
  BY <1>1, <1>2, <1>4, <1>5, <1>6, DirtyTotals
<1>8. log' # <<>> /\ Len(log') = n /\ log'[n] = e /\ Run' = e
  BY <1>2, <1>6 DEF Changed
<1>9. ScriptOK'
  BY <1>1, <1>8 DEF ScriptOK
<1>10. PrintedOK'
  BY <1>1, <1>2, <1>3, <1>8 DEF PrintedOK
<1>11. OpenOK'
  <2>1. SUFFICES ASSUME Tracked(n)', ~Finished(n)' PROVE OpenOK'
    BY <1>8 DEF OpenOK
  <2>2. ~e.dirty /\ Tracked(n) /\ ~Finished(n)
    BY <1>1, <1>2, <1>3, <1>4, <1>7, <1>8, <2>1 DEF Tracked, Followed, Finished
  <2>3. out = <<>>
    BY <1>4, <1>7, <2>2
  <2>4. InRun(run, p, out)
    BY <1>1, <1>2, <2>2 DEF TotalsInv, OpenOK
  <2>5. InRun(e, p, out)
    BY <1>7, <2>4 DEF InRun
  <2> QED
    BY <1>1, <1>2, <1>8, <2>3, <2>5, OpenIs
<1> QED
  BY <1>7, <1>9, <1>10, <1>11 DEF TotalsInv

\* A line of figures goes to the host that printed it.
LEMMA PrintLineTotals ==
    ASSUME YcsbOK, TotalsInv, PrintLine
    PROVE  TotalsInv'
<1>1. /\ stage = "script" /\ out # <<>> /\ UNCHANGED <<format, stage, running, log>>
      /\ InWorkload /\ log # <<>> /\ ~Run.done
  BY DEF PrintLine, TotalsInv, ScriptOK, InWorkload
<1>2. PICK n, p, q, run, lines, rest : n = Len(log) /\ p = parser /\ q = parser' /\ run = Run
                                       /\ lines = out /\ rest = Tail(lines)
  OBVIOUS
<1>3. /\ format \in {"java", "cockroach", "go"} /\ n \in Nat /\ n \in 1 .. n
      /\ run = log[n] /\ RunOK(run) /\ FieldsOK(p)
      /\ \A x \in DOMAIN run.good : run.good[x] \in Results
  BY <1>1, <1>2, WorkloadFacts DEF FieldsOK
<1>4. /\ lines \in Seq(Range(lines)) /\ lines # <<>>
      /\ format = "cockroach" => (p.title <=> Len(lines) = 1)
      /\ \E r \in Results, k \in 0 .. 5 : Rest(lines, r, k)
  BY <1>1, <1>2 DEF YcsbOK, OutOK, TotalsInv, PrintedOK
<1>5. q = Parse(p, Head(lines)) /\ out' = rest
  BY <1>2 DEF PrintLine, Reads
<1>6. ASSUME NEW r \in Results, NEW k, Rest(lines, r, k)
      PROVE  /\ SameBut(p, q)
             /\ format = "cockroach" => (q.title <=> Len(rest) = 1)
             /\ k + 1 \in 0 .. 5 /\ Rest(rest, r, k + 1)
             /\ FiguresRead(p.cur, p.finished, r, k) => FiguresRead(q.cur, q.finished, r, k + 1)
  <2>1. /\ SameBut(p, q)
        /\ format = "cockroach" => (q.title <=> Len(Tail(lines)) = 1)
        /\ k + 1 \in 0 .. 5 /\ Rest(Tail(lines), r, k + 1)
        /\ FiguresRead(p.cur, p.finished, r, k) => FiguresRead(q.cur, q.finished, r, k + 1)
    BY <1>3, <1>4, <1>5, <1>6, FigureStep
  <2> QED
    BY <1>2, <2>1
<1>7. PICK r \in Results, k \in 0 .. 5 : Rest(lines, r, k)
  BY <1>4
<1>8. /\ q.workload = p.workload /\ q.when = p.when /\ q.count = p.count
      /\ q.lists = p.lists /\ q.per = p.per /\ q.results = p.results
      /\ DOMAIN q.cur = {"host"} \cup HostFigures /\ q.cur.host = p.cur.host
  BY <1>3, <1>6, <1>7 DEF SameBut, FieldsOK
<1>9. Run' = Run /\ (InWorkload' <=> InWorkload)
  BY <1>1 DEF Run, InWorkload
<1>10. RunsOK'
  BY <1>1 DEF TotalsInv, RunsOK
<1>11. ScriptOK'
  BY <1>1, <1>9 DEF TotalsInv, ScriptOK
<1>12. PrintedOK'
  <2>1. k + 1 \in 0 .. 5 /\ Rest(rest, r, k + 1)'
    BY <1>1, <1>6, <1>7, RestSame
  <2>2. Rest(out, r, k + 1)'
    BY <1>5, <2>1
  <2>3. (\E x \in Results, j \in 0 .. 5 : Rest(out, x, j))'
    BY <2>1, <2>2
  <2>4. format = "cockroach" => (q.title <=> Len(rest) = 1)
    BY <1>6, <1>7
  <2> QED
    BY <1>1, <1>2, <1>5, <1>8, <2>3, <2>4 DEF PrintedOK
<1>13. OpenOK'
  <2>1. SUFFICES ASSUME Tracked(n)' PROVE OpenOK'
    BY <1>1, <1>2 DEF OpenOK
  <2>2. Tracked(n) /\ ~Finished(n)
    BY <1>1, <1>2, <1>3, <2>1 DEF Tracked, Followed, Finished
  <2>3. InRun(run, p, lines)
    BY <1>1, <1>2, <2>2 DEF TotalsInv, OpenOK
  <2>4. InRun(run, q, rest)
    <3>1. CASE DOMAIN run.good = {}
      <4>1. NoneHeard(p, lines) /\ p.workload = run.workload /\ p.when = run.when /\ p.count = run.count
        BY <2>3, <3>1 DEF InRun
      <4>2. NoneHeard(q, rest)
        BY <1>4, <1>8, <4>1 DEF NoneHeard
      <4> QED
        BY <1>8, <3>1, <4>1, <4>2 DEF InRun
    <3>2. CASE DOMAIN run.good # {}
      <4>1. SomeHeard(run.good, p, lines) /\ p.workload = run.workload /\ p.when = run.when
            /\ p.count = run.count
        BY <2>3, <3>2 DEF InRun
      <4>2. PICK h : h = p.cur.host
        OBVIOUS
      <4>3. h \in DOMAIN run.good /\ Holds(p.lists[p.per], run.good, DOMAIN run.good \ {h})
        BY <4>1, <4>2 DEF SomeHeard
      <4>4. PICK j \in 0 .. 5 :
              Rest(lines, run.good[h], j) /\ FiguresRead(p.cur, p.finished, run.good[h], j)
        BY <4>1, <4>2 DEF SomeHeard
      <4>5. /\ j + 1 \in 0 .. 5 /\ Rest(rest, run.good[h], j + 1)
            /\ FiguresRead(q.cur, q.finished, run.good[h], j + 1)
        BY <1>3, <1>6, <4>3, <4>4
      <4>6. SomeHeard(run.good, q, rest)
        BY <1>8, <4>2, <4>3, <4>5 DEF SomeHeard
      <4> QED
        BY <1>8, <3>2, <4>1, <4>6 DEF InRun
    <3> QED
      BY <3>1, <3>2
  <2> QED
    BY <1>1, <1>2, <1>5, <1>9, <2>4, OpenIs
<1>14. BoundOK'
  <2>1. BoundOK
    BY DEF TotalsInv
  <2> QED
    BY <1>1, <1>2, <1>8, <1>9, <2>1 DEF BoundOK, Followed
<1>15. KeptOK'
  <2>1. SUFFICES ASSUME NEW i \in 1 .. n, Finished(i)', Tracked(i)', DOMAIN log[i].good # {}
                 PROVE  Kept(i)'
    BY <1>1, <1>2 DEF KeptOK
  <2>2. Finished(i) /\ Tracked(i)
    BY <1>1, <2>1 DEF Finished, Tracked, Followed
  <2>3. Kept(i)
    BY <1>2, <2>1, <2>2 DEF TotalsInv, KeptOK
  <2> QED
    BY <1>1, <1>2, <1>8, <2>3 DEF Kept, AllMatch, Finished
<1> QED
  BY <1>10, <1>11, <1>12, <1>13, <1>14, <1>15 DEF TotalsInv

\* What the parser puts when a workload or the log ends is of the last run.
LEMMA EndBound ==
    ASSUME YcsbOK, TotalsInv, log # <<>>, Followed, NEW q, q = EndOfFile(parser)
    PROVE  /\ \A when \in DOMAIN q.results : \E i \in 1 .. Len(log) :
                 CountMatches(log[i].count) /\ DOMAIN log[i].good # {} /\ log[i].when = when
           /\ \A when \in DOMAIN parser.results :
                 when # Run.when => /\ when \in DOMAIN q.results
                                    /\ q.results[when] = parser.results[when]
<1>1. PICK n, p, run : n = Len(log) /\ p = parser /\ run = Run
  OBVIOUS
<1>2. ParserOK(p) /\ n \in 1 .. n /\ run = log[n]
  BY <1>1, WorkloadFacts
<1>3. /\ ResultsEnd(p, q)
      /\ p.workload = "" => q.results = p.results
      /\ p.lists[p.per] = <<>> /\ p.cur.host = "" => q.results = p.results
  BY <1>1, <1>2, EndOfFileFields
<1>4. \A when \in DOMAIN p.results : \E i \in 1 .. n :
        CountMatches(log[i].count) /\ DOMAIN log[i].good # {} /\ log[i].when = when
  BY <1>1 DEF TotalsInv, BoundOK
<1>5. p.workload # "" =>
        /\ CountMatches(run.count) /\ p.when = run.when
        /\ DOMAIN run.good = {} => p.lists[p.per] = <<>> /\ p.cur.host = ""
  BY <1>1 DEF TotalsInv, BoundOK
<1>6. CASE q.results = p.results
  BY <1>1, <1>4, <1>6
<1>7. CASE q.results # p.results
  <2>1. p.when = run.when /\ CountMatches(run.count) /\ DOMAIN run.good # {}
    BY <1>3, <1>5, <1>7
  <2>2. \A when \in DOMAIN q.results : when = p.when \/ when \in DOMAIN p.results
    BY <1>3 DEF ResultsEnd
  <2>3. \A when \in DOMAIN q.results : \E i \in 1 .. n :
          CountMatches(log[i].count) /\ DOMAIN log[i].good # {} /\ log[i].when = when
    BY <1>2, <1>4, <2>1, <2>2
  <2>4. \A when \in DOMAIN p.results :
          when # run.when => when \in DOMAIN q.results /\ q.results[when] = p.results[when]
    BY <1>3, <2>1 DEF ResultsEnd
  <2> QED
    BY <1>1, <2>3, <2>4
<1> QED
  BY <1>6, <1>7

\* What the parser keeps of the last run, when it leaves it.
LEMMA LastKept ==
    ASSUME YcsbOK, TotalsInv, log # <<>>, out = <<>>, ~Finished(Len(log)),
           Tracked(Len(log)), DOMAIN Run.good # {},
           NEW e, Changed(e), e.workload = Run.workload, e.when = Run.when,
           e.count = Run.count, e.good = Run.good, Finished(Len(log))',
           NEW q, q = EndOfFile(parser), parser'.results = q.results,
           parser'.lists = q.lists
    PROVE  Kept(Len(log))'
<1>1. PICK n, p, run : n = Len(log) /\ p = parser /\ run = Run
  OBVIOUS
<1>2. /\ ParserOK(p) /\ RunOK(run) /\ format \in {"java", "cockroach", "go"}
  BY <1>1, WorkloadFacts
<1>3. InRun(run, p, <<>>)
  BY <1>1 DEF TotalsInv, OpenOK
<1>4. /\ run.when \in DOMAIN q.results /\ q.results[run.when] = Totals(run, p.per)
      /\ Holds(q.lists[p.per], run.good, DOMAIN run.good)
  BY <1>1, <1>2, <1>3, RunEnds
<1>5. Len(log') = n /\ log'[n] = e
  BY <1>1 DEF Changed
<1>6. Totals(e, p.per) = Totals(run, p.per)
  BY <1>1 DEF Totals
<1>7. Totals(run, p.per).per = p.per
  BY DEF Totals
<1> QED
  BY <1>1, <1>4, <1>5, <1>6, <1>7 DEF Kept

\* A workload ends: its list is whole, and its totals are kept.
LEMMA WorkloadDoneTotals ==
    ASSUME YcsbOK, TotalsInv, WorkloadDone
    PROVE  TotalsInv'
<1>1. /\ stage = "script" /\ log # <<>> /\ ~Run.done /\ out = <<>>
      /\ running' = {} /\ UNCHANGED <<format, stage, out>>
  BY DEF WorkloadDone, InWorkload
<1>2. PICK n, p, q, run : n = Len(log) /\ p = parser /\ q = parser' /\ run = Run
  OBVIOUS
<1>3. /\ LogOK /\ ParserOK(p) /\ format \in {"java", "cockroach", "go"}
      /\ n \in Nat /\ n \in 1 .. n /\ run = log[n] /\ RunOK(run)
      /\ DOMAIN run = {"workload", "when", "count", "good", "dirty", "done"}
      /\ DOMAIN p.lists = 1 .. Len(p.lists) /\ DOMAIN p.cur = {"host"} \cup HostFigures
      /\ format = "cockroach" => ~p.title
  BY <1>1, <1>2, WorkloadFacts
<1>4. PICK e : e = [run EXCEPT !.done = TRUE]
  OBVIOUS
<1>5. /\ DOMAIN e = DOMAIN run /\ e.workload = run.workload /\ e.when = run.when
      /\ e.count = run.count /\ e.good = run.good /\ e.dirty = run.dirty /\ e.done = TRUE
  BY <1>3, <1>4
<1>6. RunOK(e)
  BY <1>3, <1>5 DEF RunOK
<1>7. Changed(e)
  <2>1. log' = [log EXCEPT ![n] = e]
    BY <1>2, <1>3, <1>4 DEF WorkloadDone
  <2> QED
    BY <1>1, <1>2, <1>3, <2>1, ChangedIs
<1>8. /\ log' # <<>> /\ Len(log') = n /\ log'[n] = e /\ Run' = e
      /\ \A i \in 1 .. n : i # n => log'[i] = log[i]
  BY <1>2, <1>7 DEF Changed
<1>9. PICK end : end = EndOfFile(p)
  OBVIOUS
<1>10. ListEnds(p, end) /\ ResultsEnd(p, end)
  BY <1>3, <1>9, EndOfFileFields
<1>11. /\ format = "go" /\ p.finished => q = p
       /\ ~(format = "go" /\ p.finished) =>
             /\ q.lists = end.lists /\ q.per = p.per /\ q.results = end.results
             /\ q.title = p.title /\ q.workload = "" /\ q.cur = NoHost
  <2>1. PICK line : line = [kind |-> "done"]
    OBVIOUS
  <2>2. line.kind = "done"
    BY <2>1
  <2>3. q = Parse(p, line)
    BY <1>2, <2>1 DEF WorkloadDone, Reads
  <2>4. /\ format = "go" /\ p.finished => q = p
        /\ ~(format = "go" /\ p.finished) => q = Common(p, line)
    BY <1>3, <2>2, <2>3, ScriptLine
  <2>5. CASE ~(format = "go" /\ p.finished)
    <3>1. q = DoneLine(p)
      BY <2>2, <2>4, <2>5 DEF Common
    <3>2. /\ DOMAIN q = ParserFields /\ q.lists = end.lists /\ q.per = p.per
          /\ q.results = end.results /\ q.title = p.title
          /\ q.workload = "" /\ q.cur = NoHost
      <4>1. ParserOK(p)
        BY <1>3
      <4> QED
        BY <1>9, <3>1, <4>1, DoneLineFields
    <3> QED
      BY <2>5, <3>2
  <2> QED
    BY <2>4, <2>5
<1>12. RunsOK'
  BY <1>2, <1>3, <1>5, <1>6, <1>7, RunsChanged DEF TotalsInv
<1>13. ScriptOK'
  BY <1>1, <1>8 DEF ScriptOK
<1>14. PrintedOK'
  <2>1. PICK lines : lines = out
    OBVIOUS
  <2>2. Len(lines) = 0
    BY <1>1, <2>1
  <2>3. DOMAIN q.cur = {"host"} \cup HostFigures /\ q.title = p.title
    BY <1>3, <1>11, NewParserFields
  <2> QED
    BY <1>1, <1>2, <1>3, <1>8, <2>1, <2>2, <2>3 DEF PrintedOK
<1>15. ~Finished(n)
  BY <1>1, <1>2, <1>3 DEF Finished
<1>16. Followed' <=> Followed
  BY <1>1, <1>2, <1>8 DEF Followed
<1>17. OpenOK'
  <2>1. SUFFICES ASSUME Tracked(n)', ~Finished(n)' PROVE OpenOK'
    BY <1>8 DEF OpenOK
  <2>2. format = "go" /\ DOMAIN run.good # {}
    BY <1>1, <1>5, <1>8, <2>1 DEF Finished
  <2>3. Tracked(n)
    BY <1>1, <1>3, <1>5, <1>8, <1>16, <2>1 DEF Tracked
  <2>4. InRun(run, p, <<>>)
    BY <1>1, <1>2, <1>15, <2>3 DEF TotalsInv, OpenOK
  <2>5. p.finished
    BY <1>3, <2>2, <2>4, LastReported
  <2>6. q = p
    BY <1>11, <2>2, <2>5
  <2>7. InRun(e, q, <<>>)
    BY <1>5, <2>4, <2>6 DEF InRun
  <2> QED
    BY <1>1, <1>2, <1>8, <2>7, OpenIs
<1>18. ASSUME Followed
       PROVE  /\ \A when \in DOMAIN end.results : \E i \in 1 .. n :
                   CountMatches(log[i].count) /\ DOMAIN log[i].good # {} /\ log[i].when = when
              /\ \A when \in DOMAIN p.results :
                    when # run.when => /\ when \in DOMAIN end.results
                                       /\ end.results[when] = p.results[when]
  BY <1>1, <1>2, <1>9, <1>18, EndBound
<1>19. \A i \in 1 .. n : /\ log'[i].count = log[i].count /\ log'[i].when = log[i].when
                         /\ log'[i].good = log[i].good
  BY <1>3, <1>5, <1>8
<1>20. BoundOK'
  <2>1. SUFFICES ASSUME Followed' PROVE BoundOK'
    BY DEF BoundOK
  <2>2. Followed
    BY <1>16, <2>1
  <2>3. \A when \in DOMAIN p.results : \E i \in 1 .. n :
          CountMatches(log[i].count) /\ DOMAIN log[i].good # {} /\ log[i].when = when
    BY <1>1, <1>2, <2>2 DEF TotalsInv, BoundOK
  <2>4. p.workload # "" =>
          /\ CountMatches(run.count) /\ p.when = run.when
          /\ DOMAIN run.good = {} => p.lists[p.per] = <<>> /\ p.cur.host = ""
    BY <1>1, <1>2, <2>2 DEF TotalsInv, BoundOK
  <2>5. ASSUME NEW when \in DOMAIN q.results
        PROVE  \E i \in 1 .. n :
                 CountMatches(log'[i].count) /\ DOMAIN log'[i].good # {} /\ log'[i].when = when
    <3>1. when \in DOMAIN p.results \/ when \in DOMAIN end.results
      BY <1>11
    <3>2. PICK i \in 1 .. n :
            CountMatches(log[i].count) /\ DOMAIN log[i].good # {} /\ log[i].when = when
      BY <1>18, <2>2, <2>3, <3>1
    <3>3. log'[i].when = log[i].when /\ log'[i].count = log[i].count /\ log'[i].good = log[i].good
      BY <1>19
    <3> QED
      BY <3>2, <3>3
  <2>6. CASE format = "go" /\ p.finished
    <3>1. q = p
      BY <1>11, <2>6
    <3>2. q.workload # "" =>
            /\ CountMatches(e.count) /\ q.when = e.when
            /\ DOMAIN e.good = {} => q.lists[q.per] = <<>> /\ q.cur.host = ""
      BY <1>5, <2>4, <3>1
    <3> QED
      BY <1>1, <1>2, <1>8, <2>5, <2>6, <3>2 DEF BoundOK
  <2>7. CASE ~(format = "go" /\ p.finished)
    <3>1. q.workload = "" /\ q.cur.host = ""
      BY <1>11, <2>7, NewParserFields
    <3> QED
      BY <1>2, <1>8, <2>5, <3>1 DEF BoundOK
  <2> QED
    BY <2>6, <2>7
<1>21. KeptOK'
  <2>1. SUFFICES ASSUME NEW i \in 1 .. n, Finished(i)', Tracked(i)', DOMAIN log'[i].good # {}
                 PROVE  Kept(i)'
    BY <1>8 DEF KeptOK
  <2>2. Followed
    BY <1>16, <2>1 DEF Tracked
  <2>3. CASE i = n
    <3>1. DOMAIN run.good # {} /\ Tracked(n)
      BY <1>1, <1>3, <1>5, <1>8, <1>16, <2>1, <2>3 DEF Tracked
    <3>2. format # "go"
      BY <1>1, <1>5, <1>8, <2>1, <2>3, <3>1 DEF Finished
    <3>3. q.results = end.results /\ q.lists = end.lists
      BY <1>11, <3>2
    <3>4. /\ e.workload = Run.workload /\ e.when = Run.when /\ e.count = Run.count
          /\ e.good = Run.good /\ DOMAIN Run.good # {} /\ Tracked(Len(log))
          /\ ~Finished(Len(log))
      BY <1>2, <1>5, <1>15, <3>1
    <3>5. Finished(Len(log))'
      BY <1>2, <1>8, <2>1, <2>3
    <3>6. /\ end = EndOfFile(parser) /\ parser'.results = end.results
          /\ parser'.lists = end.lists
      BY <1>2, <1>9, <3>3
    <3>7. Kept(Len(log))'
      BY <1>1, <1>7, <3>4, <3>5, <3>6, LastKept
    <3> QED
      BY <1>2, <1>8, <2>3, <3>7
  <2>4. CASE i # n
    <3>1. /\ q.per = p.per
          /\ \A j \in DOMAIN p.lists : j # p.per => q.lists[j] = p.lists[j]
      BY <1>10, <1>11 DEF ListEnds
    <3>2. \A k \in DOMAIN p.results :
            k # run.when => k \in DOMAIN q.results /\ q.results[k] = p.results[k]
      BY <1>11, <1>18, <2>2
    <3> QED
      BY <1>1, <1>2, <1>5, <1>7, <1>15, <2>1, <2>4, <3>1, <3>2, EarlierKept
  <2> QED
    BY <2>3, <2>4
<1> QED
  BY <1>12, <1>13, <1>14, <1>17, <1>20, <1>21 DEF TotalsInv

\* The log ends, in a workload or after it: the totals of the last run are kept.
LEMMA ParseEndsTotals ==
    ASSUME YcsbOK, TotalsInv, ParseEnds
    PROVE  TotalsInv'
<1>1. /\ stage = "eof" /\ stage' = "parsed" /\ UNCHANGED <<format, running, out, log>>
      /\ log # <<>> /\ out = <<>> /\ running = {}
  BY DEF ParseEnds, TotalsInv, ScriptOK
<1>2. PICK n, p, q, run : n = Len(log) /\ p = parser /\ q = parser' /\ run = Run
  OBVIOUS
<1>3. /\ LogOK /\ ParserOK(p) /\ format \in {"java", "cockroach", "go"}
      /\ n \in Nat /\ n \in 1 .. n /\ run = log[n] /\ RunOK(run)
      /\ DOMAIN p.lists = 1 .. Len(p.lists) /\ DOMAIN p.cur = {"host"} \cup HostFigures
      /\ \A i \in DOMAIN p.results : p.results[i].per \in 1 .. Len(p.lists)
  BY <1>1, <1>2, WorkloadFacts
<1>4. q = EndOfFile(p)
  BY <1>2 DEF ParseEnds
<1>5. /\ ListEnds(p, q) /\ ResultsEnd(p, q)
      /\ q.workload = p.workload /\ q.cur = p.cur
      /\ p.workload = "" => q.results = p.results
  BY <1>3, <1>4, EndOfFileFields
<1>6. Run' = Run /\ (InWorkload' <=> InWorkload) /\ (Followed' <=> Followed)
  BY <1>1 DEF Run, InWorkload, Followed
<1>7. Changed(run)
  BY <1>1, <1>2, <1>3, <1>6 DEF Changed
<1>8. RunsOK'
  BY <1>1 DEF TotalsInv, RunsOK
<1>9. ScriptOK'
  BY <1>1, <1>6 DEF TotalsInv, ScriptOK
<1>10. PrintedOK'
  BY <1>1, <1>2, <1>3, <1>5 DEF PrintedOK
<1>11. \A i \in 1 .. n : Finished(i)'
  BY <1>1 DEF Finished
<1>12. OpenOK'
  BY <1>1, <1>2, <1>3, <1>11 DEF OpenOK
<1>13. ASSUME Followed
       PROVE  /\ \A when \in DOMAIN q.results : \E i \in 1 .. n :
                   CountMatches(log[i].count) /\ DOMAIN log[i].good # {} /\ log[i].when = when
              /\ \A when \in DOMAIN p.results :
                    when # run.when => /\ when \in DOMAIN q.results
                                       /\ q.results[when] = p.results[when]
  BY <1>1, <1>2, <1>4, <1>13, EndBound
<1>14. BoundOK'
  <2>1. SUFFICES ASSUME Followed' PROVE BoundOK'
    BY DEF BoundOK
  <2>2. Followed
    BY <1>6, <2>1
  <2>3. /\ p.workload # "" =>
              /\ CountMatches(run.count) /\ p.when = run.when
              /\ DOMAIN run.good = {} => p.lists[p.per] = <<>> /\ p.cur.host = ""
        /\ format # "go" /\ ~InWorkload => p.workload = "" /\ p.cur.host = ""
    BY <1>1, <1>2, <2>2 DEF TotalsInv, BoundOK
  <2>4. /\ q.workload # "" =>
              /\ CountMatches(run.count) /\ q.when = run.when
              /\ DOMAIN run.good = {} => q.lists[q.per] = <<>> /\ q.cur.host = ""
        /\ format # "go" /\ ~InWorkload => q.workload = "" /\ q.cur.host = ""
    BY <1>5, <2>3 DEF ListEnds
  <2>5. \A when \in DOMAIN q.results : \E i \in 1 .. n :
          CountMatches(log[i].count) /\ DOMAIN log[i].good # {} /\ log[i].when = when
    BY <1>13, <2>2
  <2> QED
    BY <1>1, <1>2, <1>6, <2>4, <2>5 DEF BoundOK
<1>15. KeptOK'
  <2>1. SUFFICES ASSUME NEW i \in 1 .. n, Tracked(i)', DOMAIN log[i].good # {}
                 PROVE  Kept(i)'
    BY <1>1, <1>2 DEF KeptOK
  <2>2. Followed /\ Tracked(i)
    BY <1>1, <2>1 DEF Tracked, Followed
  <2>3. CASE ~Finished(n) /\ i = n
    BY <1>1, <1>2, <1>3, <1>4, <1>7, <1>11, <2>1, <2>2, <2>3, LastKept
  <2>4. CASE ~Finished(n) /\ i # n
    <3>1. q.per = p.per /\ \A j \in DOMAIN p.lists : j # p.per => q.lists[j] = p.lists[j]
      BY <1>5 DEF ListEnds
    <3> QED
      BY <1>1, <1>2, <1>7, <1>13, <2>1, <2>2, <2>4, <3>1, EarlierKept
  <2>5. CASE Finished(n)
    <3>1. run.done /\ (format # "go" \/ DOMAIN run.good = {})
      BY <1>1, <1>2, <1>3, <2>5 DEF Finished
    <3>2. format # "go"
      <4>1. SUFFICES ASSUME format = "go" PROVE FALSE
        OBVIOUS
      <4>2. i = n
        BY <1>2, <1>3, <2>2, <4>1 DEF Followed
      <4> QED
        BY <1>3, <2>1, <3>1, <4>1, <4>2
    <3>3. p.workload = "" /\ p.cur.host = ""
      BY <1>1, <1>2, <2>2, <3>1, <3>2 DEF TotalsInv, BoundOK, InWorkload
    <3>4. q.results = p.results
      BY <1>5, <3>3
    <3>5. \A j \in DOMAIN p.lists : q.lists[j] = p.lists[j]
      BY <1>5, <3>3 DEF ListEnds
    <3>6. Finished(i)
      BY <1>2, <1>3, <2>5 DEF Finished
    <3>7. Kept(i)
      BY <1>2, <2>1, <2>2, <3>6 DEF TotalsInv, KeptOK
    <3>8. PICK when, per : when = log[i].when /\ per = p.results[when].per
      OBVIOUS
    <3>9. when \in DOMAIN p.results
      BY <1>2, <3>7, <3>8 DEF Kept
    <3>10. per \in DOMAIN p.lists
      BY <1>3, <3>8, <3>9
    <3>11. Len(log') = n /\ Finished(n)'
      BY <1>1, <1>2, <1>3, <1>11
    <3>12. AllMatch' => /\ AllMatch /\ q.lists[per] = p.lists[per]
                        /\ ~Finished(Len(log))' => per # q.per
      BY <1>1, <3>5, <3>10, <3>11 DEF AllMatch
    <3> QED
      BY <1>1, <1>2, <3>4, <3>7, <3>8, <3>9, <3>12, KeptStays
  <2> QED
    BY <2>3, <2>4, <2>5
<1> QED
  BY <1>8, <1>9, <1>10, <1>12, <1>14, <1>15 DEF TotalsInv

\* Every step of the log and its parser.
LEMMA TotalsStep ==
    ASSUME YcsbOK, TotalsInv, YcsbNext
    PROVE  TotalsInv'
<1>1. ASSUME NEW n \in Counts, NEW pause \in {0, 1}, StartWorkload(n, pause) PROVE TotalsInv'
  BY <1>1, StartWorkloadTotals
<1>2. ASSUME NEW h \in YcsbHosts, NEW r \in Results, HostSucceeds(h, r) PROVE TotalsInv'
  BY <1>2, HostSucceedsTotals
<1>3. ASSUME NEW h \in YcsbHosts, NEW r \in Results, HostFails(h, Output(r)) PROVE TotalsInv'
  <2>1. PICK lines : lines = Output(r)
    OBVIOUS
  <2>2. HostFails(h, lines)
    BY <1>3, <2>1
  <2> QED
    BY <2>1, <2>2, HostFailsTotals
<1>4. ASSUME NEW h \in YcsbHosts, HostFails(h, <<>>) PROVE TotalsInv'
  <2>1. PICK lines : lines = <<>>
    OBVIOUS
  <2>2. HostFails(h, lines)
    BY <1>4, <2>1
  <2> QED
    BY <2>1, <2>2, HostFailsTotals
<1>5. CASE PrintLine
  BY <1>5, PrintLineTotals
<1>6. CASE WorkloadDone
  BY <1>6, WorkloadDoneTotals
<1>7. CASE ScriptEnds
  BY <1>7, ScriptEndsTotals
<1>8. CASE ParseEnds
  BY <1>8, ParseEndsTotals
<1> QED
  BY <1>1, <1>2, <1>3, <1>4, <1>5, <1>6, <1>7, <1>8 DEF YcsbNext

\* Before the script the parser is as it was made.
LEMMA TotalsStart ==
    ASSUME YcsbInit
    PROVE  TotalsInv
<1>1. /\ stage = "script" /\ running = {} /\ out = <<>> /\ log = <<>> /\ parser = NewParser
  BY DEF YcsbInit
<1>2. Len(log) = 0 /\ Len(out) = 0
  BY <1>1
<1>3. RunsOK /\ KeptOK
  BY <1>2 DEF RunsOK, KeptOK
<1>4. ScriptOK
  BY <1>1 DEF ScriptOK
<1>5. PrintedOK
  <2>1. PICK p : p = parser
    OBVIOUS
  <2>2. DOMAIN p.cur = {"host"} \cup HostFigures /\ ~p.title
    BY <1>1, <2>1, NewParserFields
  <2> QED
    BY <1>1, <1>2, <2>1, <2>2 DEF PrintedOK
<1>6. OpenOK
  BY <1>1 DEF OpenOK
<1>7. BoundOK
  BY <1>1, NewParserFields DEF BoundOK
<1> QED
  BY <1>3, <1>4, <1>5, <1>6, <1>7 DEF TotalsInv

\* Nothing happens to the log or its parser.
LEMMA TotalsSame ==
    ASSUME TotalsInv, UNCHANGED ycsbVars
    PROVE  TotalsInv'
<1>1. /\ UNCHANGED <<format, stage, running, out, log, parser>>
  BY DEF ycsbVars
<1>2. /\ Run' = Run /\ (InWorkload' <=> InWorkload) /\ (Followed' <=> Followed)
      /\ (AllMatch' <=> AllMatch)
  BY <1>1 DEF Run, InWorkload, Followed, AllMatch
<1>3. \A i : (Finished(i)' <=> Finished(i)) /\ (Tracked(i)' <=> Tracked(i))
  BY <1>1, <1>2 DEF Finished, Tracked
<1>4. RunsOK' /\ ScriptOK'
  BY <1>1, <1>2 DEF TotalsInv, RunsOK, ScriptOK
<1>5. PrintedOK'
  <2>1. \A r, k : Rest(out, r, k)' <=> Rest(out, r, k)
    <3>1. PICK lines : lines = out
      OBVIOUS
    <3>2. \A r, k : Rest(lines, r, k)' <=> Rest(lines, r, k)
      BY <1>1, RestSame
    <3> QED
      BY <1>1, <3>1, <3>2
  <2> QED
    BY <1>1, <2>1 DEF TotalsInv, PrintedOK
<1>6. OpenOK'
  <2>1. PICK run, p, lines : run = Run /\ p = parser /\ lines = out
    OBVIOUS
  <2>2. CASE log # <<>> /\ ~Finished(Len(log)) /\ Tracked(Len(log))
    BY <1>1, <1>2, <2>2, OpenIs DEF TotalsInv, OpenOK
  <2>3. CASE ~(log # <<>> /\ ~Finished(Len(log)) /\ Tracked(Len(log)))
    <3>1. Len(log)' = Len(log)
      BY <1>1
    <3> QED
      BY <1>1, <1>3, <2>3, <3>1 DEF OpenOK
  <2> QED
    BY <2>2, <2>3
<1>7. BoundOK'
  BY <1>1, <1>2 DEF TotalsInv, BoundOK
<1>8. KeptOK'
  <2>1. \A i : Kept(i)' <=> Kept(i)
    BY <1>1, <1>2, <1>3 DEF Kept
  <2> QED
    BY <1>1, <1>3, <2>1 DEF TotalsInv, KeptOK
<1> QED
  BY <1>4, <1>5, <1>6, <1>7, <1>8 DEF TotalsInv

\* The totals without the reference to the list.
Clean(total) == [f \in DOMAIN total \ {"per"} |-> total[f]]

\* What is kept of a run is what is expected of it.
LEMMA TotalsExpected ==
    ASSUME NEW run, NEW per, NEW total, total = Totals(run, per)
    PROVE  Clean(total) = Expected(run)
<1> DEFINE figures(f) == {run.good[h][f] : h \in DOMAIN run.good}
           sum(f) == SumFunction([h \in DOMAIN run.good |-> run.good[h][f]])
<1>1. PICK a, b, c, d, e : /\ a = sum("thr") /\ b = sum("errors") /\ c = Max(figures("latency"))
                           /\ d = Max(figures("time")) /\ e = Min(figures("time"))
  OBVIOUS
<1>2. total = [workload |-> run.workload, count |-> run.count, per |-> per, thr |-> a,
               errors |-> b, latency |-> c, maxTime |-> d, minTime |-> e]
  BY <1>1 DEF Totals
<1>3. Expected(run) = [workload |-> run.workload, count |-> run.count, thr |-> a, errors |-> b,
                       latency |-> c, maxTime |-> d, minTime |-> e]
  BY <1>1 DEF Expected
<1> HIDE DEF figures, sum
<1>4. DOMAIN total \ {"per"} = {"workload", "count", "thr", "errors", "latency", "maxTime", "minTime"}
  BY <1>2
<1>5. PICK x : x = [f \in DOMAIN total \ {"per"} |-> total[f]]
  OBVIOUS
<1>6. x = [workload |-> run.workload, count |-> run.count, thr |-> a, errors |-> b,
           latency |-> c, maxTime |-> d, minTime |-> e]
  BY <1>2, <1>4, <1>5
<1> QED
  BY <1>3, <1>5, <1>6 DEF Clean

\* The invariant gives the totals.
LEMMA TotalsGive ==
    ASSUME YcsbOK, TotalsInv
    PROVE  TotalsExact
<1>1. SUFFICES ASSUME stage = "parsed",
                      format = "go" => Len(log) = 1 /\ Cardinality(DOMAIN log[1].good) <= 1
               PROVE  Exact
  BY DEF TotalsExact
<1>2. PICK n, results : n = Len(log) /\ results = parser.results
  OBVIOUS
<1>3. /\ n \in Nat /\ DOMAIN log = 1 .. n
      /\ \A i \in 1 .. n : RunOK(log[i])
  BY <1>2, LogFacts DEF YcsbOK, TotalsInv, RunsOK
<1>4. Followed
  <2>1. CASE format = "go"
    <3>1. Len(log) = 1
      BY <1>1, <2>1, Zenon
    <3>2. Len(log) <= 1
      BY <3>1
    <3> QED
      BY <3>2 DEF Followed
  <2> QED
    BY <2>1 DEF Followed
<1>5. \A i \in 1 .. n : log[i].good # <<>> <=> DOMAIN log[i].good # {}
  BY <1>3 DEF RunOK
<1>6. \A when \in DOMAIN results : \E i \in 1 .. n :
        CountMatches(log[i].count) /\ DOMAIN log[i].good # {} /\ log[i].when = when
  BY <1>2, <1>4 DEF TotalsInv, BoundOK
<1>7. ASSUME NEW when \in DOMAIN results PROVE when \in {log[i].when : i \in Readable}
  <2>2. PICK i \in 1 .. n :
          CountMatches(log[i].count) /\ DOMAIN log[i].good # {} /\ log[i].when = when
    BY <1>6
  <2>3. i \in Readable
    BY <1>3, <1>5, <2>2 DEF Readable
  <2> QED
    BY <2>2, <2>3
<1>8. ASSUME NEW i \in Readable, ~log[i].dirty
      PROVE  /\ log[i].when \in DOMAIN results
             /\ [f \in DOMAIN results[log[i].when] \ {"per"} |-> results[log[i].when][f]]
                  = Expected(log[i])
             /\ (\A j \in DOMAIN log : CountMatches(log[j].count))
                  => LET list == parser.lists[results[log[i].when].per]
                     IN  /\ Len(list) = Cardinality(DOMAIN log[i].good)
                         /\ Hosts(list) = {<<h, log[i].good[h]>> : h \in DOMAIN log[i].good}
  <2>1. i \in 1 .. n /\ CountMatches(log[i].count) /\ DOMAIN log[i].good # {}
    BY <1>3, <1>5, <1>8 DEF Readable
  <2>2. format = "go" => i = 1
    BY <1>1, <1>2, <2>1
  <2>3. Tracked(i) /\ Finished(i)
    BY <1>1, <1>4, <1>8, <2>1, <2>2 DEF Tracked, Finished
  <2>4. Kept(i)
    BY <1>2, <2>1, <2>3 DEF TotalsInv, KeptOK
  <2>5. PICK when, total, per, list, run :
          /\ run = log[i] /\ when = run.when /\ total = results[when] /\ per = total.per
          /\ list = parser.lists[per]
    OBVIOUS
  <2>6. when \in DOMAIN results /\ total = Totals(run, per)
    BY <1>2, <2>4, <2>5 DEF Kept
  <2>7. [f \in DOMAIN total \ {"per"} |-> total[f]] = Expected(run)
    <3>1. Clean(total) = Expected(run)
      BY <2>6, TotalsExpected
    <3> QED
      BY <3>1 DEF Clean
  <2>8. ASSUME \A j \in DOMAIN log : CountMatches(log[j].count)
        PROVE  /\ Len(list) = Cardinality(DOMAIN run.good)
               /\ Hosts(list) = {<<h, run.good[h]>> : h \in DOMAIN run.good}
    <3>1. AllMatch
      BY <1>2, <1>3, <2>8 DEF AllMatch
    <3>2. PICK good : good = run.good
      OBVIOUS
    <3>3. Holds(list, good, DOMAIN good)
      BY <1>2, <2>4, <2>5, <3>1, <3>2 DEF Kept
    <3>4. \A h \in DOMAIN good : good[h] \in [HostFigures -> Nat]
      BY <1>3, <2>1, <2>5, <3>2, YcsbAssumption DEF RunOK
    <3>5. Hosts(list) = {<<h, good[h]>> : h \in DOMAIN good}
      BY <3>3, <3>4, HostsHeld
    <3>6. Len(list) = Cardinality(DOMAIN good)
      BY <3>3 DEF Holds
    <3> QED
      BY <3>2, <3>5, <3>6
  <2>9. /\ when = log[i].when /\ results[log[i].when] = total
        /\ list = parser.lists[results[log[i].when].per]
    BY <2>5
  <2>10. [f \in DOMAIN results[log[i].when] \ {"per"} |-> results[log[i].when][f]] = Expected(log[i])
    BY <2>5, <2>7, <2>9
  <2>11. (\A j \in DOMAIN log : CountMatches(log[j].count))
            => /\ Len(list) = Cardinality(DOMAIN log[i].good)
               /\ Hosts(list) = {<<h, log[i].good[h]>> : h \in DOMAIN log[i].good}
    BY <2>5, <2>8
  <2> QED
    BY <2>6, <2>9, <2>10, <2>11
<1> QED
  BY <1>2, <1>7, <1>8 DEF Exact

\* The invariant of the whole specification: only the YCSB program has a log.
YcsbInv == IF program = "ycsb" THEN TotalsInv ELSE stage = "script"

\* The other programs change nothing of the log.
LEMMA YcsbInvSame ==
    ASSUME YcsbInv, UNCHANGED ycsbVars, program' = program
    PROVE  YcsbInv'
<1>1. CASE program = "ycsb"
  BY <1>1, TotalsSame DEF YcsbInv
<1>2. CASE program # "ycsb"
  BY <1>2 DEF YcsbInv, ycsbVars
<1> QED
  BY <1>1, <1>2

\* The results are those of the workloads that began, each with the totals of exactly
\* the hosts that reported SUCCESS in it and with their list, whatever hosts failed or
\* did not report, and wherever the log ends.  For any hosts, workloads, numbers of
\* instances and results; Go with one instance.
THEOREM TotalsExactAlways == Spec => []TotalsExact
<1>1. Init => YcsbInv
  <2> SUFFICES ASSUME Init PROVE YcsbInv
    OBVIOUS
  <2>1. YcsbInit
    BY DEF Init
  <2> QED
    BY <2>1, TotalsStart DEF YcsbInv, YcsbInit
<1>2. ASSUME UploadInv, YcsbInv, [Next]_allVars PROVE YcsbInv'
  <2>1. CASE program = "ycsb" /\ YcsbNext /\ UNCHANGED <<aggVars, uploadVars>>
    <3>1. YcsbOK /\ program' = program
      BY <1>2, <2>1 DEF UploadInv, InputOK, YcsbOK, uploadVars
    <3>2. TotalsInv'
      BY <1>2, <2>1, <3>1, TotalsStep DEF YcsbInv
    <3> QED
      BY <2>1, <3>1, <3>2 DEF YcsbInv
  <2>2. CASE program = "tpcc" /\ AggNext /\ UNCHANGED <<ycsbVars, uploadVars>>
    <3>1. UNCHANGED ycsbVars /\ program' = program
      BY <2>2 DEF uploadVars
    <3> QED
      BY <1>2, <3>1, YcsbInvSame
  <2>3. CASE Same
    <3>1. UNCHANGED ycsbVars /\ program' = program
      BY <2>3 DEF Same
    <3> QED
      BY <1>2, <3>1, YcsbInvSame
  <2>4. CASE UNCHANGED allVars
    <3>1. UNCHANGED ycsbVars /\ program' = program
      BY <2>4 DEF allVars, uploadVars
    <3> QED
      BY <1>2, <3>1, YcsbInvSame
  <2>5. CASE Connect \/ ConnectFails \/ DropTable \/ CreateTable \/ SchemeFails
    BY <2>3, <2>5 DEF Connect, ConnectFails, DropTable, CreateTable, SchemeFails
  <2>6. CASE InsertRow \/ (\E applied \in BOOLEAN : InsertFails(applied)) \/ RowCannotBeMade
    BY <2>3, <2>6 DEF InsertRow, InsertFails, RowCannotBeMade
  <2>7. CASE InsertKind \/ (\E applied \in BOOLEAN : KindsFail(applied)) \/ Finish
    BY <2>3, <2>7 DEF InsertKind, KindsFail, Finish
  <2> QED
    BY <1>2, <2>1, <2>2, <2>4, <2>5, <2>6, <2>7 DEF Next
<1>3. UploadInv /\ YcsbInv => TotalsExact
  <2> SUFFICES ASSUME UploadInv, YcsbInv PROVE TotalsExact
    OBVIOUS
  <2>1. CASE program = "ycsb"
    <3>1. YcsbOK
      BY <2>1 DEF UploadInv, InputOK, YcsbOK
    <3> QED
      BY <2>1, <3>1, TotalsGive DEF YcsbInv
  <2>2. CASE program # "ycsb"
    BY <2>2 DEF YcsbInv, TotalsExact
  <2> QED
    BY <2>1, <2>2
<1> QED
  BY <1>1, <1>2, <1>3, UploadInvariance, PTL DEF Spec

=============================================================================
