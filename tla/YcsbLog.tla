------------------------------ MODULE YcsbLog ------------------------------
(* multinode_aggegate_result.py reads the log that run_workloads_impl.sh writes *)
(* while parallel-ssh runs YCSB on several hosts, and adds the results of the   *)
(* hosts up.  The script is external: each action of it writes one line, and    *)
(* the parser takes that line at once, for it reads them in the same order.     *)
EXTENDS Integers, Sequences, FiniteSets, FiniteSetsExt, Functions

CONSTANTS
    YcsbHosts,  \* the hosts that may report
    Workloads,  \* $WORKLOADS: a sequence of names
    Counts,     \* possible lengths of the host list
    Results     \* possible results of a host: [thr, errors, latency, time]

HostFigures == {"thr", "errors", "latency", "time"}

\* The parser has "" for no workload and no host.  YCSB runs for some time, and no
\* operation takes none.
ASSUME YcsbAssumption ==
    /\ IsFiniteSet(YcsbHosts) /\ "" \notin YcsbHosts
    /\ Workloads \in Seq(Range(Workloads)) /\ "" \notin Range(Workloads)
    /\ Counts \subseteq Nat
    /\ Results \subseteq [HostFigures -> Nat]
    /\ \A r \in Results : r.latency > 0 /\ r.time > 0

VARIABLES
    format,     \* option --type: "java" (its default), "cockroach" or "go"
    stage,      \* of the log: "script", "eof", "parsed"
    running,    \* the hosts whose YCSB runs
    out,        \* lines of a host still to be printed
    log,        \* history: the workloads started
    parser      \* state of Parser.parse, parse_cockroach or parse_go

ycsbVars == <<format, stage, running, out, log, parser>>

\* An assignment to an item of a dictionary.
Put(dict, key, value) ==
    [k \in {key} \cup DOMAIN dict |-> IF k = key THEN value ELSE dict[k]]

-----------------------------------------------------------------------------
(* The parser.                                                                 *)

NoHost == [host |-> "", thr |-> 0, errors |-> 0, latency |-> 0, time |-> 0]

\* per is the list current_workload_results refers to: lists[per].  A total keeps
\* that reference, not a copy.
NewParser ==
    [workload |-> "", when |-> 0, count |-> 0, lists |-> <<<<>>>>, per |-> 1,
     cur |-> NoHost, title |-> FALSE, finished |-> FALSE, results |-> <<>>]

\* Regular expression workload_p: the number of instances matches [1-9]+.
CountMatches(n) == \A unit \in {1, 10, 100} : n < unit \/ (n \div unit) % 10 # 0

Biggest(list, field) == Max({0} \cup {list[i][field] : i \in DOMAIN list})
Total(list, field) == SumFunction([i \in DOMAIN list |-> list[i][field]])

\* calc_aggregated_result; oks and not_found are added up as throughput is.
Aggregated(p) ==
    LET list == p.lists[p.per] IN
    [workload |-> p.workload, count |-> p.count, per |-> p.per,
     thr |-> Total(list, "thr"), errors |-> Total(list, "errors"),
     latency |-> Biggest(list, "latency"), maxTime |-> Biggest(list, "time"),
     minTime |-> IF list = <<>> THEN 0
                 ELSE Min({list[i].time : i \in DOMAIN list})]

\* add_workload: results is a dictionary by the second in which the workload began.
\* The hosts' results are sorted in place, which only the printed list shows.
AddWorkload(p) ==
    IF p.workload = "" \/ Aggregated(p).maxTime = 0 THEN p
    ELSE [p EXCEPT !.results = Put(@, p.when, Aggregated(p))]

\* The result of the last host joins the list, unless no host was met yet.
WithHost(p) ==
    IF p.cur.host = "" THEN p ELSE [p EXCEPT !.lists[p.per] = Append(@, p.cur)]

\* Mutant: the list of the last workload is gone on with.
HeaderKeepsList(p, line) ==
    [p EXCEPT !.workload = line.workload, !.when = line.when, !.count = line.count,
              !.cur = NoHost, !.finished = FALSE]

Header(p, line) ==
    [p EXCEPT !.workload = line.workload, !.when = line.when, !.count = line.count,
              !.lists = Append(@, <<>>), !.per = Len(p.lists) + 1,
              !.cur = NoHost, !.finished = FALSE]

HostLine(p, line) ==
    [WithHost(p) EXCEPT !.cur = [NoHost EXCEPT !.host = line.host], !.finished = FALSE]

DoneLine(p) == [AddWorkload(WithHost(p)) EXCEPT !.cur = NoHost, !.workload = ""]

EndOfFile(p) == AddWorkload(WithHost(p))

\* The lines that all three parsers know.
Common(p, line) ==
    CASE line.kind = "header" /\ CountMatches(line.count) -> Header(p, line)
      [] line.kind = "host" -> HostLine(p, line)
      [] line.kind = "done" -> DoneLine(p)
      [] OTHER -> p

\* parse: one line of output for each figure, and several latencies.
ParseJava(p, line) ==
    CASE line.kind = "time" -> [p EXCEPT !.cur.time = line.value]
      [] line.kind = "thr" -> [p EXCEPT !.cur.thr = line.value]
      [] line.kind = "latency" ->
            [p EXCEPT !.cur.latency = Max({@, line.value})]
      [] line.kind = "errors" -> [p EXCEPT !.cur.errors = line.value]
      [] OTHER -> Common(p, line)

\* parse_cockroach: the figures are on the line after the one that ends with
\* __result.
ParseCockroach(p, line) ==
    CASE p.title -> [p EXCEPT !.title = FALSE,
                              !.cur = [line.value EXCEPT !.host = p.cur.host]]
      [] ~p.title /\ line.kind = "title" -> [p EXCEPT !.title = TRUE]
      [] OTHER -> Common(p, line)

\* parse_go: after "Run finished" every line that does not match is skipped.
ParseGo(p, line) ==
    CASE line.kind = "time" -> [p EXCEPT !.cur.time = line.value, !.finished = TRUE]
      [] p.finished /\ line.kind = "errors" -> [p EXCEPT !.cur.errors = @ + line.value]
      [] p.finished /\ line.kind = "total" ->
            [p EXCEPT !.cur.thr = line.value.thr, !.cur.latency = line.value.latency]
      [] p.finished /\ line.kind \notin {"time", "errors", "total"} -> p
      [] OTHER -> Common(p, line)

Parse(p, line) ==
    CASE format = "java" -> ParseJava(p, line)
      [] format = "cockroach" -> ParseCockroach(p, line)
      [] format = "go" -> ParseGo(p, line)

-----------------------------------------------------------------------------
(* The script, parallel-ssh and YCSB (external).                               *)

\* What YCSB prints at its end; Java's has a latency for each kind of operation.
Output(r) ==
    CASE format = "java" ->
            << [kind |-> "time", value |-> r.time], [kind |-> "thr", value |-> r.thr],
               [kind |-> "latency", value |-> r.latency],
               [kind |-> "latency", value |-> 1],
               [kind |-> "errors", value |-> r.errors] >>
      [] format = "cockroach" ->
            << [kind |-> "title"], [kind |-> "values", value |-> Put(r, "host", "")] >>
      [] format = "go" ->
            << [kind |-> "time", value |-> r.time],
               [kind |-> "errors", value |-> r.errors],
               [kind |-> "total", value |-> r] >>

Reads(line) == parser' = Parse(parser, line)

Run == log[Len(log)]
InWorkload == log # <<>> /\ ~Run.done

\* The next workload begins, in the same second only if no host of the last one ran.
StartWorkload(n, pause) ==
    LET when == IF log = <<>> THEN 1 ELSE Run.when + pause
    IN  /\ stage = "script" /\ ~InWorkload
        /\ Len(log) < Len(Workloads)
        /\ log # <<>> /\ Run.good # <<>> => pause = 1
        /\ log' = Append(log, [workload |-> Workloads[Len(log) + 1], when |-> when,
                               count |-> n, good |-> <<>>, dirty |-> FALSE,
                               done |-> FALSE])
        /\ running' \in {hs \in SUBSET YcsbHosts : hs # {} /\ Cardinality(hs) <= n}
        /\ Reads([kind |-> "header", workload |-> Workloads[Len(log) + 1],
                  when |-> when, count |-> n])
        /\ UNCHANGED <<format, stage, out>>

\* A host ends with [SUCCESS]: parallel-ssh prints that line, then the host's output.
HostSucceeds(h, r) ==
    /\ stage = "script" /\ InWorkload /\ out = <<>> /\ h \in running
    /\ running' = running \ {h}
    /\ out' = Output(r)
    /\ log' = [log EXCEPT ![Len(log)].good = Put(@, h, r)]
    /\ Reads([kind |-> "host", host |-> h])
    /\ UNCHANGED <<format, stage>>

\* A host ends with [FAILURE], a line that matches nothing, and what it printed.
HostFails(h, lines) ==
    /\ stage = "script" /\ InWorkload /\ out = <<>> /\ h \in running
    /\ running' = running \ {h}
    /\ out' = lines
    /\ log' = [log EXCEPT ![Len(log)].dirty =
                 @ \/ (lines # <<>> /\ (Run.good # <<>> \/ format = "go"))]
    /\ UNCHANGED <<format, stage, parser>>

PrintLine ==
    /\ stage = "script" /\ out # <<>>
    /\ Reads(Head(out))
    /\ out' = Tail(out)
    /\ UNCHANGED <<format, stage, running, log>>

\* parallel-ssh has ended; if it was killed, not all hosts have reported.
WorkloadDone ==
    /\ stage = "script" /\ InWorkload /\ out = <<>>
    /\ log' = [log EXCEPT ![Len(log)].done = TRUE]
    /\ running' = {}
    /\ Reads([kind |-> "done"])
    /\ UNCHANGED <<format, stage, out>>

\* The script ends, after the last workload or because it was killed.
ScriptEnds ==
    /\ stage = "script" /\ log # <<>>
    /\ stage' = "eof"
    /\ log' = [log EXCEPT ![Len(log)].dirty = @ \/ out # <<>>]
    /\ out' = <<>> /\ running' = {}
    /\ UNCHANGED <<format, parser>>

ParseEnds ==
    /\ stage = "eof"
    /\ stage' = "parsed"
    /\ parser' = EndOfFile(parser)
    /\ UNCHANGED <<format, running, out, log>>

YcsbInit ==
    /\ stage = "script" /\ running = {} /\ out = <<>> /\ log = <<>>
    /\ parser = NewParser

YcsbNext ==
    \/ \E n \in Counts, pause \in {0, 1} : StartWorkload(n, pause)
    \/ \E h \in YcsbHosts, r \in Results :
          HostSucceeds(h, r) \/ HostFails(h, Output(r))
    \/ \E h \in YcsbHosts : HostFails(h, <<>>)
    \/ PrintLine \/ WorkloadDone \/ ScriptEnds \/ ParseEnds

-----------------------------------------------------------------------------
Readable == {i \in DOMAIN log : CountMatches(log[i].count) /\ log[i].good # <<>>}

\* What the hosts of a workload did together, as figures of its own.
Expected(run) ==
    LET figures(f) == {run.good[h][f] : h \in DOMAIN run.good}
        sum(f) == SumFunction([h \in DOMAIN run.good |-> run.good[h][f]])
    IN  [workload |-> run.workload, count |-> run.count,
         thr |-> sum("thr"), errors |-> sum("errors"), latency |-> Max(figures("latency")),
         maxTime |-> Max(figures("time")), minTime |-> Min(figures("time"))]

Hosts(list) == {<<list[i].host, [f \in HostFigures |-> list[i][f]]>> : i \in DOMAIN list}

\* The results are those of the workloads that began, each with the totals of exactly
\* the hosts that reported SUCCESS in it, and with the list of these hosts, whatever
\* hosts failed or did not report and wherever the log ends.  Left out are workloads
\* with more figures in the log than those of its hosts (dirty); and the lists, when a
\* number of instances in the log has a digit 0.
Exact ==
    LET results == parser.results
        counted == {i \in Readable : ~log[i].dirty}
        clean(when) == [f \in DOMAIN results[when] \ {"per"} |-> results[when][f]]
    IN  /\ DOMAIN results \subseteq {log[i].when : i \in Readable}
        /\ \A i \in counted :
              /\ log[i].when \in DOMAIN results
              /\ clean(log[i].when) = Expected(log[i])
              /\ (\A j \in DOMAIN log : CountMatches(log[j].count))
                   => LET list == parser.lists[results[log[i].when].per]
                      IN  /\ Len(list) = Cardinality(DOMAIN log[i].good)
                          /\ Hosts(list) = {<<h, log[i].good[h]>> : h \in DOMAIN log[i].good}

\* For Go this holds of logs with one instance of YCSB only.
TotalsExact ==
    stage = "parsed" /\ (format = "go" => Len(log) = 1 /\ Cardinality(DOMAIN log[1].good) <= 1)
      => Exact

\* Comment at the head of the script: "When YCSB runs on multiple nodes via pssh, this
\* script parses the log and aggregates a result".
GoTotalsExact == stage = "parsed" /\ format = "go" => Exact

=============================================================================
