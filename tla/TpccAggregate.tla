---------------------------- MODULE TpccAggregate ----------------------------
(* class Aggregator of tpcc_helper.py, which aggregate_results.py repeats: it     *)
(* reads the logs that the instances of benchbase left, adds them up, merges the  *)
(* histograms of their transactions and reports percentiles.  benchbase is        *)
(* external: a set of states the directory may be in.                             *)
EXTENDS Integers, Sequences, FiniteSets, FiniteSetsExt, SequencesExt

CONSTANTS
    Instances,    \* the directories in the directory of results
    InstanceData, \* what an instance may have left: [log, start, warehouses, tpmc,
                  \* raw, samples]; a sample is [name, ts, ms, ok]
    Edges,        \* bucketlist: the limits of the buckets of a histogram
    Percentiles

ASSUME EdgesAssumption ==
    /\ Edges \in Seq(Nat) /\ Edges # <<>>
    /\ \A i, j \in DOMAIN Edges : i < j => Edges[i] < Edges[j]

ASSUME DataAssumption ==
    \A d \in InstanceData : /\ d.log \in {"none", "cut", "complete"} /\ d.start \in Nat
                            /\ d.warehouses \in Nat /\ d.tpmc \in Nat
                            /\ d.raw \in {"none", "json", "csv"}
                            /\ d.samples \in Seq(Range(d.samples))
                            /\ \A k \in DOMAIN d.samples : d.samples[k].ms \in Nat

ASSUME AggregateAssumption == IsFiniteSet(Instances) /\ Percentiles \subseteq 1 .. 100

VARIABLES
    dir,  \* instance -> what it left
    agg   \* [phase, order, results, read, stats, hist, total, report]

aggVars == <<dir, agg>>

-----------------------------------------------------------------------------
(* class Histogram.                                                            *)

\* bisect_right
Bucket(ms) == Cardinality({i \in DOMAIN Edges : Edges[i] <= ms})

EmptyHistogram == [b \in 0 .. Len(Edges) |-> 0]

\* add
AddSample(hist, ms) == [hist EXCEPT ![Bucket(ms)] = @ + 1]

\* add_bucket for all buckets
AddHistogram(hist, other) == [b \in DOMAIN hist |-> hist[b] + other[b]]

UpTo(hist, b) == SumFunctionOnSet(hist, 0 .. b)
TotalCount(hist) == SumFunction(hist)

\* The string "<" and the first limit, where the first bucket has no lower limit.
Below == -1

\* Mutant: the bucket by which more than p percent are reached.
PercentileAbove(hist, p) ==
    LET b == Min({Len(Edges)} \cup
                 {c \in DOMAIN hist : 100 * UpTo(hist, c) > p * TotalCount(hist)})
    IN  IF b = 0 THEN Below ELSE Edges[b]

\* percentile: the lower limit of the first bucket by which p percent are reached.
Percentile(hist, p) ==
    LET b == Min({c \in DOMAIN hist : 100 * UpTo(hist, c) >= p * TotalCount(hist)})
    IN  IF b = 0 THEN Below ELSE Edges[b]

-----------------------------------------------------------------------------
Fresh == [phase |-> "logs", order |-> <<>>, results |-> <<>>, read |-> 0,
          stats |-> <<>>, hist |-> <<>>, total |-> <<>>, report |-> <<>>]

Fails == agg' = [agg EXCEPT !.phase = "failed"]

\* The first loop, in the order of os.listdir, which is any.  process_run_file looks
\* for one line after the other and raises when the lines of the results are not there.
ReadLog(i) ==
    /\ agg.phase = "logs" /\ i \in Instances \ Range(agg.order)
    /\ LET listed == [agg EXCEPT !.order = Append(@, i)]
           d == dir[i]
       IN  CASE d.log = "none" -> agg' = listed
             [] d.log = "cut" -> Fails
             [] d.log = "complete" -> agg' = [listed EXCEPT !.results = Append(@, d)]
    /\ UNCHANGED dir

\* The totals.  run_results stays in the order of the directory: sorted() returns a new
\* list, which is dropped.  Without a result run_results[0] raises; without a warehouse
\* the efficiency is a division by zero.
SumUp ==
    /\ agg.phase = "logs" /\ Range(agg.order) = Instances
    /\ LET rs == agg.results
           sum(field) == SumFunction([i \in DOMAIN rs |-> rs[i][field]])
           total == [start |-> rs[1].start, warehouses |-> sum("warehouses"),
                     tpmc |-> sum("tpmc"), delta |-> rs[Len(rs)].start - rs[1].start]
       IN  IF rs = <<>> \/ sum("warehouses") = 0 THEN Fails
           ELSE agg' = [agg EXCEPT !.phase = "raw", !.total = total]
    /\ UNCHANGED dir

\* The samples since a time.
Since(d, start) == {k \in DOMAIN d.samples : d.samples[k].ts >= start}

\* What benchbase counts itself: the transactions since its own start of measurements.
Measured(d) == Since(d, d.start)

\* Those of the samples ks that are of one kind.
OfKind(d, ks, name, ok) == {k \in ks : d.samples[k].name = name /\ d.samples[k].ok = ok}

Names(d, ks) == {d.samples[k].name : k \in ks}
Count(d, ks, name, ok) == Cardinality(OfKind(d, ks, name, ok))
HistogramOf(d, ks, name) ==
    FoldSet(LAMBDA k, hist : AddSample(hist, d.samples[k].ms), EmptyHistogram,
            OfKind(d, ks, name, TRUE))

StatsOf(name) == IF name \in DOMAIN agg.stats THEN agg.stats[name]
                 ELSE [ok |-> 0, failed |-> 0]
HistOf(name) == IF name \in DOMAIN agg.hist THEN agg.hist[name] ELSE EmptyHistogram

\* The samples ks are counted; histograms get an entry for each of the names.
Merge(d, ks, names, done) ==
    agg' = [done EXCEPT
              !.stats = [n \in Names(d, ks) \cup DOMAIN @ |->
                            [ok |-> StatsOf(n).ok + Count(d, ks, n, TRUE),
                             failed |-> StatsOf(n).failed + Count(d, ks, n, FALSE)]],
              !.hist = [n \in names \cup DOMAIN @ |->
                            AddHistogram(HistOf(n), HistogramOf(d, ks, n))]]

\* The second loop.  process_raw_json makes a histogram where there is none;
\* process_raw_csv goes by the first instance's start, and a successful transaction
\* without a histogram raises KeyError.
ReadRaw ==
    /\ agg.phase = "raw" /\ agg.read < Len(agg.order)
    /\ LET d == dir[agg.order[agg.read + 1]]
           done == [agg EXCEPT !.read = @ + 1]
           json == Measured(d)
           csv == Since(d, agg.total.start)
           succeeded == {n \in Names(d, csv) : Count(d, csv, n, TRUE) > 0}
       IN  CASE d.raw = "none" -> agg' = done
             [] d.raw = "json" -> Merge(d, json, Names(d, json), done)
             [] d.raw = "csv" ->
                   IF succeeded \subseteq DOMAIN agg.hist
                   THEN Merge(d, csv, succeeded, done)
                   ELSE Fails
    /\ UNCHANGED dir

\* result.json; a histogram without a sample has no percentiles.
Report ==
    /\ agg.phase = "raw" /\ agg.read = Len(agg.order)
    /\ LET nonempty == {n \in DOMAIN agg.hist : TotalCount(agg.hist[n]) > 0}
           percentiles == [n \in nonempty |->
                              [p \in Percentiles |-> Percentile(agg.hist[n], p)]]
       IN  agg' = [agg EXCEPT !.phase = "reported", !.report = percentiles]
    /\ UNCHANGED dir

AggInit == agg = Fresh

AggNext == (\E i \in Instances : ReadLog(i)) \/ SumUp \/ ReadRaw \/ Report

-----------------------------------------------------------------------------
\* The transactions of one kind that some instances measured: instance and place in it.
Transactions(of, name, ok) ==
    UNION {{i} \X OfKind(dir[i], Measured(dir[i]), name, ok) : i \in of}
Latency(t) == dir[t[1]].samples[t[2]].ms

Raws == {i \in Instances : dir[i].raw # "none"}

\* The limit below the p-th percentile of the transactions themselves, which is the
\* smallest latency that p percent of them do not exceed.
TruePercentile(name, p) ==
    LET all == Transactions(Raws, name, TRUE)
        notAbove(ms) == {t \in all : Latency(t) <= ms}
        percentile == Min({ms \in {Latency(t) : t \in all} :
                              100 * Cardinality(notAbove(ms)) >= p * Cardinality(all)})
    IN  IF Bucket(percentile) = 0 THEN Below ELSE Edges[Bucket(percentile)]

\* What is reported is about all instances with a log, whatever the order in which the
\* directory lists them: the totals are theirs, the counts of each kind of transaction
\* are those of all instances, and each percentile is the one of all their transactions
\* taken together.  Instances with a csv file must have begun to measure together.
Comparable ==
    \/ \A i \in Raws : dir[i].raw = "json"
    \/ \A i, j \in Instances : dir[i].start = dir[j].start

AggregateExact ==
    LET logs == {i \in Instances : dir[i].log = "complete"}
        sum(f) == SumFunction([i \in logs |-> dir[i][f]])
        count(n, ok) == Cardinality(Transactions(Raws, n, ok))
        names == UNION {Names(dir[i], Measured(dir[i])) : i \in Raws}
    IN  agg.phase = "reported" /\ Comparable
        => /\ agg.total.warehouses = sum("warehouses") /\ agg.total.tpmc = sum("tpmc")
           /\ DOMAIN agg.stats = names
           /\ \A n \in names :
                 /\ agg.stats[n] = [ok |-> count(n, TRUE), failed |-> count(n, FALSE)]
                 /\ n \in DOMAIN agg.report <=> count(n, TRUE) > 0
                 /\ n \in DOMAIN agg.report =>
                       \A p \in Percentiles : agg.report[n][p] = TruePercentile(n, p)

=============================================================================
