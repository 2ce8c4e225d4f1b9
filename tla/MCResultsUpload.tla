--------------------------- MODULE MCResultsUpload ---------------------------
(* Small instances of ResultsUpload: two workloads of YCSB on at most two hosts  *)
(* that report, or two instances of TPC-C, or two kinds of latency.              *)
EXTENDS ResultsUpload

MCWorkloads == <<"a", "c">>

\* Two results that differ in each figure.
MCResults == {[thr |-> 600, errors |-> 0, latency |-> 3, time |-> 1],
              [thr |-> 1500, errors |-> 2, latency |-> 2, time |-> 2]}

MCEdges == <<2, 4, 8>>
MCKinds == <<"PlainGrpc", "Select1">>

S(name, ts, ms, ok) == [name |-> name, ts |-> ts, ms |-> ms, ok |-> ok]

Fast == <<S("NewOrder", 1, 1, TRUE), S("NewOrder", 3, 3, TRUE), S("Payment", 3, 4, TRUE)>>
Slow == <<S("NewOrder", 2, 8, TRUE), S("NewOrder", 3, 4, TRUE), S("NewOrder", 3, 9, FALSE),
          S("Payment", 2, 1, FALSE)>>
Quick == <<S("NewOrder", 1, 1, TRUE)>>

\* An instance: with a log or without, with measurements that began early or late, of
\* the new or the previous version of benchbase, or stopped before it wrote anything; one
\* with nothing but a transaction in the first bucket, or without its raw results.
MCInstanceData ==
    [log : {"complete"}, start : {1, 2}, warehouses : {10}, tpmc : {120, 125},
     raw : {"json", "csv"}, samples : {Fast, Slow}]
    \cup [log : {"none", "cut"}, start : {1}, warehouses : {10}, tpmc : {0},
          raw : {"none", "json"}, samples : {Fast}]
    \cup [log : {"complete"}, start : {1}, warehouses : {10}, tpmc : {120},
          raw : {"none", "json"}, samples : {Quick}]
=============================================================================
