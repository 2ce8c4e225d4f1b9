# benchhelpers: TLA+ models and proofs

`benchhelpers` is a collection of scripts and small programs that run database
benchmarks: TPC-C on YDB and other databases, YCSB, disk and RPC
microbenchmarks, and installers for the clusters under test.  Most of its code is
sequential, but what it controls is not: dozens of remote processes started over
ssh, operations inside the database, completion queues, packet captures that miss
messages, and logs that many hosts write into.  The models concentrate on that.

Paths are relative to the repository (`src/` in `PROJECT.json`).

## 1. Inventory

| Component | State it keeps | Operations | Hard parts | What makes it correct |
|---|---|---|---|---|
| tcpdump analyser, `tpcc/ydb-tpcc-tcpdump-parse/client.cpp` | open transactions by session (owning), the same by HTTP/2 stream (raw pointers), finished transactions, counters | one handler per recognised gRPC message, report at the end | lost and late messages, two maps that must agree, object lifetime, unsigned times | one owner per object; a line of the report is about one transaction whose commit was answered; times do not wrap where the capture's clock goes forward |
| run script, `tpcc/ydb/run_ydb.sh` | phase, background pids, `$unique_hosts`, flags; on the hosts: processes and `results_<k>`; in the database: tables, rows, indices | kill, create, configs, load, compact, index, clean, run, copy, aggregate; signal handler | a failed phase leaves remote processes to the next invocation; unchecked exit codes | every warehouse loaded once; no loader alive during the benchmark; own results only, though a client may be missing |
| partition of the warehouses, `HostConfig` in `tpcc/ydb/tpcc_helper.py` | none, computed anew in each process | share, first and last warehouse of a client | two halves of a share are computed by two commands; rounding | disjoint, complete |
| tables, import, validation, split keys there and in `tpcc/postgres/tpcc_postgres_helper.py` | tables and indices, operations of YDB, a setting of PostgreSQL | create, drop, import, export, enable-split-by-load, postload, vacuum-analyze, validate | polling with retries; operations of interrupted commands go on; a setting that must be put back | a command that ends with 0 did what it was called for; no empty shard |
| index build, `AsyncCreateIndices` and `WaitIndicesReady` there | two futures, then a polled list of operations | `index`, `wait-index` | two processes that share only the database; time-outs; leftovers in the list | success only after the builds it knows of; the polling ends |
| aggregation and upload, `Aggregator` there, `insert_tpcc_results.py`, `ycsb/multinode_aggegate_result.py`, `debug_latency/wrapper.py` | state of a parser, histograms, a table of results | read a log, add up, percentiles, create table, insert with retries | hosts that fail in the middle; order of the directory; repeated calls | totals are those of the instances; rows are neither doubled nor mixed by repeated calls (`debug latency` excepted) |
| cluster control, `db_installers/pylib/common.py`, `cockroach/`, `yugabyte/` | a job with two time-outs; on the hosts: disks, release, servers | stop, clean, format, deploy, start, init; `setup.sh` calls them | exit against time-out; what a killed ssh leaves behind; partial failure over hosts and disks; rounding of cores | a command that succeeds did its work; instances do not share cores; no command hangs |
| YDB cluster configuration, `db_installers/ydb/generate_ydb_configs.py` | generated configuration | rings, fail domains, pool size | rounding of hosts into zones | distinct ring nodes, complete fail domains |
| gRPC ping server, `microbenchmarks/grpc_ping/grpc_ping_server.cpp` | call objects that own themselves, completion queue | `HandleRpcs`, `Proceed`, `SetStreamClosed` | no locks, several workers per queue; dropped calls | one thread per object; no use after deletion; keeps accepting |
| gRPC ping client, `Select1Benchmark.java`, `table_full_compact.py`, disk and stress scripts, packet parsing, helpers, TPC-C on Oracle, CockroachDB, YugabyteDB | see section 8 | | | |

How they interact: the run script calls the helper, which calls the database; the
loaders on the hosts take one half of their share from the config file and the
other from their command line.  The clients leave logs that the aggregator reads, and
`insert_tpcc_results.py` stores what it wrote.  The analyser reads captures of the
sessions of those clients.  `setup.sh` calls `control.py`, which calls jobs over ssh.

`PROJECT.json` lists every component with its files, and the hazards with the line
where each bites.

## 2. Plan

The models, most important first: `TxTracker`, `WarehousePartition`, `TxLedger` and
`TxCapture`; `TpccRun`; `IndexBuild`, `GrpcPingServer`; then `CoreLayout` and
`ClusterControl`, which composes it with jobs and hosts; `TpccTables` and `SplitKeys`;
`YcsbLog` and `TpccAggregate`, composed with the table of results in `ResultsUpload`;
`RingLayout`.

The proofs: every safety property of the passing runs, both refinements, and the
arithmetic of warehouses, split keys, cores, histograms and rings (section 6).

Left: the asynchronous gRPC ping client; the compaction of tables.

## 3. Modules

### TxTracker: the transaction tracker

| TLA+ | client.cpp |
|---|---|
| `heap`, `Live`, `Freed` | `TrasnactionState` objects; a destroyed one leaves its address to the allocator |
| `active`, `byStream`, `finished` | `ActiveTransactions` (`unique_ptr`), `TransactionsByStream` (raw pointers), `FinishedTransactions` |
| `BeginTransaction`, `BeginOnBusyStream` | `start_transaction` |
| `SkipQuery` | the filter and the `default` of `handle_data_query_request` |
| `RequestOfUnknownSession`, `RequestWhileWaiting`, `RequestOfOtherTransaction`, `StartNextRequest` | the branches of `handle_request`, for queries and commits |
| `ResponseOfUnknownStream`, `ResponseThroughDanglingPointer`, `ResponseOfOtherRequest`, `ResponseToQuery`, `ResponseToCommit` | `try_handle_data_query_response` and `try_handle_commit_response`, with `finish_request` and `finish_transaction` |
| `status = "error"`, `"undefined"` | an exception ends `main`; a destroyed object was read |

`Next` lets any message follow any other at any time stamp, earlier ones included, so
what is shown holds for every capture.  `finish_request` takes the latency of a response
that is stamped before its request for 0 (`client.cpp:277-280`); the model does, too.
`stepped` is a history of the transactions that were open when time went back.  A
transaction keeps the number and the sum of its latencies instead of the list.  One step
is one recognised message; Ethernet to protobuf is left out.

Properties: `SingleOwner` (the object that a commit response finishes is the one
that is moved to the report), `OpenConsistent`, `FinishedConsistent` (complete, and unless
time stepped back the client time, an unsigned difference, does not wrap),
`FinishedImmutable`, `AccountedFor`.

### TxLedger and TxCapture: what the report means

`TxCapture` extends the tracker with the sessions, the server and the capture, which
are external and modelled after the comment at `client.cpp:198`.  Constants choose
the filter, lost messages and late responses.  `members` is a history of the
transactions whose requests went into an object.  `TxLedger` is the promise: a
transaction is reported when its commit is answered, alone.  `ImplementsLedger` is
`Ledger!Spec` under `reported <- Reported`.

### TpccRun: the run script

`pc` goes through the phases of the script; `procs` holds the ssh commands of this
and earlier invocations, each starting, running, failed or done; a loader has the
warehouses of its share still to do, taken from `WarehousePartition`.  `rows` says of
each warehouse whether it is empty, loaded once, or spoilt (twice or half).  `Cleanup`
is the trap and may strike in every phase.  A failed check ends the invocation; what
the script does not check (`wait-index`, removal of old results, the copies of the
results) may fail silently.  `WaitIndicesReady` waits until the builds have ended, since
`wait-index` polls without a limit (`tpcc_helper.py:759`); `WaitIndicesCutShort` is a
`wait-index` that gives up on the CLI or reads a list without the new operations.
Fast log, flame graphs, perf, sampling and logging are left out.  It is assumed that
nobody starts the script again while an ssh of the last invocation is still
connecting, that hosts are reachable when `kill_tpcc` runs, and that two invocations do
not share a minute, which names the results directory.

### WarehousePartition

The arithmetic of `HostConfig` as operators of the number of warehouses and clients.

### IndexBuild

`SendRequest` and `CheckFuture` are `AsyncCreateIndices`, `CallCLI` and `Judge` are
`WaitIndicesReady`, `Register`, `Progress` and `Respond` are YDB.  `Verdicts` is the
`for ... else` over the operations; the order of the list is open, so it is a set.
`result` is what the last CLI call returned: a picture that may be stale when judged.
`future.result(timeout=1)` may run out although the request has not started
(`tpcc_helper.py:717-723`); `CheckFuture` then goes on as the code does, and the history
`late` remembers the request.

### TpccTables and SplitKeys: the other commands on tables

One command runs at a time (`cmd` has its name, phase and locals); `Interrupt` ends it
at any step, and what it left behind goes on: operations (`ops`), requests of
enable-split-by-load (`alters`), loaders of the run script (`LoadPart`).  `Parts` are the
rows of a table: batches of each warehouse.

| TLA+ | code |
|---|---|
| `Call`, `Return`, `End`, `Exit` | the commands and their exit codes |
| `DropTable`, `CreateTable` | `DropTables`, `CreateTables`: one call per table; a scheme error of drop is passed over, one of create is an exit; a table in use by an import is busy |
| `StartOp`, `PollFails`, `PollSucceeds`, `Cancelled`, `Finished`, `ForgetOp` | `run_import`, `wait_ydb_operation_done`: ten failed polls in a row give up, done and ready ends |
| `OpCreatesTable`, `OpFillsTable`, `OpEnds`, `OpIsCancelled` | YDB (external) |
| `SendAlter`, `WaitAlters` | `EnableSplitByLoad` |
| `DropAll`, `CreateAll`, `ReadMem`, `RaiseMem`, `CreateIndex`, `CheckIndices`, `Vacuum`, `RestoreMem`, `KeepMem` | the PostgreSQL helper |
| `FirstCheck`, `RunCheck`, `JudgeChecks` | `validate`: one query after the other, while loaders may run; `CheckHolds` counts rows, but that of PostgreSQL's stock only distinct warehouses (`tpcc_postgres_helper.py:174`) |

A table is its existence, the parts of its rows that are there and whether it splits by
load; columns and settings are data. Without `--max-work-mem` nothing is read of
`maintenance_work_mem` and nothing restored (`KeepMem`). `SplitKeys` has the arithmetic of
the split keys and of the minimum number of partitions; `MCTpccTables` compares it with
the loop of the code. It is assumed that no two helpers run at once.

### CoreLayout and ClusterControl: control.py and its jobs

`CoreLayout` is the loop that shares the cores of a host out among the instances.
`ClusterControl` extends it:

| TLA+ | code |
|---|---|
| `Launch`, `ProcessEnds`, `Poll`, `DieOfTerminate`, `GiveUp` | `Job.run`, `wait_exit_code`, `check_terminate_timeout`, `check_kill_timeout`: a turn of the loop, terminate after `Timeout`, kill after `KillTimeout` more |
| `JobFailed`, `Fail`, `End` | `safe_run`, `JobException`, `--fail-on-error` |
| `Call`, `NextJob`, `Done` | `Main.run`; Stop, Clean, Format, Deploy, Init as their lists of jobs |
| `StartMaster`, `StartInstance`, `StartOnNextHost`, `StartSingle`, `StartUnbound`, `StartDone` | `Start.run` of both products |
| `Execute`, `Outcomes` | what the shell commands do on a host, with the exit status of the last part after `;` |
| `StartServer`, `StartYugabyte`, `StartCockroach` | the wrapper on a host: that of YugabyteDB puts the server in the background and returns 0 without looking (`yugabyte_wrapper:16`) |
| `Crash` | a server ends on its own, at its start or later |
| `CallSetup`, `CallByHand` | `setup.sh`, which does not pass `--fail-on-error`, and an operator who does |

A command is under way on each of its hosts (`remote`); when its ssh process is given
up it is either never begun there or goes on as a stray, whose effect may come at any
later time.  `strayed` is a history: properties that a stray can spoil say so.

`servers` are those that were started, `crashed` those of them that are gone; a port is
free and a disk not busy when only crashed ones had it.  `CallSetup` begins with the
copies of `setup.sh`, which it does not check: a host may be out of reach or get no new
wrapper.  The proxies job has the hosts of `HA_PROXY_HOSTS`, and is left out when there
are none.  `AssignCores` computes the ranges of several instances; where the config of
YugabyteDB has `TaskSets`, its entries are passed to `taskset` in their place, and the
properties of cores are not about them.  With one tserver per host and a range for it in
`TaskSets` the start is `StartSingle`, with an empty `TaskSets` `StartUnbound`.

### YcsbLog, TpccAggregate and ResultsUpload: from logs to the table of results

`YcsbLog` is the parser of the log: `ParseJava`, `ParseCockroach` and `ParseGo` are the
three `parse` functions, a function of the parser's state and a line; the script,
parallel-ssh and YCSB write the lines (external).  Lists that the code shares by
reference are shared in the model (`lists`, `per`); `Put` is an assignment to an item of a
dictionary.  `log` is a history of the workloads: the results of the hosts that ended with
SUCCESS (`good`), and whether more figures were printed than those (`dirty`).
`TpccAggregate` is the
`Aggregator`: logs in the order of the directory (`ReadLog`, `SumUp`), raw results
(`ReadRaw`), histograms and their percentiles (`Report`).  Histograms are functions of the
number of the bucket.  `ResultsUpload` composes both
with the table: `Connect`, `ConnectFails`, `DropTable`, `CreateTable`, `SchemeFails`,
`InsertRow`, `InsertFails`, `InsertKind`, `KindsFail`.  A call that fails may have
taken effect, and is made again or raises; a failed program may be run again.  A call of
`debug latency` reads the clock when it begins, so that one that is made again stores its
kinds under another key: what is left of the first stays in the table.  A scheme error
of `DROP TABLE` is passed over and the table stays.  Of the figures of `debug latency`
only the kind is kept: they are fields of one row.

### RingLayout

The arithmetic of the generated YDB configuration.  It has no state and no run;
`ClusterControl_proofs` proves about it.

### GrpcPingServer

An object is in one hand at a time: gRPC (`obj[o].op`), the queue, or a worker.  The
steps of a worker are cut where another thread can come in between: after the event
is taken, after the next object was constructed, before the operation is given to
gRPC.  Addresses are not reused, so that a deleted object is recognised.  The
construction of the first objects by `Run` (lines 60-73) is the initial state: no call is
accepted before a server has an object to accept it.  `Shutdown` is left out: `Run` never
returns.

## 4. Runs

| Run | Bounds | Shows |
|---|---|---|
| `tracker` | 2 sessions, streams, ids, addresses; 8 messages; times 1 and 2, in any order | all tracker properties, whatever was captured |
| `capture_complete` | 2 sessions, 3 transactions, 6 streams, nothing lost, no filter | refinement of the ledger; the stream map is exact |
| `capture_damaged` | 2 sessions, 3 transactions, 4 streams, everything lost or late, filter | reported once and only after an answer; lost messages alone never stop it |
| `capture_replaced` | as above without filter or reordering | **violated**: a waiting transaction is replaced, its pointer dangles |
| `tpcc_run` | 3 warehouses on 2 hosts, 2 invocations, 5 combinations of flags | load, results and processes of invocations do not mix; each ends if the index builds do |
| `index_build` | 2 indices, 2 earlier operations, 3 CLI calls | success means that builds which were not late are done; the polling ends |
| `index_late` | the same | **violated**: "Indices are ready" while one has not begun |
| `grpc_ping` | 2 workers, 1 object of each kind, 2 calls, 2 messages, drops | ownership, acceptors, answers, liveness |
| `cluster` | 2 hosts, one of them a proxy, 2 disks, 3 cores, 2 series of commands, 2 faults, one turn before terminate and one before kill | commands that succeed did their work, cores are shared out, no command hangs |
| `tables` | 3 tables, 1 warehouse in 2 batches, 2 commands, 3 faults, 2 tries | a command that ends with 0 did its work; settings are put back; polling ends |
| `results` | 2 workloads on 2 hosts, or 2 instances, or 2 kinds; host counts 2 and 10; 2 faults | totals and percentiles are exact; rows of ycsb and tpcc are not doubled or mixed, those of latency are the last kind of each call |
| `ycsb_go` | the same | **violated**: the parser of go-ycsb reads the first host only |

Why the bounds are enough.  Eight messages are two whole transactions (begin, answer,
commit, answer), or one with every kind of damage before it, on two addresses, so an
address is reused while a stale pointer to it is left.  Six streams are three
transactions of two requests, one of them after the other two in a session.  Two
invocations are enough for what one leaves to the next; three warehouses on two hosts
give an uneven partition.  Three CLI calls tell the last from the others.  Two workers
and two calls put two threads behind one object.

Two time stamps in any order are enough for time to stand, pass and step back.

Two disks tell the last from the others, which the exit status knows nothing of; three
cores on two instances leave a remainder; two series let a stray of the first meet the
second, and two faults let one disk fail while another job is given up.  In `tables` the
order lines and the stock are checked in other ways than the rest, so three tables are
one of each kind; two batches tell a warehouse that is loaded in part; two commands are
an interrupted one and one that meets what it left behind (create and import begin with a
drop of their own); two tries tell a failure from failing for good, and three faults are an
interrupt and a helper that gives up.  In `results` two hosts tell sum,
maximum and minimum apart, two workloads what one leaves to the next, and the counts 2
and 10 are one the header's expression matches and one it does not; the limits of the
buckets are 2, 4 and 8, below, on and above which there are samples.

No run checks for deadlock: the analyser, the scripts and the helpers end, and the
bounds stop the rest.

Fairness.  `TpccRun`: the script goes on when it can, and remote processes make
progress or fail; a command in the foreground ends, and YDB ends its index builds, well or
not, for `wait-index` polls as long as one is in progress.  Nothing is assumed of the
user or of signals.  `IndexBuild`: the helper runs, YDB deals with every request and
finishes every build.
`GrpcPingServer`: threads run and gRPC completes operations; clients may do nothing.
`ClusterControl`: control.py runs, which includes the loop of a job with its two
time-outs; a host need not answer, until the bound on faults is used up, when it is
taken to answer (`Answer`).  `TpccTables`: the helper runs (Helper), and YDB carries on
with operations (`OpStep`) and requests (`AlterStep`): an operation ends or is
cancelled, for the code polls as long as it is neither.  The tracker and the results
have safety properties only: a log may end anywhere.

## 5. Findings

1. `start_transaction` (`client.cpp:557`) replaces a transaction that may still wait
   for a response; the comment above it denies that.  The pointer left in
   `TransactionsByStream` dangles (`ReplacedIsIdle`).
2. "Indices are ready" (`tpcc_helper.py:819`) is printed although an index is not built,
   if its request had not started after the one second that `AsyncCreateIndices` waits
   (line 722) and is in no list that `wait-index` reads (`ReadyMeansAllBuilt`).
3. After the first "Run finished" of a go-ycsb log, `parse_go`
   (`multinode_aggegate_result.py:336`) skips every header, host and done line, so that only
   the first host of the first workload is read (`GoTotalsExact`).

Known divergences.  The following were met while modelling.  No run checks them; the
models follow the code, and properties are stated so that they hold of it.

- With the filter, a NewOrder that was aborted after its first query takes over the id
  and the requests of the next transaction of the session (`client.cpp:600`); a
  refused commit is counted among the "transactions committed" (`client.cpp:664`).
- `cleanup` of `run_ydb.sh:75` removes the list of hosts and then gives it to
  `parallel-ssh`, so that nothing is killed; the exit code of `wait-index` is not looked
  at (`run_ydb.sh:610`), and neither is that of the `scp` of the results (line 714): a
  client whose copy fails is left out of the aggregate.
- When time stamps step back, `finish_request` clamps each latency at 0 (`client.cpp:277`)
  but nobody clamps the total, and `get_client_time` (line 329) reports a client time near
  2^64 us.  `FinishedConsistent` says that it happens in no other case.
- The kinds of one run of `debug latency` are stored under one time stamp, which is the
  primary key (`wrapper.py:108`): the last one is left (`LatencyRows`), where the comment at
  line 5 says "For each `debug latency` kind we store".
- A call of `debug latency` that reached YDB and then failed is made again under a new
  time (`wrapper.py:108`, line 280): its results may be in the table twice.
- `validate` of PostgreSQL passes a stock that is loaded in part, if each warehouse has
  some (`tpcc_postgres_helper.py:174`).
- `validate` of YDB prints what it finds and exits with 0; the check of the order lines
  looks at one district and at whether there are any; `validate_stock` reads
  `/Root/db1/stock` whatever the database is (`tpcc_helper.py:1171`).
- The results of `sorted` are dropped (`tpcc_helper.py:1332`), so the "delta between
  earliest and latest" is that between the last and the first of the directory.
- A percentile in the first bucket is the text `<` and a limit, which
  `insert_tpcc_results.py:103` puts into SQL as it is: the row can never be inserted.
- The header expression of YCSB (`multinode_aggegate_result.py:116`) matches counts of
  the digits 1 to 9 only: the hosts of a run of 10 go to the list of the workload before,
  whose totals have been made by then; the output of a failed host is read as that of
  the last successful one.  `TotalsExact` leaves such logs out.
- A failed `postload` leaves `maintenance_work_mem` raised, and the next takes the raised
  value for the configured one (`tpcc_postgres_helper.py:369`).
- `yugabyte/setup.sh:62` and the two checks after it test for an exit code that
  `control.py` gives only with `--fail-on-error`.
- With one tserver per host and an empty `TaskSets` the start of YugabyteDB raises, for
  `task_set` is unbound (`yugabyte/control.py:239`).
- With more disks than cores CockroachDB gets ranges beyond the last core.
- Ring nodes and data centers agree for nine hosts only (`generate_ydb_configs.py:67`
  against line 52; theorem `OnlyNineHostsMatch`).
- A stream of the ping server whose Finish fails is never freed
  (`grpc_ping_server.cpp:179`).

## 6. Proofs

A theorem holds for every value of the constants: any numbers of sessions, hosts,
workers, warehouses, tables, samples, faults and retries.  Every invariant and action
property of the passing runs is a theorem, and so are both refinements; eight modules
hold the proofs.  Each proof goes the same way: an
inductive invariant, one lemma per action or per kind of step, and a temporal
conclusion by PTL.

| Module | Proves | Assumes, besides the types of the constants |
|---|---|---|
| `TxCapture_proofs` | of the tracker `TypeOK`, `SingleOwner`, `OpenConsistent`, `FinishedConsistent`, `FinishedImmutable`, `AccountedFor`; `FailsOnlyOutOfOrder`, `ReportedOnce`; `PointersExact` and `ImplementsLedger` of a complete capture (`Complete`) | the markers for "none" and "freed" are no proper values (`TrackerAssumption`, `FreedAssumption`); `CaptureAssumption`: streams are numbered |
| `TpccRun_proofs` | `TypeOK`, `LoadedOnce`, `NoLoadDuringRun`, `AggregatesOwnResults`; the partition of the warehouses | `RunAssumption`: the assertion of `HostConfig` holds of the last client |
| `IndexBuild_proofs` | `TypeOK`, `ReadyMeansBuilt` | `EarlierAssumption`: the earlier operations are others |
| `GrpcPingServer_proofs` | `TypeOK`, `OneHolder`, `AcceptorsKept` | finitely many workers |
| `ClusterControl_proofs` | `TypeOK`, `CoresShared` (`CoresDisjoint` and `CoresComplete`), `StopMeansDown`, `StartMeansStarted`, `LastDiskMounted`, the refinement of `CoreLayout`; the rings of `RingLayout` | `ClusterAssumption`: a host, proxies among the hosts, and disks a multiple of the instances, which `yugabyte/control.py:70` demands |
| `TpccTables_proofs` | `TypeOK`, `ImportLoads`, `ExitMeansDone`, `ValidateSound`, `MemRestored`; the split keys | `TablesAssumption`: the lists of tables name all of them, order lines and stock are two; `SplitAssumption` |
| `TpccAggregate_proofs` | the percentile of a histogram is that of its samples; the steps of the sums behind `AggregateExact` | `EdgesAssumption`: the limits of the buckets ascend; `DataAssumption`: numbers of the logs are numbers; `AggregateAssumption`: finitely many instances, percentiles from 1 to 100 |
| `ResultsUpload_proofs` | `TypeOK`, `RowsExact`, `LatencyRows`, `AggregateExact`, `TotalsExact` | `YcsbAssumption`: finitely many hosts, names are not empty, time and latency of a run of YCSB are not 0; `UploadAssumption`: kinds are printed once each |

### The inductive invariants

*Tracker.*  No property is inductive alone: that the finished transaction is the one
moved needs that a live object is owned by its own session, and that its books are
closed needs that those of open ones fit before the present, unless time went back over
them (`stepped`).  `Inv` is `TypeOK`,
`SingleOwner`, `OpenConsistent` and `FinishedConsistent`; each kind of step (nothing
changes, an owner is erased, an object is updated, begun, committed) has a lemma.
`AccountedFor` counts the set `Messages` of what all objects have seen: a step adds
one element and counts one, or takes elements away, and a begin that replaces a
transaction loses an element for the one it counts as aborted (`Tally`).

*Capture.*  `GInv` says what an object of the analyser knows of its session: each
session runs one transaction, streams are used once, the transactions in an object
have ended but for the one its session still runs, and no transaction is in two
objects (`Membership`); the request in progress in an object is its session's or was
given up (`InProgressOf`); and unless a response came late, a pointer found by the
stream on which a session waits is that of the session's own object
(`PointersOfWaiting`).  With a complete capture `CInv` adds that nothing is late, the
pointers are exact and object and session are in step (`InStep`); every step is then
one of `TxLedger` or a stutter.

*Run script.*  `OnlyWaitedForAlive`: after `kill_tpcc` only the processes are alive
that the present phase waits for.  `OneProcess`: each client has at most one of a
kind.  `Loading` and `OwnResults` relate the rows and results to the processes that
are still at work; that no warehouse is loaded twice rests on `RangesDisjoint`, that
all are on `RangesCover`.

*Partition and split keys.*  Arithmetic, for every W and n: ranges of warehouses are
disjoint, complete and within 1..W, and the assertion of `HostConfig` for the last
client decides for all, which is why it is enough that `generate-configs` meets it
once (`LastHostDecides`).  The keys of `get_split_keys` lie strictly inside the ids
and ascend (`ShardsNotEmpty`), shards are as large as intended (`ShardsBounded`), a
table without a limit gets the minimum number of them (`SmallTablesKeepMinimum`), and
the number set for a table is enough (`ShardCountSuffices`).  `MCTpccTables` checks
the operators of `SplitKeys` against the loop of the code.

*Index build.*  `AllListed`: from the first poll on every index whose request was not
`late` has an operation in YDB, by its answer or because it was listed when the helper
looked.
`ListIsPast`: what a list that the helper holds says is done, is done.  Nothing of the
kind holds of late requests: `ReadyMeansAllBuilt` is violated (section 5).

*Ping server.*  `Hands`: an object is with gRPC, in the queue or in the hands of one
worker, in one place only, and none of them has a deleted one; `Protocol`: the status
of an object names the operation that was given to gRPC, so that `Proceed` takes each
answer for what it is; `Counts`: messages are sent, read and answered in this order.
`AcceptorsKept` is inductive with these.

*Cluster control.*  `LayoutInv` has the ranges in order below the next core
(`Ordered`) and the next core and the remainder account for the instances served
(`Accounted`). `ImplementsLayout` carries the result to the whole program.  `JobInv`
says that only the running job has requests under way that are not strays; `PlanInv`
where a series of commands stands; `StopInv`, `SeriesInv` and `StartInv` what each
command has done so far on every host, or has under way there.  That YugabyteDB's start
has started a server, although its wrapper ends with 0 in any case, rests on the series:
it is called after a stop and a deploy that went through on every host, so that the
release is there and the port free.  The invariants speak of a
program that was called with `--fail-on-error` and of hosts on which no stray request
took effect, as the three properties do.

*Rings.*  The nine ring nodes are distinct nodes (`RingNodesDistinct`), every node is
in one fail domain of the static group (`FailDomainsPartition`), the pool fits on the
disks (`PoolFits`), and zones are the data centers for nine hosts only
(`OnlyNineHostsMatch`).

*Tables.*  `CourseInv` has the phases of each command, `OpsInv` that an operation that
is done has nothing left to do and works on tables that exist; `ImportInv`,
`CreateInv`, `EnableInv`, `PostloadInv`, `MemInv` and `ValidateInv` say for each
command what holds in each of its phases.  The heart of `CreateInv` is `Fresh`: a
table that create has made is not one that an import left behind still fills, since
such a table would be busy.

*Upload.*  `InputOK` says that what is read (log, output of the hosts, parser,
aggregator) is well formed, `JobOK` where the program stands, `TableOK` that the row
of an earlier run is still there where the table was not dropped, and `WrittenOK` that
each other row is that of a result, under its key, and that what is not left to insert
is in the table: a call that failed after it took effect is made again and changes
nothing.  For `debug latency` it says that every other row is that of some kind, and, once
nothing is left to insert, that the row under the time of the present call is that of the
last kind.

*Sums.*  The totals and histograms are folds.  The induction theorems of the library
cannot be instantiated, but its facts about well-founded relations can: a set of numbers,
or of subsets of a finite set, has a smallest member (`SmallestNumber`, `SmallestSet`).
Applied to the counterexamples, this shows that the recursion of a fold is well defined
(`FoldExists`), that a sum over a finite set is the sum without an element plus that
element, and then what the sums of the models need: two sums that agree element by element
are equal, a sum over a sequence grows by the appended item, a sum does not depend on the
order.

*Aggregator.*  `TotalsOK` says of each phase what was added so far: in the first loop the
results are those of the logs read, each once (`ReadOnce`), in the second the statistics
and the histograms are those of the first `read` instances (`Counted`).  A histogram counts
the samples of its buckets (`PercentileExact` is the step from there to percentiles: the
bucket in which a percentage is reached is that of the sample at which it is), and
merging histograms counts those of all instances.  The result holds for any order of the
directory, because each instance is in it once.

*YCSB.*  `TotalsInv` relates the parser to the history of the log, line by line.  `OpenOK`:
in the run that the parser is in, its list has exactly the results of the hosts that
reported, except the last one (`SomeHeard`), of which as many figures have been read as
lines were printed (`FiguresRead`, `Rest`).  `KeptOK`: of each run that it has left, the
totals are under the second of its header, with the run's own list, to which nothing is
added later.  `RunsOK`, `ScriptOK` and `PrintedOK` are what this rests on: runs with
results begin at different seconds, a host reports once, lines are printed in order.
`BoundOK` says that no other results are there.  It takes in dirty runs and headers that
are not matched, for these must not harm the other runs; of them nothing else is claimed.
`YcsbInv` carries it to `ResultsUpload`, where the other programs leave the log alone.

### Only model-checked

- Liveness under fairness: `Terminates`, `Ends`, `PingAnswered`, `ClosedFreed`,
  `CommandsEnd`, `HelperEnds`.
- The operators of `SplitKeys` against the recursive loop in `MCTpccTables`.
- The three properties of section 5, which are violated.

## 7. Mutants

Next to a definition stand its mutants, plausible mistakes in the code it models (a
pointer not erased, a remainder not counted down, a failed call taken for a done one);
each property of a passing run is violated when one of them takes the place of the
definition.  `PROJECT.json` lists the pairs.

## 8. Not modelled

- Packet parsing of the analyser: Ethernet, IP, TCP, HTTP/2 framing and the guessing of
  protobuf types.  A message of the model is what the parser recognised.
- `table_full_compact.py`: one poll of a web page per tablet, whose meaning depends on
  the viewer of YDB; it takes a compaction that has not begun yet for one that is done.
- The gRPC ping client and `Select1Benchmark.java`: workers that call and time; of the
  client's calls the server model has the messages.
- Disk and stress scripts with their plots and tables, host setup, installation of
  packages, generation of Prometheus targets, flame graphs: command lines and formatting.
- `run_postgres.sh`, `run_oracle.sh`, `tpcc.sh` and `run_yugabytedb.sh`: the phases of
  `run_ydb.sh` in the foreground, without the partition over hosts.
- Of what is modelled: DDL and SQL texts, `Return*` commands of control.py (they print),
  `get_output` (nothing calls it), the HAProxy of CockroachDB's `setup.sh`, a `Popen` that
  fails, and hosts files in which lines of spaces or words are counted in three ways.
