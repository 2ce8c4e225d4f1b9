---------------------------- MODULE ResultsUpload ----------------------------
(* The three programs that put results of benchmarks into a table of YDB:         *)
(*   ycsb     multinode_aggegate_result.py, after it has parsed the log           *)
(*   tpcc     insert_tpcc_results.py, from the file that the aggregator wrote     *)
(*   latency  debug_latency/wrapper.py, from what `ydb debug latency` printed     *)
(* Each call of the database is made by SessionPool.retry_operation_sync, which   *)
(* calls the function again when an error may go away.  A program that failed may *)
(* be run again.  What ycsb and tpcc read has not changed then; latency measures   *)
(* again, and the figures of its rows are left out.                               *)
EXTENDS YcsbLog, TpccAggregate

CONSTANTS
    AllKinds,   \* kinds of `ydb debug latency`, in the order in which it prints them
    MaxFaults   \* bound: calls of the database that fail

ASSUME UploadAssumption ==
    /\ AllKinds \in Seq(Range(AllKinds)) /\ MaxFaults \in Nat
    /\ \A i, j \in DOMAIN AllKinds : AllKinds[i] = AllKinds[j] => i = j

VARIABLES
    program,  \* "ycsb", "tpcc" or "latency"
    drop,     \* option --drop of tpcc and latency
    kinds,    \* latency: the kinds with a result for inflight 1
    table,    \* [exists, rows]: the rows by primary key
    job,      \* [phase, left]: the run of the program, what is to be inserted yet
    clock,    \* seconds: what latency read in the call that is made
    before,   \* history: the table before the program was first run
    faults

uploadVars == <<program, drop, kinds, table, job, clock, before, faults>>
allVars == <<ycsbVars, aggVars, uploadVars>>

\* A row of an earlier benchmark.
OldKey == 0
OldRow == [old |-> TRUE]
Absent == [exists |-> FALSE, rows |-> <<>>]

-----------------------------------------------------------------------------
(* The rows.                                                                   *)

\* dump_workloads_ydb: thousands of operations per second, rounded down after adding up.
YcsbRow(total) ==
    [workload |-> total.workload, count |-> total.count, rpsK |-> total.thr \div 1000,
     errors |-> total.errors, latency |-> total.latency,
     minTime |-> total.minTime, maxTime |-> total.maxTime]

\* The columns of insert_tpcc_results.py that differ between two runs.
TpccRow ==
    [warehouses |-> agg.total.warehouses, tpmc |-> agg.total.tpmc,
     latency90 |-> agg.report["NewOrder"][90]]

\* What is to be inserted: key and row.
Rows ==
    CASE program = "ycsb" ->
            [i \in DOMAIN parser.results |-> YcsbRow(parser.results[i])]
      [] program = "tpcc" -> [start \in {agg.total.start} |-> TpccRow]
      [] program = "latency" -> <<>>

\* The row cannot be made (KeyError), or its text is not SQL ("<" and a limit).
RowFails ==
    /\ program = "tpcc"
    /\ "NewOrder" \in DOMAIN agg.report => agg.report["NewOrder"][90] = Below

\* What the program reads is there.
InputReady ==
    CASE program = "ycsb" -> stage = "parsed"
      [] program = "tpcc" -> agg.phase = "reported"
      [] program = "latency" -> TRUE

-----------------------------------------------------------------------------
Goto(phase, left) == job' = [phase |-> phase, left |-> left]

Fault == faults < MaxFaults /\ faults' = faults + 1

\* What the program keeps; the calls change table, job and clock.
Same == UNCHANGED <<ycsbVars, aggVars, program, drop, kinds, before>>

\* The program begins, or is run again after a failure.  ycsb leaves when there is no
\* result.
Connect ==
    /\ job.phase \in {"idle", "failed"} /\ InputReady
    /\ Goto(CASE program = "ycsb" /\ parser.results = <<>> -> "done"
              [] drop -> "drop"
              [] OTHER -> "create", {})
    /\ Same /\ UNCHANGED <<table, clock, faults>>

\* No token, or no connection in time: exit 1.
ConnectFails ==
    /\ job.phase \in {"idle", "failed"} /\ InputReady
    /\ Goto("failed", {}) /\ Fault
    /\ Same /\ UNCHANGED <<table, clock>>

\* drop: a table that is not there is no error.  Nor is any other error of the scheme,
\* after which the table is still there.
DropTable ==
    /\ job.phase = "drop" /\ Goto("create", {})
    /\ \/ table' = Absent /\ UNCHANGED faults
       \/ UNCHANGED table /\ Fault
    /\ Same /\ UNCHANGED clock

\* Mutant: every error of the scheme call is passed over.
CreateTableQuietly ==
    /\ job.phase = "create"
    /\ table' \in {table, [table EXCEPT !.exists = TRUE]}
    /\ Goto("insert", IF program = "latency" THEN kinds ELSE
                      IF program = "tpcc" THEN {agg.total.start} ELSE DOMAIN Rows)
    /\ Same /\ UNCHANGED <<clock, faults>>

\* create_table, create_ydb_results_table: a table that is there is no error.
CreateTable ==
    /\ job.phase = "create"
    /\ table' = [table EXCEPT !.exists = TRUE]
    /\ Goto("insert", IF program = "latency" THEN kinds ELSE
                      IF program = "tpcc" THEN {agg.total.start} ELSE DOMAIN Rows)
    /\ Same /\ UNCHANGED <<clock, faults>>

\* A scheme call fails, with or without effect: it is repeated, or raises.
SchemeFails ==
    /\ job.phase \in {"drop", "create"}
    /\ job' \in {job, [phase |-> "failed", left |-> {}]}
    /\ table' \in {table, IF job.phase = "drop" THEN Absent
                                             ELSE [table EXCEPT !.exists = TRUE]}
    /\ Fault
    /\ Same /\ UNCHANGED clock

Upsert(key, row) == table' = [table EXCEPT !.rows = Put(@, key, row)]

\* insert_ydb_results_row of ycsb and tpcc: a call for each row, in increasing order.
NextKey == Min(job.left)

InsertRow ==
    /\ job.phase = "insert" /\ program # "latency" /\ job.left # {}
    /\ ~RowFails
    /\ Upsert(NextKey, Rows[NextKey])
    /\ job' = [job EXCEPT !.left = @ \ {NextKey}]
    /\ Same /\ UNCHANGED <<clock, faults>>

\* Mutant: a failed call is taken for one that wrote its row.
InsertFailsOnce(applied) ==
    /\ job.phase = "insert" /\ program # "latency" /\ job.left # {}
    /\ ~RowFails /\ Fault
    /\ IF applied THEN Upsert(NextKey, Rows[NextKey]) ELSE UNCHANGED table
    /\ job' = [job EXCEPT !.left = @ \ {NextKey}]
    /\ Same /\ UNCHANGED clock

\* The call fails; the row may have been written all the same.  It is made again, or
\* raises.
InsertFails(applied) ==
    /\ job.phase = "insert" /\ program # "latency" /\ job.left # {}
    /\ ~RowFails /\ Fault
    /\ IF applied THEN Upsert(NextKey, Rows[NextKey]) ELSE UNCHANGED table
    /\ job' \in {job, [phase |-> "failed", left |-> {}]}
    /\ Same /\ UNCHANGED clock

\* No row to insert: the program fails each time it is run.
RowCannotBeMade ==
    /\ job.phase = "insert" /\ job.left # {} /\ RowFails
    /\ Goto("raised", {})
    /\ Same /\ UNCHANGED <<table, clock, faults>>

\* insert_ydb_results_row of latency is one call for all kinds: it reads the clock
\* once, and inserts and commits the kinds one after the other, in the order in which
\* they were printed.
NotAfter(kind, other) ==
    \E i, j \in DOMAIN AllKinds : i <= j /\ AllKinds[i] = kind /\ AllKinds[j] = other

FirstKind(some) == CHOOSE kind \in some : \A other \in some : NotAfter(kind, other)

InsertKind ==
    /\ job.phase = "insert" /\ program = "latency" /\ job.left # {}
    /\ Upsert(clock, [kind |-> FirstKind(job.left)])
    /\ job' = [job EXCEPT !.left = @ \ {FirstKind(job.left)}]
    /\ Same /\ UNCHANGED <<clock, faults>>

\* Mutant: a failed call is taken for one that inserted the kinds.
KindsFailOnce(applied) ==
    /\ job.phase = "insert" /\ program = "latency" /\ job.left # {} /\ Fault
    /\ job' = [job EXCEPT !.left = {}]
    /\ Same /\ UNCHANGED <<table, clock>>

\* A kind fails; its row may have been written all the same, under the time that this
\* call has read.  The call begins again with all kinds, and perhaps later, or raises.
KindsFail(applied) ==
    /\ job.phase = "insert" /\ program = "latency" /\ job.left # {} /\ Fault
    /\ IF applied THEN Upsert(clock, [kind |-> FirstKind(job.left)]) ELSE UNCHANGED table
    /\ job' \in {[job EXCEPT !.left = kinds], [phase |-> "failed", left |-> {}]}
    /\ clock' \in {clock, clock + 1}
    /\ Same

Finish ==
    /\ job.phase = "insert" /\ job.left = {}
    /\ Goto("done", {})
    /\ Same /\ UNCHANGED <<table, clock, faults>>

-----------------------------------------------------------------------------
Init ==
    /\ YcsbInit /\ AggInit
    /\ \/ /\ program = "ycsb" /\ drop = FALSE /\ kinds = {}
          /\ format \in {"java", "cockroach", "go"}
          /\ dir = <<>>
       \/ /\ program = "tpcc" /\ drop \in BOOLEAN /\ kinds = {}
          /\ format = "none" /\ dir \in [Instances -> InstanceData]
       \/ /\ program = "latency" /\ drop \in BOOLEAN
          /\ kinds \in SUBSET Range(AllKinds)
          /\ format = "none" /\ dir = <<>>
    /\ table \in {Absent, [exists |-> TRUE, rows |-> [key \in {OldKey} |-> OldRow]]}
    /\ before = table
    /\ job = [phase |-> "idle", left |-> {}]
    /\ clock = 1 /\ faults = 0

Next ==
    \/ program = "ycsb" /\ YcsbNext /\ UNCHANGED <<aggVars, uploadVars>>
    \/ program = "tpcc" /\ AggNext /\ UNCHANGED <<ycsbVars, uploadVars>>
    \/ Connect \/ ConnectFails \/ DropTable \/ CreateTable \/ SchemeFails
    \/ InsertRow \/ (\E applied \in BOOLEAN : InsertFails(applied)) \/ RowCannotBeMade
    \/ InsertKind \/ (\E applied \in BOOLEAN : KindsFail(applied)) \/ Finish

Spec == Init /\ [][Next]_allVars

-----------------------------------------------------------------------------
TypeOK ==
    /\ job.phase \in {"idle", "drop", "create", "insert", "done", "failed", "raised"}
    /\ job.left \subseteq (IF program = "latency" THEN kinds ELSE Nat)
    /\ job.phase = "insert" => table.exists
    /\ clock \in Nat /\ faults \in 0 .. MaxFaults
    /\ parser.per \in DOMAIN parser.lists
    /\ \A i \in DOMAIN parser.results : parser.results[i].per \in DOMAIN parser.lists

\* However often a call of ycsb or tpcc is repeated and the program is run again, a
\* program that ends well leaves one row for each result, with the figures of that
\* result, and no row of other figures is ever written.  What was in the table is kept
\* by all three, unless --drop was given.
RowsExact ==
    /\ program # "latency" =>
          \A key \in DOMAIN table.rows \ {OldKey} :
              key \in DOMAIN Rows /\ table.rows[key] = Rows[key]
    /\ job.phase = "done" /\ program # "latency" /\ Rows # <<>> =>
          DOMAIN Rows \subseteq DOMAIN table.rows
    /\ before.exists /\ ~drop => OldKey \in DOMAIN table.rows

LastKind(some) == CHOOSE kind \in some : \A other \in some : NotAfter(other, kind)

\* latency, whose key is the time that each call reads: the call that succeeded leaves
\* one row under its time, that of the kind printed last, and every other row is what
\* is left of a call that failed or of an earlier run, the same kind a second time
\* perhaps.  (The comment at the head of wrapper.py, "For each `debug latency` kind we
\* store", holds of one kind only; and nothing keeps a result from being stored once
\* for every call.)
LatencyRows ==
    program = "latency" =>
      /\ \A key \in DOMAIN table.rows \ {OldKey} :
             \E kind \in kinds : table.rows[key] = [kind |-> kind]
      /\ job.phase = "done" /\ kinds # {} =>
             clock \in DOMAIN table.rows /\ table.rows[clock] = [kind |-> LastKind(kinds)]
=============================================================================
