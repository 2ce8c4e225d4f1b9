----------------------------- MODULE TpccTables -----------------------------
(* The commands of tpcc_helper.py (YDB) and tpcc_postgres_helper.py             *)
(* (PostgreSQL) that set up the tables of TPC-C: create, drop, import, export,   *)
(* enable-split-by-load, postload, vacuum-analyze and validate.  They run one    *)
(* after the other, and may be interrupted; the operations and requests they     *)
(* left behind in YDB, and the loaders of run_ydb.sh, go on meanwhile.           *)
EXTENDS Integers, Sequences, FiniteSets, Functions

CONSTANTS
    DropOrder,    \* TABLES
    CreateOrder,  \* the tables in the order of CreateTables.run
    OrderLine,    \* the table whose check looks at the district with the fewest orders
    Stock,        \* the table of which PostgreSQL counts the warehouses only
    Warehouses,
    Batches,      \* the batches in which the rows of a warehouse are loaded
    MaxTries,     \* range(10) in wait_ydb_operation_done
    MaxCalls,     \* bound: commands called
    MaxFaults     \* bound: calls of the database or of its CLI that fail

Tables == Range(DropOrder)
Parts == Warehouses \X Batches

ASSUME TablesAssumption ==
    /\ DropOrder \in Seq(Tables) /\ CreateOrder \in Seq(Tables)
    /\ Range(CreateOrder) = Tables /\ Len(CreateOrder) = Len(DropOrder)
    /\ OrderLine \in Tables /\ Stock \in Tables \ {OrderLine}
    /\ MaxTries \in Nat \ {0} /\ MaxCalls \in Nat /\ MaxFaults \in Nat

VARIABLES
    product,  \* "ydb" or "postgres"
    tables,   \* table -> [exists, rows, byLoad]
    indices,  \* PostgreSQL: the indices, 1 and 2, that exist
    mem,      \* PostgreSQL: maintenance_work_mem
    ops,      \* YDB: the import and export operations, [kind, todo, doing, progress, ready]
    alters,   \* YDB: [table, call]: requests of enable-split-by-load under way
    cmd,      \* [name, phase, step, tries, op, saved, bad, pending]: the command that
              \* runs; before is history: the setting of PostgreSQL when it was called
    last,     \* [name, exit, before, bad]: the command that has just ended
    calls,    \* commands called so far
    faults

dbVars == <<tables, indices, mem, ops, alters>>
vars == <<product, dbVars, cmd, last, calls, faults>>

Absent == [exists |-> FALSE, rows |-> {}, byLoad |-> FALSE]
Created == [Absent EXCEPT !.exists = TRUE]
NoOp == [kind |-> "none", todo |-> {}, doing |-> {}, progress |-> "none", ready |-> FALSE]
Idle == [name |-> "none", phase |-> "none", step |-> 1, tries |-> 0, op |-> 0,
         saved |-> "none", before |-> "none", bad |-> {}, pending |-> {}]
NoCommand == [name |-> "none", exit |-> 0, before |-> "none", bad |-> {}]

\* A table that an import operation fills can be neither dropped nor altered.
Busy(t) == \E i \in DOMAIN ops : t \in ops[i].doing

Init ==
    /\ product \in {"ydb", "postgres"}
    /\ tables = [t \in Tables |-> Absent]
    /\ indices = {} /\ mem = "configured"
    /\ ops = <<>> /\ alters = {}
    /\ cmd = Idle /\ last = NoCommand
    /\ calls = 0 /\ faults = 0

-----------------------------------------------------------------------------
(* The course of a command.                                                    *)

At(phase) == cmd.phase = phase

Fault == faults < MaxFaults /\ faults' = faults + 1

Goto(phase) == cmd' = [cmd EXCEPT !.phase = phase, !.step = 1]

\* The loop over n tables goes on, or is left.
Advance(n, phase) ==
    IF cmd.step < n THEN cmd' = [cmd EXCEPT !.step = @ + 1] ELSE Goto(phase)

End(code) ==
    /\ cmd' = Idle
    /\ last' = [name |-> cmd.name, exit |-> code, before |-> cmd.before, bad |-> cmd.bad]

\* sys.exit(1), or a traceback
Exit == End(1) /\ UNCHANGED <<product, calls>>

NoFault == UNCHANGED <<product, last, calls, faults>>

FirstPhase(name) ==
    IF product = "ydb"
    THEN CASE name \in {"drop", "create", "import"} -> "drop"
           [] name = "export"   -> "start"
           [] name = "enable"   -> "alter"
           [] name = "validate" -> "first"
    ELSE CASE name \in {"drop", "create"}     -> "ddl_drop"
           [] name \in {"postload", "vacuum"} -> "read"
           [] name = "validate"               -> "check"

CommandNames == IF product = "ydb"
                THEN {"drop", "create", "import", "export", "enable", "validate"}
                ELSE {"drop", "create", "postload", "vacuum", "validate"}

\* PostgreSQL has no check of the order lines.
Checks == IF product = "ydb" THEN Tables ELSE Tables \ {OrderLine}

Call ==
    /\ cmd = Idle /\ calls < MaxCalls
    /\ \E name \in CommandNames :
         cmd' = [Idle EXCEPT !.name = name, !.phase = FirstPhase(name),
                           !.before = mem, !.pending = Checks]
    /\ calls' = calls + 1 /\ last' = NoCommand
    /\ UNCHANGED <<product, dbVars, faults>>

Return ==
    /\ At("done")
    /\ End(0)
    /\ UNCHANGED <<product, dbVars, calls, faults>>

\* The operator interrupts the helper.
Interrupt ==
    /\ cmd # Idle /\ Fault /\ Exit
    /\ UNCHANGED dbVars

-----------------------------------------------------------------------------
(* YDB: DropTables, CreateTables.                                              *)

AfterDrop == CASE cmd.name = "drop"   -> "done"
               [] cmd.name = "create" -> "create"
               [] cmd.name = "import" -> "start"

\* NotFound and SchemeError are passed over, any other error ends the helper.  The
\* error for a busy table may be of either kind.
DropTable ==
    /\ At("drop")
    /\ LET t == DropOrder[cmd.step] IN
         \/ /\ ~Busy(t)
            /\ tables' = [tables EXCEPT ![t] = Absent]
            /\ Advance(Len(DropOrder), AfterDrop) /\ NoFault
         \/ /\ Busy(t) /\ UNCHANGED tables
            /\ Advance(Len(DropOrder), AfterDrop) /\ NoFault
         \/ /\ Busy(t) /\ UNCHANGED <<tables, faults>> /\ Exit
         \/ /\ Fault /\ UNCHANGED <<tables, product, last, calls>>
            /\ Advance(Len(DropOrder), AfterDrop)
         \/ /\ Fault /\ Exit
            /\ tables' \in {tables} \cup
                 IF Busy(t) THEN {} ELSE {[tables EXCEPT ![t] = Absent]}
    /\ UNCHANGED <<indices, mem, ops, alters>>

\* Mutant: a table that is there already is passed over.
CreateTableIfMissing ==
    /\ At("create")
    /\ tables' = [tables EXCEPT ![CreateOrder[cmd.step]].exists = TRUE]
    /\ Advance(Len(CreateOrder), "done") /\ NoFault
    /\ UNCHANGED <<indices, mem, ops, alters>>

\* A table that is there already is an error, like any other.
CreateTable ==
    /\ At("create")
    /\ LET t == CreateOrder[cmd.step]
           with == [tables EXCEPT ![t] = Created]
       IN  \/ /\ ~tables[t].exists /\ tables' = with
              /\ Advance(Len(CreateOrder), "done") /\ NoFault
           \/ /\ tables[t].exists /\ UNCHANGED <<tables, faults>> /\ Exit
           \/ /\ ~tables[t].exists /\ tables' \in {tables, with}
              /\ Fault /\ Exit
    /\ UNCHANGED <<indices, mem, ops, alters>>

-----------------------------------------------------------------------------
(* YDB: ImportInitialData, ExportInitialData, wait_ydb_operation_done.         *)

NewOp == [kind |-> cmd.name, todo |-> IF cmd.name = "import" THEN Tables ELSE {},
          doing |-> {}, progress |-> "running", ready |-> FALSE]

\* "ydb import s3" or "ydb export s3"; a failure may come after YDB has begun.
StartOp ==
    /\ At("start")
    /\ \/ /\ ops' = Append(ops, NewOp)
          /\ cmd' = [cmd EXCEPT !.phase = "poll", !.op = Len(ops) + 1] /\ NoFault
       \/ /\ ops' \in {ops, Append(ops, NewOp)}
          /\ Fault /\ Exit
    /\ UNCHANGED <<tables, indices, mem, alters>>

\* Mutants: no limit of the tries; an operation that goes on is taken for one that is
\* done; a cancelled one for one that goes on.
PollFailsForever ==
    /\ At("poll") /\ Fault
    /\ cmd' = [cmd EXCEPT !.tries = @ + 1] /\ UNCHANGED <<product, last, calls, dbVars>>
FinishedUnlessCancelled(op) == op.progress # "cancelled"
CancelledNever(op) == FALSE

\* "ydb operation get" failed, or was answered with another status.
PollFails ==
    /\ At("poll") /\ Fault
    /\ IF cmd.tries + 1 = MaxTries
       THEN Exit
       ELSE cmd' = [cmd EXCEPT !.tries = @ + 1] /\ UNCHANGED <<product, last, calls>>
    /\ UNCHANGED dbVars

Cancelled(op) == op.progress = "cancelled"
Finished(op) == op.progress = "done" /\ op.ready

PollSucceeds ==
    /\ At("poll")
    /\ LET op == ops[cmd.op] IN
         \/ Cancelled(op) /\ Exit
         \/ Finished(op) /\ Goto("forget") /\ UNCHANGED <<product, last, calls>>
         \/ /\ ~Cancelled(op) /\ ~Finished(op) /\ cmd.tries > 0
            /\ cmd' = [cmd EXCEPT !.tries = 0]
            /\ UNCHANGED <<product, last, calls>>
    /\ UNCHANGED <<dbVars, faults>>

\* An error is reported and skipped.
ForgetOp ==
    /\ At("forget") /\ Goto("done")
    /\ \/ ops' = [ops EXCEPT ![cmd.op] = NoOp] /\ UNCHANGED faults
       \/ UNCHANGED ops /\ Fault
    /\ UNCHANGED <<product, tables, indices, mem, alters, last, calls>>

\* What YDB does with an operation: it makes a table and fills it, or finds that the
\* table is there and cancels the rest.
OpCreatesTable(i) ==
    /\ ops[i].progress = "running"
    /\ \E t \in ops[i].todo \ ops[i].doing :
         IF tables[t].exists
         THEN /\ ops' = [ops EXCEPT ![i].progress = "cancelled", ![i].doing = {}]
              /\ UNCHANGED tables
         ELSE /\ ops' = [ops EXCEPT ![i].doing = @ \cup {t}]
              /\ tables' = [tables EXCEPT ![t] = Created]

OpFillsTable(i) ==
    /\ ops[i].progress = "running"
    /\ \E t \in ops[i].doing :
         /\ tables' = [tables EXCEPT ![t].rows = Parts]
         /\ ops' = [ops EXCEPT ![i].doing = @ \ {t}, ![i].todo = @ \ {t}]

OpEnds(i) ==
    /\ ops[i].todo = {}
    /\ \/ /\ ops[i].progress = "running"
          /\ ops' = [ops EXCEPT ![i].progress = "done"]
       \/ /\ ops[i].progress = "done" /\ ~ops[i].ready
          /\ ops' = [ops EXCEPT ![i].ready = TRUE]
    /\ UNCHANGED tables

OpStep ==
    /\ \E i \in DOMAIN ops : OpCreatesTable(i) \/ OpFillsTable(i) \/ OpEnds(i)
    /\ UNCHANGED <<product, indices, mem, alters, cmd, last, calls, faults>>

OpIsCancelled ==
    /\ Fault
    /\ \E i \in DOMAIN ops :
         /\ ops[i].progress = "running"
         /\ ops' = [ops EXCEPT ![i].progress = "cancelled", ![i].doing = {}]
    /\ UNCHANGED <<product, tables, indices, mem, alters, cmd, last, calls>>

-----------------------------------------------------------------------------
(* YDB: EnableSplitByLoad.                                                     *)

SendAlter ==
    /\ At("alter")
    /\ \/ /\ alters' = alters \cup {[table |-> DropOrder[cmd.step], call |-> calls]}
          /\ Advance(Len(DropOrder), "wait") /\ NoFault
       \/ UNCHANGED alters /\ Fault /\ Exit
    /\ UNCHANGED <<tables, indices, mem, ops>>

\* YDB answers; the future of a helper that is gone is gone with it.
Answered(r, ok) ==
    /\ alters' = alters \ {r}
    /\ cmd' = IF ~ok /\ cmd.name = "enable" /\ r.call = calls
              THEN [cmd EXCEPT !.bad = @ \cup {r.table}] ELSE cmd

Alter(r) ==
    /\ \/ /\ tables[r.table].exists /\ ~Busy(r.table)
          /\ tables' = [tables EXCEPT ![r.table].byLoad = TRUE]
          /\ Answered(r, TRUE) /\ UNCHANGED faults
       \/ /\ ~tables[r.table].exists \/ Busy(r.table)
          /\ Answered(r, FALSE) /\ UNCHANGED <<tables, faults>>
       \/ /\ Fault /\ Answered(r, FALSE) /\ UNCHANGED tables
    /\ UNCHANGED <<product, indices, mem, ops, last, calls>>

\* concurrent.futures.wait, then the result of every future
WaitAlters ==
    /\ At("wait") /\ \A r \in alters : r.call # calls
    /\ IF cmd.bad = {} THEN Goto("done") /\ UNCHANGED <<product, last, calls>> ELSE Exit
    /\ UNCHANGED <<dbVars, faults>>

-----------------------------------------------------------------------------
(* PostgreSQL: drop, create, postload, vacuum-analyze.                         *)

\* A script of several statements is one transaction.
Script(phase, new, next) ==
    /\ At(phase)
    /\ \/ tables' = new /\ indices' = {} /\ Goto(next) /\ NoFault
       \/ /\ Fault /\ Exit
          /\ \/ tables' = new /\ indices' = {}
             \/ UNCHANGED <<tables, indices>>
    /\ UNCHANGED <<mem, ops, alters>>

DropAll == Script("ddl_drop", [t \in Tables |-> Absent],
                  IF cmd.name = "create" THEN "ddl_create" ELSE "done")

CreateAll == Script("ddl_create", [t \in Tables |-> Created], "done")

Work == IF cmd.name = "postload" THEN "index" ELSE "vacuum"

\* current_work_mem, which is read and changed only with --max-work-mem
ReadMem ==
    /\ At("read")
    /\ \/ cmd' = [cmd EXCEPT !.phase = "set", !.saved = mem] /\ NoFault
       \/ Goto(Work) /\ NoFault
       \/ Fault /\ Exit
    /\ UNCHANGED dbVars

SetMem(phase, value, next) ==
    /\ At(phase)
    /\ \/ mem' = value /\ Goto(next) /\ NoFault
       \/ Fault /\ Exit /\ mem' \in {mem, value}
    /\ UNCHANGED <<tables, indices, ops, alters>>

RaiseMem == SetMem("set", "raised", Work)

\* Mutant: the setting that is restored is the raised one.
RestoreMemRaised == cmd.saved # "none" /\ SetMem("restore", "raised", "done")

RestoreMem == cmd.saved # "none" /\ SetMem("restore", cmd.saved, "done")

\* Nothing was read, and nothing is restored.
KeepMem ==
    /\ At("restore") /\ cmd.saved = "none"
    /\ Goto("done") /\ NoFault
    /\ UNCHANGED dbVars

\* execute_sql_async: the executor is left only when the statement has ended.
CreateIndex ==
    /\ At("index") /\ cmd.step <= 2
    /\ \/ /\ tables[CreateOrder[1]].exists /\ cmd.step \notin indices
          /\ indices' = indices \cup {cmd.step}
          /\ cmd' = [cmd EXCEPT !.step = @ + 1] /\ UNCHANGED faults
       \/ /\ cmd' = [cmd EXCEPT !.step = @ + 1, !.bad = @ \cup {cmd.step}]
          /\ UNCHANGED indices
          /\ IF tables[CreateOrder[1]].exists /\ cmd.step \notin indices
             THEN Fault ELSE UNCHANGED faults
    /\ UNCHANGED <<product, tables, mem, ops, alters, last, calls>>

\* An index that failed ends the helper, before it restores the setting.
CheckIndices ==
    /\ At("index") /\ cmd.step = 3
    /\ IF cmd.bad = {} THEN Goto("restore") /\ UNCHANGED <<product, last, calls>> ELSE Exit
    /\ UNCHANGED <<dbVars, faults>>

\* A table that could not be vacuumed is only reported.
Vacuum ==
    /\ At("vacuum")
    /\ \/ UNCHANGED faults
       \/ Fault
    /\ Goto("restore")
    /\ UNCHANGED <<product, dbVars, last, calls>>

-----------------------------------------------------------------------------
(* ValidateInitialData: the checks run side by side and look at their tables at *)
(* different times.                                                            *)

Complete(t) == tables[t].exists /\ tables[t].rows = Parts

\* Mutant: a check that finds rows is content.
CheckHoldsAny(t) == tables[t].rows # {}

\* The warehouses of which a table has rows.
WarehousesOf(t) == {p[1] : p \in tables[t].rows}

\* The checks of a table (oorder has two: its rows, and the sums of its districts) count
\* all its rows, but for two.  That of the order lines looks at the districts that have
\* some, and takes one with the fewest orders.  That of stock counts the warehouses on
\* PostgreSQL; on YDB it goes on to count the items of /Root/db1/stock, so the database
\* is that one.
CheckHolds(t) ==
    CASE t = OrderLine                      -> tables[t].rows # {}
      [] t = Stock /\ product = "postgres" -> tables[t].exists /\ WarehousesOf(t) = Warehouses
      [] OTHER                              -> Complete(t)

\* The first call of validate_warehouses, whose result is not used; only an exception
\* of its query ends the helper.
FirstCheck ==
    /\ At("first")
    /\ \/ tables[DropOrder[1]].exists /\ Goto("check") /\ NoFault
       \/ ~tables[DropOrder[1]].exists /\ Exit /\ UNCHANGED faults
       \/ Fault /\ Exit
    /\ UNCHANGED dbVars

RunCheck ==
    /\ At("check")
    /\ \E t \in cmd.pending :
         \/ /\ cmd' = [cmd EXCEPT !.pending = @ \ {t},
                                  !.bad = IF CheckHolds(t) THEN @ ELSE @ \cup {t}]
            /\ UNCHANGED faults
         \/ /\ cmd' = [cmd EXCEPT !.pending = @ \ {t}, !.bad = @ \cup {t}]
            /\ Fault
    /\ UNCHANGED <<product, dbVars, last, calls>>

\* PostgreSQL: a failed check is an exit code.  YDB: it is printed.
JudgeChecks ==
    /\ At("check") /\ cmd.pending = {}
    /\ IF product = "postgres" /\ cmd.bad # {}
       THEN Exit
       ELSE Goto("done") /\ UNCHANGED <<product, last, calls>>
    /\ UNCHANGED <<dbVars, faults>>

\* The loaders of run_ydb.sh bring the rows.
LoadPart ==
    /\ cmd.name \in {"none", "validate"}
    /\ \E t \in Tables, p \in Parts :
         /\ tables[t].exists /\ ~Busy(t) /\ p \notin tables[t].rows
         /\ tables' = [tables EXCEPT ![t].rows = @ \cup {p}]
    /\ last' = NoCommand
    /\ UNCHANGED <<product, indices, mem, ops, alters, cmd, calls, faults>>

-----------------------------------------------------------------------------
Helper ==
    \/ Return
    \/ DropTable \/ CreateTable \/ StartOp \/ PollFails \/ PollSucceeds \/ ForgetOp
    \/ SendAlter \/ WaitAlters
    \/ DropAll \/ CreateAll \/ ReadMem \/ RaiseMem \/ RestoreMem \/ KeepMem
    \/ CreateIndex \/ CheckIndices \/ Vacuum
    \/ FirstCheck \/ RunCheck \/ JudgeChecks

AlterStep == \E r \in alters : Alter(r)

Next == Helper \/ Call \/ Interrupt \/ OpStep \/ OpIsCancelled \/ AlterStep \/ LoadPart

\* The helper runs on, and YDB works its operations and requests off.
Spec == Init /\ [][Next]_vars /\ WF_vars(Helper) /\ WF_vars(OpStep) /\ WF_vars(AlterStep)

-----------------------------------------------------------------------------
TypeOK ==
    /\ \A t \in Tables :
         tables[t].rows \subseteq Parts /\ (tables[t].exists \/ tables[t] = Absent)
    /\ indices \subseteq {1, 2} /\ mem \in {"configured", "raised"}
    /\ \A i \in DOMAIN ops : ops[i].doing \subseteq ops[i].todo
    /\ cmd.step \in 1 .. Len(DropOrder) + 2 /\ cmd.tries \in 0 .. MaxTries - 1
    /\ cmd.op \in 0 .. Len(ops)
    /\ calls \in 0 .. MaxCalls /\ faults \in 0 .. MaxFaults

Ended(name) == cmd = Idle /\ last.name = name /\ last.exit = 0

\* An import that ends with 0 has loaded every table, whatever operations of earlier,
\* interrupted helpers were still at work.
ImportLoads == Ended("import") => \A t \in Tables : Complete(t)

\* The other commands did what they were called for when they end with 0.
ExitMeansDone ==
    /\ Ended("create") => \A t \in Tables : tables[t].exists /\ tables[t].rows = {}
    /\ Ended("enable") => \A t \in Tables : tables[t].byLoad
    /\ Ended("postload") => indices = {1, 2}

\* What a validation that finds nothing tells of the tables at its end, when each check
\* was made at a time of its own and loaders went on: all but stock and the order lines
\* are complete.  YDB tells that of stock too, and notices only that there are no order
\* lines at all.  PostgreSQL tells that every warehouse has some stock.
ValidateSound ==
    (Ended("validate") /\ last.bad = {}) =>
      /\ \A t \in Tables \ {OrderLine, Stock} : Complete(t)
      /\ product = "ydb" => Complete(Stock) /\ tables[OrderLine].rows # {}
      /\ product = "postgres" => WarehousesOf(Stock) = Warehouses

\* postload and vacuum-analyze that end with 0 leave maintenance_work_mem as they found
\* it.  (One that fails does not, and the next takes the raised value for the
\* configured one.)
MemRestored == (Ended("postload") \/ Ended("vacuum")) => mem = last.before

\* Every command ends: an operation is done or cancelled at some time.
HelperEnds == (cmd # Idle) ~> (cmd = Idle)
=============================================================================
