-------------------------- MODULE TpccTables_proofs --------------------------
(* What the commands of the TPC-C helpers have done when they end with 0,        *)
(* whatever operations and requests of interrupted helpers are still at work in  *)
(* YDB; and the shards that the split keys of CreateTables make.                 *)
EXTENDS TpccTables, SplitKeys, TLAPS

-----------------------------------------------------------------------------
(* The inductive invariant.                                                    *)

Settings == {"configured", "raised"}
Names == {"drop", "create", "import", "export", "enable", "postload", "vacuum", "validate"}
Phases == {"none", "drop", "create", "start", "poll", "forget", "alter", "wait",
           "ddl_drop", "ddl_create", "read", "set", "index", "vacuum", "restore",
           "first", "check", "done"}
TableRecords == [exists: BOOLEAN, rows: SUBSET Parts, byLoad: BOOLEAN]
OpRecords == [kind: {"none", "import", "export"}, todo: SUBSET Tables,
              doing: SUBSET Tables,
              progress: {"none", "running", "done", "cancelled"}, ready: BOOLEAN]
CmdRecords == [name: Names \cup {"none"}, phase: Phases, step: Nat,
               tries: 0 .. MaxTries - 1, op: Nat, saved: Settings \cup {"none"},
               before: Settings \cup {"none"}, bad: SUBSET (Tables \cup {1, 2}),
               pending: SUBSET Tables]
LastRecords == [name: Names \cup {"none"}, exit: {0, 1},
                before: Settings \cup {"none"}, bad: SUBSET (Tables \cup {1, 2})]

DbTypes ==
    /\ tables \in [Tables -> TableRecords]
    /\ indices \in SUBSET {1, 2} /\ mem \in Settings
    /\ ops \in Seq(OpRecords)
    /\ alters \in SUBSET [table: Tables, call: 0 .. calls]

Types ==
    /\ product \in {"ydb", "postgres"} /\ DbTypes
    /\ cmd \in CmdRecords /\ last \in LastRecords
    /\ calls \in 0 .. MaxCalls /\ faults \in 0 .. MaxFaults

\* Where a command is: the phases of each, the loops over the tables and the indices.
CourseInv ==
    LET phase == cmd.phase IN
    /\ phase = "none" => cmd = Idle
    /\ phase # "none" => cmd.name # "none" /\ last = NoCommand
    /\ phase = "drop" => product = "ydb" /\ cmd.name \in {"drop", "create", "import"}
    /\ phase = "create" => product = "ydb" /\ cmd.name = "create"
    /\ phase \in {"start", "poll", "forget"} =>
         product = "ydb" /\ cmd.name \in {"import", "export"}
    /\ phase \in {"alter", "wait"} => product = "ydb" /\ cmd.name = "enable"
    /\ phase \in {"first", "check"} => cmd.name = "validate"
    /\ phase = "ddl_drop" => product = "postgres" /\ cmd.name \in {"drop", "create"}
    /\ phase = "ddl_create" => product = "postgres" /\ cmd.name = "create"
    /\ phase \in {"read", "set", "restore"} => cmd.name \in {"postload", "vacuum"}
    /\ phase = "index" => cmd.name = "postload"
    /\ phase = "vacuum" => cmd.name = "vacuum"
    /\ phase \in {"drop", "create", "alter"} => cmd.step \in 1 .. Len(DropOrder)
    /\ phase = "index" => cmd.step \in 1 .. 3
    /\ phase \notin {"drop", "create", "alter", "index"} => cmd.step = 1
    /\ phase \in {"poll", "forget"} => cmd.op \in 1 .. Len(ops)
    /\ cmd.op \in 0 .. Len(ops)
    /\ phase = "set" => cmd.saved \in Settings
    /\ phase = "read" => cmd.saved = "none"

\* YDB: what an operation has not filled yet is still to be done, and it is not done
\* with a table that is not there.
OpsInv ==
    /\ \A t \in Tables : tables[t].exists \/ tables[t] = Absent
    /\ \A i \in 1 .. Len(ops) :
         /\ ops[i].doing \subseteq ops[i].todo
         /\ ops[i].progress = "done" => ops[i].todo = {}
         /\ \A t \in ops[i].doing : tables[t].exists
    /\ product = "postgres" => ops = <<>> /\ alters = {}

\* The command of this name was the last one, and ended with 0.
Past(name) == last.name = name /\ last.exit = 0

ImportInv ==
    /\ cmd.name = "import" /\ cmd.phase = "poll" =>
         \A t \in Tables \ ops[cmd.op].todo : Complete(t)
    /\ cmd.name = "import" /\ cmd.phase \in {"forget", "done"} => \A t \in Tables : Complete(t)
    /\ Past("import") => \A t \in Tables : Complete(t)

\* A table that was made by create, and not by an operation that an import left behind.
Fresh(t) == tables[t].exists /\ tables[t].rows = {} /\ ~Busy(t)

CreateInv ==
    /\ cmd.phase = "create" => \A j \in 1 .. cmd.step - 1 : Fresh(CreateOrder[j])
    /\ cmd.name = "create" /\ cmd.phase = "done" => \A t \in Tables : Fresh(t)
    /\ Past("create") => \A t \in Tables : Fresh(t)

\* A table that enable-split-by-load has asked for.
Handled(t) ==
    \/ tables[t].byLoad
    \/ t \in cmd.bad
    \/ [table |-> t, call |-> calls] \in alters

EnableInv ==
    /\ cmd.phase = "alter" => \A j \in 1 .. cmd.step - 1 : Handled(DropOrder[j])
    /\ cmd.phase = "wait" => \A t \in Tables : Handled(t)
    /\ cmd.name = "enable" /\ cmd.phase = "done" => \A t \in Tables : tables[t].byLoad
    /\ Past("enable") => \A t \in Tables : tables[t].byLoad

PostloadInv ==
    /\ cmd.phase = "index" => \A j \in 1 .. cmd.step - 1 : j \in indices \cup cmd.bad
    /\ cmd.name = "postload" /\ cmd.phase \in {"restore", "done"} => indices = {1, 2}
    /\ Past("postload") => indices = {1, 2}

MemInv ==
    /\ cmd.phase \in {"read", "set"} => mem = cmd.before
    /\ cmd.phase = "set" => cmd.saved = cmd.before
    /\ cmd.phase \in {"index", "vacuum", "restore"} =>
         IF cmd.saved = "none" THEN mem = cmd.before ELSE cmd.saved = cmd.before
    /\ cmd.name \in {"postload", "vacuum"} /\ cmd.phase = "done" => mem = cmd.before
    /\ Past("postload") \/ Past("vacuum") => mem = last.before

ValidateInv ==
    /\ cmd.name = "validate" =>
         \A t \in Checks \ cmd.pending : CheckHolds(t) \/ t \in cmd.bad
    /\ cmd.name = "validate" /\ cmd.phase = "done" => cmd.pending = {}
    /\ Past("validate") /\ last.bad = {} => \A t \in Checks : CheckHolds(t)

TablesInv ==
    /\ Types /\ CourseInv /\ OpsInv /\ ImportInv /\ CreateInv /\ EnableInv
    /\ PostloadInv /\ MemInv /\ ValidateInv

-----------------------------------------------------------------------------
(* Steps of a command.                                                         *)

LEMMA ConstantFacts ==
    /\ Len(DropOrder) \in Nat /\ Len(DropOrder) >= 1 /\ Len(CreateOrder) = Len(DropOrder)
    /\ \A i \in 1 .. Len(DropOrder) : DropOrder[i] \in Tables /\ CreateOrder[i] \in Tables
    /\ \A t \in Tables : \E i \in 1 .. Len(DropOrder) : t = DropOrder[i]
    /\ \A t \in Tables : \E i \in 1 .. Len(DropOrder) : t = CreateOrder[i]
    /\ 0 \in 0 .. MaxTries - 1
<1>1. /\ DropOrder \in Seq(Tables) /\ CreateOrder \in Seq(Tables)
      /\ Range(CreateOrder) = Tables /\ Len(CreateOrder) = Len(DropOrder)
      /\ OrderLine \in Tables /\ MaxTries \in Nat \ {0}
  BY TablesAssumption
<1>2. /\ Len(DropOrder) \in Nat
      /\ \A i \in 1 .. Len(DropOrder) : DropOrder[i] \in Tables /\ CreateOrder[i] \in Tables
  BY <1>1
<1>3. \A t \in Tables : \E i \in 1 .. Len(DropOrder) : t = DropOrder[i]
  BY <1>1 DEF Tables, Range
<1>4. \A t \in Tables : \E i \in 1 .. Len(DropOrder) : t = CreateOrder[i]
  BY <1>1 DEF Range
<1>5. Len(DropOrder) >= 1
  BY <1>1, <1>2, <1>3
<1>6. 0 \in 0 .. MaxTries - 1
  BY <1>1
<1> QED
  BY <1>1, <1>2, <1>3, <1>4, <1>5, <1>6

LEMMA GotoFacts ==
    ASSUME cmd \in CmdRecords, NEW phase \in Phases, Goto(phase)
    PROVE  /\ cmd' \in CmdRecords /\ cmd'.phase = phase /\ cmd'.step = 1
           /\ cmd'.name = cmd.name /\ cmd'.op = cmd.op /\ cmd'.saved = cmd.saved
           /\ cmd'.before = cmd.before /\ cmd'.bad = cmd.bad /\ cmd'.pending = cmd.pending
  BY DEF Goto, CmdRecords

LEMMA AdvanceFacts ==
    ASSUME cmd \in CmdRecords, NEW n \in Nat, NEW phase \in Phases, Advance(n, phase)
    PROVE  /\ cmd' \in CmdRecords
           /\ cmd'.name = cmd.name /\ cmd'.op = cmd.op /\ cmd'.saved = cmd.saved
           /\ cmd'.before = cmd.before /\ cmd'.bad = cmd.bad /\ cmd'.pending = cmd.pending
           /\ cmd.step < n => cmd'.phase = cmd.phase /\ cmd'.step = cmd.step + 1
           /\ ~(cmd.step < n) => cmd'.phase = phase /\ cmd'.step = 1
<1>1. CASE cmd.step < n
  <2>1. cmd' = [cmd EXCEPT !.step = cmd.step + 1]
    BY <1>1 DEF Advance
  <2> QED
    BY <1>1, <2>1 DEF CmdRecords
<1>2. CASE ~(cmd.step < n)
  <2>1. Goto(phase)
    BY <1>2 DEF Advance
  <2> QED
    BY <1>2, <2>1, GotoFacts
<1> QED
  BY <1>1, <1>2

LEMMA FaultFacts ==
    ASSUME Types, Fault
    PROVE  faults' \in 0 .. MaxFaults
  BY TablesAssumption DEF Types, Fault

LEMMA IdleFacts ==
    /\ Idle \in CmdRecords /\ Idle.name = "none" /\ Idle.phase = "none" /\ Idle.step = 1
    /\ Idle.op = 0
    /\ NoCommand \in LastRecords /\ NoCommand.name = "none"
  BY ConstantFacts DEF Idle, NoCommand, CmdRecords, LastRecords, Phases

\* No command is past while one runs.
LEMMA NonePast ==
    ASSUME last' = NoCommand
    PROVE  /\ ~Past("import")' /\ ~Past("create")' /\ ~Past("enable")'
           /\ ~Past("postload")' /\ ~Past("vacuum")' /\ ~Past("validate")'
  BY DEF Past, NoCommand

\* A command that ends with 1 promises nothing.
LEMMA ExitInv ==
    ASSUME TablesInv, Exit, DbTypes', OpsInv', faults' \in 0 .. MaxFaults
    PROVE  TablesInv'
<1>1. /\ cmd' = Idle /\ product' = product /\ calls' = calls
      /\ last' = [name |-> cmd.name, exit |-> 1, before |-> cmd.before, bad |-> cmd.bad]
  BY DEF Exit, End
<1>2. last' \in LastRecords /\ last'.exit = 1
  BY <1>1 DEF TablesInv, Types, CmdRecords, LastRecords
<1>3. Types'
  BY <1>1, <1>2, IdleFacts DEF TablesInv, Types
<1>4. CourseInv'
  <2>1. Len(ops') \in Nat
    BY DEF DbTypes
  <2> QED
    BY <1>1, <2>1, IdleFacts DEF CourseInv
<1> QED
  BY <1>1, <1>2, <1>3, <1>4, IdleFacts
     DEF TablesInv, ImportInv, CreateInv, EnableInv, PostloadInv, MemInv, ValidateInv, Past

\* What the check of each table asks.
LEMMA CheckFacts ==
    ASSUME NEW t
    PROVE  /\ t = OrderLine => (CheckHolds(t) <=> tables[t].rows # {})
           /\ t = Stock /\ product = "postgres" =>
                (CheckHolds(t) <=> tables[t].exists /\ WarehousesOf(t) = Warehouses)
           /\ t # OrderLine /\ ~(t = Stock /\ product = "postgres") =>
                (CheckHolds(t) <=> Complete(t))
  BY TablesAssumption DEF CheckHolds

\* The state of the databases stays as it is.
LEMMA DbSame ==
    ASSUME TablesInv, UNCHANGED dbVars, product' = product, calls' \in Nat, calls <= calls'
    PROVE  /\ DbTypes' /\ OpsInv'
           /\ \A t : /\ Complete(t)' = Complete(t) /\ Busy(t)' = Busy(t)
                     /\ Fresh(t)' = Fresh(t) /\ CheckHolds(t)' = CheckHolds(t)
           /\ Checks' = Checks
<1>1. /\ tables' = tables /\ indices' = indices /\ mem' = mem /\ ops' = ops
      /\ alters' = alters
  BY DEF dbVars
<1>2. DbTypes'
  <2>1. calls \in Nat /\ 0 .. calls \subseteq 0 .. calls'
    BY TablesAssumption DEF TablesInv, Types
  <2>2. alters' \in SUBSET [table: Tables, call: 0 .. calls']
    BY <1>1, <2>1 DEF TablesInv, Types, DbTypes
  <2> QED
    BY <1>1, <2>2 DEF TablesInv, Types, DbTypes
<1>3. OpsInv'
  BY <1>1 DEF TablesInv, OpsInv
<1>4. \A t : Complete(t)' = Complete(t) /\ Busy(t)' = Busy(t)
  BY <1>1 DEF Complete, Busy
<1>5. \A t : Fresh(t)' = Fresh(t) /\ WarehousesOf(t)' = WarehousesOf(t)
  BY <1>1, <1>4 DEF Fresh, WarehousesOf
<1>6. \A t : CheckHolds(t)' = CheckHolds(t)
  BY <1>1, <1>4, <1>5 DEF CheckHolds
<1>7. Checks' = Checks
  BY DEF Checks
<1> QED
  BY <1>2, <1>3, <1>4, <1>5, <1>6, <1>7

\* The helper ends by itself or is interrupted, and the databases stay as they are.
LEMMA ExitSame ==
    ASSUME TablesInv, Exit, UNCHANGED dbVars, faults' \in 0 .. MaxFaults
    PROVE  TablesInv'
<1>1. product' = product /\ calls' = calls /\ calls \in Nat
  BY TablesAssumption DEF Exit, TablesInv, Types
<1> QED
  BY <1>1, DbSame, ExitInv

LEMMA InterruptInv == TablesInv /\ Interrupt => TablesInv'
<1> SUFFICES ASSUME TablesInv, Interrupt PROVE TablesInv'
  OBVIOUS
<1>1. Exit /\ UNCHANGED dbVars /\ faults' \in 0 .. MaxFaults
  BY FaultFacts DEF Interrupt, TablesInv
<1> QED
  BY <1>1, ExitSame

LEMMA CallInv == TablesInv /\ Call => TablesInv'
<1> SUFFICES ASSUME TablesInv, Call PROVE TablesInv'
  OBVIOUS
<1>1. PICK name \in CommandNames :
        cmd' = [Idle EXCEPT !.name = name, !.phase = FirstPhase(name), !.before = mem,
                            !.pending = Checks]
  BY DEF Call
<1>2. /\ calls' = calls + 1 /\ calls < MaxCalls /\ last' = NoCommand /\ product' = product
      /\ faults' = faults /\ UNCHANGED dbVars
  BY DEF Call
<1>3. /\ product \in {"ydb", "postgres"} /\ mem \in Settings /\ calls \in Nat
      /\ Len(ops) \in Nat /\ ops' = ops /\ mem' = mem
  BY <1>2, TablesAssumption DEF TablesInv, Types, DbTypes, dbVars
<1>4. PICK phase : phase = FirstPhase(name)
  OBVIOUS
<1>5. /\ name \in Names
      /\ name = "drop" => phase \in {"drop", "ddl_drop"}
      /\ name = "create" => phase \in {"drop", "ddl_drop"}
      /\ name = "import" => phase = "drop"
      /\ name = "export" => phase = "start"
      /\ name = "enable" => phase = "alter"
      /\ name \in {"postload", "vacuum"} => phase = "read"
      /\ name = "validate" => phase \in {"first", "check"}
      /\ phase = "ddl_drop" => product = "postgres"
      /\ phase \in {"drop", "start", "alter"} => product = "ydb"
  <2>1. CASE product = "ydb"
    BY <1>4, <2>1 DEF CommandNames, Names, FirstPhase
  <2>2. CASE product = "postgres"
    BY <1>4, <2>2 DEF CommandNames, Names, FirstPhase
  <2> QED
    BY <1>3, <2>1, <2>2
<1>6. phase \in Phases \ {"none"} /\ name # "none"
  BY <1>5 DEF Names, Phases
<1>7. /\ cmd'.name = name /\ cmd'.phase = phase /\ cmd'.step = 1 /\ cmd'.op = 0
      /\ cmd'.before = mem /\ cmd'.pending = Checks /\ cmd' \in CmdRecords
      /\ cmd'.saved = "none"
  <2>1. Checks \in SUBSET Tables
    BY DEF Checks
  <2> QED
    BY <1>1, <1>3, <1>4, <1>5, <1>6, <2>1, ConstantFacts DEF Idle, CmdRecords
<1>8. /\ DbTypes' /\ OpsInv' /\ Checks' = Checks
  BY <1>2, <1>3, DbSame
<1>9. Types'
  BY <1>2, <1>3, <1>7, <1>8, TablesAssumption, IdleFacts DEF TablesInv, Types
<1>10. CourseInv'
  BY <1>2, <1>3, <1>5, <1>6, <1>7, ConstantFacts DEF CourseInv, Names
<1>11. ImportInv' /\ CreateInv' /\ EnableInv' /\ PostloadInv'
  BY <1>2, <1>5, <1>7, NonePast DEF ImportInv, CreateInv, EnableInv, PostloadInv, Names
<1>12. MemInv' /\ ValidateInv'
  BY <1>2, <1>3, <1>5, <1>7, <1>8, NonePast DEF MemInv, ValidateInv, Names
<1> QED
  BY <1>8, <1>9, <1>10, <1>11, <1>12 DEF TablesInv

LEMMA ReturnInv == TablesInv /\ Return => TablesInv'
<1> SUFFICES ASSUME TablesInv, Return PROVE TablesInv'
  OBVIOUS
<1>1. /\ cmd.phase = "done" /\ cmd' = Idle /\ product' = product /\ calls' = calls
      /\ faults' = faults /\ UNCHANGED dbVars
      /\ last' = [name |-> cmd.name, exit |-> 0, before |-> cmd.before, bad |-> cmd.bad]
  BY DEF Return, End, At
<1>2. /\ tables' = tables /\ indices' = indices /\ mem' = mem /\ ops' = ops
      /\ calls \in Nat /\ Len(ops) \in Nat
  BY <1>1, TablesAssumption DEF dbVars, TablesInv, Types, DbTypes
<1>3. last' \in LastRecords /\ last'.name = cmd.name /\ last'.before = cmd.before
      /\ last'.bad = cmd.bad
  BY <1>1 DEF TablesInv, Types, CmdRecords, LastRecords
<1>4. /\ DbTypes' /\ OpsInv' /\ Checks' = Checks
      /\ \A t : Complete(t)' = Complete(t) /\ Fresh(t)' = Fresh(t)
                  /\ CheckHolds(t)' = CheckHolds(t)
  BY <1>1, <1>2, DbSame
<1>5. Types'
  BY <1>1, <1>3, <1>4, IdleFacts DEF TablesInv, Types
<1>6. CourseInv'
  BY <1>1, <1>2, IdleFacts DEF CourseInv
<1>7. /\ cmd'.name = "none" /\ cmd'.phase = "none"
      /\ \A name : Past(name)' => cmd.name = name
  BY <1>1, <1>3, IdleFacts DEF Past
<1>8. ImportInv'
  BY <1>1, <1>4, <1>7 DEF TablesInv, ImportInv
<1>9. CreateInv'
  BY <1>1, <1>4, <1>7 DEF TablesInv, CreateInv
<1>10. EnableInv'
  BY <1>1, <1>2, <1>7 DEF TablesInv, EnableInv
<1>11. PostloadInv'
  BY <1>1, <1>2, <1>7 DEF TablesInv, PostloadInv
<1>12. MemInv'
  BY <1>1, <1>2, <1>3, <1>7 DEF TablesInv, MemInv
<1>13. ValidateInv'
  BY <1>1, <1>3, <1>4, <1>7 DEF TablesInv, ValidateInv
<1> QED
  BY <1>4, <1>5, <1>6, <1>8, <1>9, <1>10, <1>11, <1>12, <1>13 DEF TablesInv

-----------------------------------------------------------------------------
(* YDB: drop, create, import, export.                                          *)

\* What is left after the drop of a table: it is gone if no operation fills it.
LEMMA DropDb ==
    ASSUME TablesInv, NEW t \in Tables,
           tables' = tables \/ (~Busy(t) /\ tables' = [tables EXCEPT ![t] = Absent]),
           UNCHANGED <<indices, mem, ops, alters, product, calls>>
    PROVE  DbTypes' /\ OpsInv'
<1>1. /\ tables \in [Tables -> TableRecords] /\ indices' = indices /\ mem' = mem
      /\ ops' = ops /\ alters' = alters /\ product' = product /\ calls' = calls
      /\ ops \in Seq(OpRecords) /\ Len(ops) \in Nat
  BY DEF TablesInv, Types, DbTypes
<1>2. Absent \in TableRecords
  BY DEF Absent, TableRecords
<1>3. tables' \in [Tables -> TableRecords]
  BY <1>1, <1>2
<1>4. DbTypes'
  BY <1>1, <1>3 DEF TablesInv, Types, DbTypes
<1>5. /\ \A u \in Tables : u # t => tables'[u] = tables[u]
      /\ tables'[t] = tables[t] \/ (~Busy(t) /\ tables'[t] = Absent)
  BY <1>1
<1>6. \A u \in Tables : tables'[u].exists \/ tables'[u] = Absent
  BY <1>5 DEF TablesInv, OpsInv
<1>7. \A i \in 1 .. Len(ops) : ops[i].doing \subseteq Tables
  <2>1. \A i \in 1 .. Len(ops) : ops[i] \in OpRecords
    BY <1>1
  <2> QED
    BY <2>1 DEF OpRecords
<1>8. \A i \in 1 .. Len(ops) : t \in ops[i].doing => Busy(t)
  BY <1>1 DEF Busy
<1>9. \A i \in 1 .. Len(ops) : \A u \in ops[i].doing : tables'[u].exists
  BY <1>5, <1>7, <1>8 DEF TablesInv, OpsInv
<1>10. OpsInv'
  BY <1>1, <1>6, <1>9 DEF TablesInv, OpsInv
<1> QED
  BY <1>4, <1>10

LEMMA DropTableInv == TablesInv /\ DropTable => TablesInv'
<1> SUFFICES ASSUME TablesInv, DropTable PROVE TablesInv'
  OBVIOUS
<1> DEFINE t == DropOrder[cmd.step]
<1>1. /\ cmd.phase = "drop" /\ UNCHANGED <<indices, mem, ops, alters>>
      /\ tables' = tables \/ (~Busy(t) /\ tables' = [tables EXCEPT ![t] = Absent])
      /\ \/ Advance(Len(DropOrder), AfterDrop) /\ UNCHANGED <<product, last, calls>>
         \/ Exit
      /\ faults' = faults \/ Fault
  BY DEF DropTable, At, NoFault
<1>2. /\ cmd.name \in {"drop", "create", "import"} /\ product = "ydb"
      /\ cmd.step \in 1 .. Len(DropOrder) /\ last = NoCommand
      /\ cmd \in CmdRecords /\ t \in Tables /\ Len(DropOrder) \in Nat
  BY <1>1, ConstantFacts DEF TablesInv, CourseInv, Types
<1>3. faults' \in 0 .. MaxFaults
  BY <1>1, FaultFacts DEF TablesInv, Types
<1>4. DbTypes' /\ OpsInv'
  <2>1. product' = product /\ calls' = calls
    BY <1>1 DEF Exit
  <2>2. PICK u \in Tables : u = t
    BY <1>2
  <2> QED
    BY <1>1, <2>1, <2>2, DropDb
<1>5. CASE Exit
  BY <1>3, <1>4, <1>5, ExitInv
<1>6. CASE Advance(Len(DropOrder), AfterDrop) /\ UNCHANGED <<product, last, calls>>
  <2>1. PICK phase \in Phases : phase = AfterDrop
    BY <1>2 DEF AfterDrop, Phases
  <2>2. /\ cmd.name = "drop" => phase = "done"
        /\ cmd.name = "create" => phase = "create"
        /\ cmd.name = "import" => phase = "start"
    BY <2>1 DEF AfterDrop
  <2>3. Advance(Len(DropOrder), phase)
    BY <1>6, <2>1
  <2>4. /\ cmd' \in CmdRecords /\ cmd'.name = cmd.name /\ cmd'.op = cmd.op
        /\ \/ cmd'.phase = "drop" /\ cmd'.step \in 1 .. Len(DropOrder)
           \/ cmd'.phase = phase /\ cmd'.step = 1
    BY <1>1, <1>2, <2>3, AdvanceFacts
  <2>5. Types'
    BY <1>3, <1>4, <1>6, <2>4 DEF TablesInv, Types
  <2>6. CourseInv'
    <3>1. /\ cmd'.op \in 0 .. Len(ops') /\ last' = NoCommand /\ product' = "ydb"
          /\ cmd'.name \in {"drop", "create", "import"} /\ 1 \in 1 .. Len(DropOrder)
      BY <1>1, <1>2, <1>6, <2>4, ConstantFacts DEF TablesInv, CourseInv
    <3>2. CASE cmd'.phase = "drop" /\ cmd'.step \in 1 .. Len(DropOrder)
      BY <3>1, <3>2 DEF CourseInv
    <3>3. CASE cmd'.phase = phase /\ cmd'.step = 1
      <4>1. \/ cmd'.phase = "done"
            \/ cmd'.phase = "create" /\ cmd'.name = "create"
            \/ cmd'.phase = "start" /\ cmd'.name = "import"
        BY <1>2, <2>2, <2>4, <3>3
      <4> QED
        BY <3>1, <3>3, <4>1 DEF CourseInv
    <3> QED
      BY <2>4, <3>2, <3>3
  <2>7. ImportInv' /\ CreateInv' /\ EnableInv' /\ PostloadInv' /\ MemInv' /\ ValidateInv'
    BY <1>2, <1>6, <2>2, <2>4, NonePast
       DEF ImportInv, CreateInv, EnableInv, PostloadInv, MemInv, ValidateInv
  <2> QED
    BY <1>4, <2>5, <2>6, <2>7 DEF TablesInv
<1> QED
  BY <1>1, <1>5, <1>6

\* What is left after the creation of a table that was not there.
LEMMA CreateDb ==
    ASSUME TablesInv, NEW t \in Tables, ~tables[t].exists,
           tables' = tables \/ tables' = [tables EXCEPT ![t] = Created],
           UNCHANGED <<indices, mem, ops, alters, product, calls>>
    PROVE  /\ DbTypes' /\ OpsInv'
           /\ tables' = [tables EXCEPT ![t] = Created] => Fresh(t)'
           /\ \A u \in Tables : u # t /\ Fresh(u) => Fresh(u)'
<1>1. /\ tables \in [Tables -> TableRecords] /\ indices' = indices /\ mem' = mem
      /\ ops' = ops /\ alters' = alters /\ product' = product /\ calls' = calls
      /\ ops \in Seq(OpRecords) /\ Len(ops) \in Nat
  BY DEF TablesInv, Types, DbTypes
<1>2. Created \in TableRecords /\ Created.exists /\ Created.rows = {}
  BY DEF Absent, Created, TableRecords
<1>3. tables' \in [Tables -> TableRecords]
  BY <1>1, <1>2
<1>4. DbTypes'
  BY <1>1, <1>3 DEF TablesInv, Types, DbTypes
<1>5. /\ \A u \in Tables : u # t => tables'[u] = tables[u]
      /\ tables'[t] = tables[t] \/ tables'[t] = Created
      /\ tables' = [tables EXCEPT ![t] = Created] => tables'[t] = Created
  BY <1>1
<1>6. \A u \in Tables : tables'[u].exists \/ tables'[u] = Absent
  BY <1>2, <1>5 DEF TablesInv, OpsInv
<1>7. \A i \in 1 .. Len(ops) : ops[i].doing \subseteq Tables
  <2>1. \A i \in 1 .. Len(ops) : ops[i] \in OpRecords
    BY <1>1
  <2> QED
    BY <2>1 DEF OpRecords
<1>8. \A i \in 1 .. Len(ops) : \A u \in ops[i].doing : tables'[u].exists
  BY <1>2, <1>5, <1>7 DEF TablesInv, OpsInv
<1>9. OpsInv'
  BY <1>1, <1>6, <1>8 DEF TablesInv, OpsInv
<1>10. ~Busy(t) /\ \A u : Busy(u)' = Busy(u)
  BY <1>1 DEF TablesInv, OpsInv, Busy
<1>11. tables' = [tables EXCEPT ![t] = Created] => Fresh(t)'
  BY <1>2, <1>5, <1>10 DEF Fresh
<1>12. \A u \in Tables : u # t /\ Fresh(u) => Fresh(u)'
  BY <1>5, <1>10 DEF Fresh
<1> QED
  BY <1>4, <1>9, <1>11, <1>12

LEMMA CreateTableInv == TablesInv /\ CreateTable => TablesInv'
<1> SUFFICES ASSUME TablesInv, CreateTable PROVE TablesInv'
  OBVIOUS
<1> DEFINE t == CreateOrder[cmd.step]
<1>1. /\ cmd.phase = "create" /\ UNCHANGED <<indices, mem, ops, alters>>
      /\ \/ /\ ~tables[t].exists /\ tables' = [tables EXCEPT ![t] = Created]
            /\ Advance(Len(CreateOrder), "done") /\ UNCHANGED <<product, last, calls, faults>>
         \/ tables' = tables /\ faults' = faults /\ Exit
         \/ /\ ~tables[t].exists /\ Fault /\ Exit
            /\ tables' = tables \/ tables' = [tables EXCEPT ![t] = Created]
  BY DEF CreateTable, At, NoFault
<1>2. /\ cmd.name = "create" /\ product = "ydb"
      /\ cmd.step \in 1 .. Len(DropOrder) /\ last = NoCommand
      /\ cmd \in CmdRecords /\ t \in Tables /\ Len(DropOrder) \in Nat
      /\ Len(CreateOrder) = Len(DropOrder)
  BY <1>1, ConstantFacts DEF TablesInv, CourseInv, Types
<1>3. faults' \in 0 .. MaxFaults
  BY <1>1, FaultFacts DEF TablesInv, Types
<1>4. PICK u \in Tables : u = t
  BY <1>2
<1>5. CASE tables' = tables /\ Exit
  <2>1. UNCHANGED dbVars
    BY <1>1, <1>5 DEF dbVars
  <2> QED
    BY <1>3, <1>5, <2>1, ExitSame
<1>6. CASE ~tables[t].exists /\ Exit /\ (tables' = tables \/ tables' = [tables EXCEPT ![t] = Created])
  <2>1. product' = product /\ calls' = calls
    BY <1>6 DEF Exit
  <2>2. DbTypes' /\ OpsInv'
    BY <1>1, <1>4, <1>6, <2>1, CreateDb
  <2> QED
    BY <1>3, <1>6, <2>2, ExitInv
<1>7. CASE /\ ~tables[t].exists /\ tables' = [tables EXCEPT ![t] = Created]
           /\ Advance(Len(CreateOrder), "done") /\ UNCHANGED <<product, last, calls, faults>>
  <2>1. /\ DbTypes' /\ OpsInv' /\ Fresh(u)'
        /\ \A v \in Tables : v # u /\ Fresh(v) => Fresh(v)'
    BY <1>1, <1>4, <1>7, CreateDb
  <2>2. /\ cmd' \in CmdRecords /\ cmd'.name = "create" /\ cmd'.op = cmd.op
        /\ \/ /\ cmd.step < Len(DropOrder)
              /\ cmd'.phase = "create" /\ cmd'.step = cmd.step + 1
           \/ /\ cmd.step = Len(DropOrder)
              /\ cmd'.phase = "done" /\ cmd'.step = 1
    <3>1. "done" \in Phases
      BY DEF Phases
    <3> QED
      BY <1>1, <1>2, <1>7, <3>1, AdvanceFacts
  <2>3. \A j \in 1 .. cmd.step : Fresh(CreateOrder[j])'
    <3>1. SUFFICES ASSUME NEW j \in 1 .. cmd.step PROVE Fresh(CreateOrder[j])'
      OBVIOUS
    <3>0. j \in 1 .. Len(DropOrder)
      BY <1>2, <3>1
    <3>2. PICK v \in Tables : v = CreateOrder[j]
      BY <3>0, ConstantFacts
    <3>3. CASE j = cmd.step
      BY <1>4, <2>1, <3>2, <3>3
    <3>4. CASE j # cmd.step
      <4>1. j \in 1 .. cmd.step - 1
        BY <1>2, <3>4
      <4>2. Fresh(CreateOrder[j])
        BY <1>1, <4>1 DEF TablesInv, CreateInv
      <4> QED
        BY <2>1, <3>2, <4>2
    <3> QED
      BY <3>3, <3>4
  <2>4. cmd.step = Len(DropOrder) => \A v \in Tables : Fresh(v)'
    BY <2>3, ConstantFacts
  <2>5. Types'
    BY <1>3, <1>7, <2>1, <2>2 DEF TablesInv, Types
  <2>6. CourseInv'
    <3>1. /\ cmd'.op \in 0 .. Len(ops') /\ last' = NoCommand /\ product' = "ydb"
      BY <1>1, <1>2, <1>7, <2>2 DEF TablesInv, CourseInv
    <3>2. \/ cmd'.phase = "done" /\ cmd'.step = 1
          \/ cmd'.phase = "create" /\ cmd'.step \in 1 .. Len(DropOrder)
      BY <1>2, <2>2
    <3> QED
      BY <2>2, <3>1, <3>2 DEF CourseInv
  <2>7. CreateInv'
    BY <1>2, <1>7, <2>2, <2>3, <2>4, NonePast DEF CreateInv
  <2>8. ImportInv' /\ EnableInv' /\ PostloadInv' /\ MemInv' /\ ValidateInv'
    BY <1>2, <1>7, <2>2, NonePast
       DEF ImportInv, EnableInv, PostloadInv, MemInv, ValidateInv
  <2> QED
    BY <2>1, <2>5, <2>6, <2>7, <2>8 DEF TablesInv
<1> QED
  BY <1>1, <1>5, <1>6, <1>7

\* Operations that are there stay, and a new one has everything to do.
LEMMA StartOpInv == TablesInv /\ StartOp => TablesInv'
<1> SUFFICES ASSUME TablesInv, StartOp PROVE TablesInv'
  OBVIOUS
<1>1. /\ cmd.phase = "start" /\ UNCHANGED <<tables, indices, mem, alters>>
      /\ \/ /\ ops' = Append(ops, NewOp)
            /\ cmd' = [cmd EXCEPT !.phase = "poll", !.op = Len(ops) + 1]
            /\ UNCHANGED <<product, last, calls, faults>>
         \/ /\ ops' \in {ops, Append(ops, NewOp)} /\ Fault /\ Exit
  BY DEF StartOp, At, NoFault
<1>2. /\ cmd.name \in {"import", "export"} /\ product = "ydb" /\ cmd.step = 1
      /\ last = NoCommand /\ cmd \in CmdRecords /\ ops \in Seq(OpRecords)
      /\ Len(ops) \in Nat /\ product' = product /\ calls' = calls
  BY <1>1 DEF TablesInv, CourseInv, Types, DbTypes, Exit
<1>3. faults' \in 0 .. MaxFaults
  BY <1>1, FaultFacts DEF TablesInv, Types
<1>4. /\ NewOp \in OpRecords /\ NewOp.doing = {} /\ NewOp.progress = "running"
      /\ cmd.name = "import" => NewOp.todo = Tables
  BY <1>2 DEF NewOp, OpRecords
<1>5. ops' = ops \/ ops' = Append(ops, NewOp)
  BY <1>1
<1> HIDE DEF NewOp
<1>6. /\ ops' \in Seq(OpRecords) /\ Len(ops') \in Nat
      /\ \A i \in 1 .. Len(ops) : ops'[i] = ops[i]
      /\ \A i \in 1 .. Len(ops') : i \in 1 .. Len(ops) \/ ops'[i] = NewOp
      /\ ops' = Append(ops, NewOp) => Len(ops') = Len(ops) + 1 /\ ops'[Len(ops) + 1] = NewOp
  <2>1. CASE ops' = ops
    BY <1>2, <2>1
  <2>2. CASE ops' = Append(ops, NewOp)
    <3>1. /\ Append(ops, NewOp) \in Seq(OpRecords)
          /\ Len(Append(ops, NewOp)) = Len(ops) + 1
          /\ \A i \in 1 .. Len(ops) : Append(ops, NewOp)[i] = ops[i]
          /\ Append(ops, NewOp)[Len(ops) + 1] = NewOp
      BY <1>2, <1>4
    <3> QED
      BY <1>2, <2>2, <3>1
  <2> QED
    BY <1>5, <2>1, <2>2
<1>7. DbTypes'
  BY <1>1, <1>2, <1>6 DEF TablesInv, Types, DbTypes
<1>8. OpsInv'
  BY <1>1, <1>2, <1>4, <1>6 DEF TablesInv, OpsInv
<1>9. CASE Exit
  BY <1>3, <1>7, <1>8, <1>9, ExitInv
<1>10. CASE /\ ops' = Append(ops, NewOp)
            /\ cmd' = [cmd EXCEPT !.phase = "poll", !.op = Len(ops) + 1]
            /\ UNCHANGED <<product, last, calls, faults>>
  <2>1. /\ cmd' \in CmdRecords /\ cmd'.phase = "poll" /\ cmd'.op = Len(ops) + 1
        /\ cmd'.name = cmd.name /\ cmd'.step = 1
    <3>1. "poll" \in Phases /\ Len(ops) + 1 \in Nat
      BY <1>2 DEF Phases
    <3> QED
      BY <1>2, <1>10, <3>1 DEF CmdRecords
  <2>2. Types'
    BY <1>3, <1>7, <1>10, <2>1 DEF TablesInv, Types
  <2>3. CourseInv'
    BY <1>2, <1>6, <1>10, <2>1 DEF CourseInv
  <2>4. ImportInv'
    BY <1>2, <1>4, <1>6, <1>10, <2>1, NonePast DEF ImportInv
  <2>5. CreateInv' /\ EnableInv' /\ PostloadInv' /\ MemInv' /\ ValidateInv'
    BY <1>2, <1>10, <2>1, NonePast
       DEF CreateInv, EnableInv, PostloadInv, MemInv, ValidateInv
  <2> QED
    BY <1>8, <2>2, <2>3, <2>4, <2>5 DEF TablesInv
<1> QED
  BY <1>1, <1>9, <1>10

LEMMA PollFailsInv == TablesInv /\ PollFails => TablesInv'
<1> SUFFICES ASSUME TablesInv, PollFails PROVE TablesInv'
  OBVIOUS
<1>1. /\ cmd.phase = "poll" /\ UNCHANGED dbVars
      /\ IF cmd.tries + 1 = MaxTries
         THEN Exit
         ELSE cmd' = [cmd EXCEPT !.tries = cmd.tries + 1] /\ UNCHANGED <<product, last, calls>>
  BY DEF PollFails, At
<1>2. /\ cmd.name \in {"import", "export"} /\ product = "ydb" /\ cmd.step = 1
      /\ last = NoCommand /\ cmd \in CmdRecords /\ cmd.op \in 1 .. Len(ops)
      /\ calls \in Nat /\ faults' \in 0 .. MaxFaults
  BY <1>1, FaultFacts, TablesAssumption DEF TablesInv, CourseInv, Types, PollFails
<1>3. CASE Exit
  BY <1>1, <1>2, <1>3, ExitSame
<1>4. CASE /\ cmd.tries + 1 # MaxTries /\ cmd' = [cmd EXCEPT !.tries = cmd.tries + 1]
           /\ UNCHANGED <<product, last, calls>>
  <2>1. /\ cmd' \in CmdRecords /\ cmd'.phase = "poll" /\ cmd'.op = cmd.op
        /\ cmd'.name = cmd.name /\ cmd'.step = 1
    <3>1. cmd.tries + 1 \in 0 .. MaxTries - 1
      BY <1>2, <1>4, TablesAssumption DEF CmdRecords
    <3> QED
      BY <1>1, <1>2, <1>4, <3>1 DEF CmdRecords
  <2>2. /\ DbTypes' /\ OpsInv' /\ ops' = ops
        /\ \A t : Complete(t)' = Complete(t)
    BY <1>1, <1>2, <1>4, DbSame DEF dbVars
  <2>3. Types'
    BY <1>2, <1>4, <2>1, <2>2 DEF TablesInv, Types
  <2>4. CourseInv'
    BY <1>2, <1>4, <2>1, <2>2 DEF TablesInv, CourseInv
  <2>5. ImportInv'
    BY <1>1, <1>2, <1>4, <2>1, <2>2, NonePast DEF TablesInv, ImportInv
  <2>6. CreateInv' /\ EnableInv' /\ PostloadInv' /\ MemInv' /\ ValidateInv'
    BY <1>2, <1>4, <2>1, NonePast
       DEF CreateInv, EnableInv, PostloadInv, MemInv, ValidateInv
  <2> QED
    BY <2>2, <2>3, <2>4, <2>5, <2>6 DEF TablesInv
<1> QED
  BY <1>1, <1>3, <1>4

LEMMA PollSucceedsInv == TablesInv /\ PollSucceeds => TablesInv'
<1> SUFFICES ASSUME TablesInv, PollSucceeds PROVE TablesInv'
  OBVIOUS
<1>1. /\ cmd.phase = "poll" /\ UNCHANGED dbVars /\ faults' = faults
      /\ \/ Exit
         \/ Finished(ops[cmd.op]) /\ Goto("forget") /\ UNCHANGED <<product, last, calls>>
         \/ cmd' = [cmd EXCEPT !.tries = 0] /\ UNCHANGED <<product, last, calls>>
  BY DEF PollSucceeds, At
<1>2. /\ cmd.name \in {"import", "export"} /\ product = "ydb" /\ cmd.step = 1
      /\ last = NoCommand /\ cmd \in CmdRecords /\ cmd.op \in 1 .. Len(ops)
      /\ calls \in Nat /\ faults' \in 0 .. MaxFaults
  BY <1>1, TablesAssumption DEF TablesInv, CourseInv, Types
<1>3. CASE Exit
  BY <1>1, <1>2, <1>3, ExitSame
<1>4. CASE /\ \/ Finished(ops[cmd.op]) /\ Goto("forget")
              \/ cmd' = [cmd EXCEPT !.tries = 0]
           /\ UNCHANGED <<product, last, calls>>
  <2>1. /\ cmd' \in CmdRecords /\ cmd'.op = cmd.op
        /\ \/ cmd'.phase = "poll"
           \/ cmd'.phase = "forget" /\ Finished(ops[cmd.op])
        /\ cmd'.name = cmd.name /\ cmd'.step = 1
    <3>1. CASE Finished(ops[cmd.op]) /\ Goto("forget")
      <4>1. "forget" \in Phases
        BY DEF Phases
      <4> QED
        BY <1>2, <3>1, <4>1, GotoFacts
    <3>2. CASE cmd' = [cmd EXCEPT !.tries = 0]
      BY <1>1, <1>2, <3>2, ConstantFacts DEF CmdRecords
    <3> QED
      BY <1>4, <3>1, <3>2
  <2>2. /\ DbTypes' /\ OpsInv' /\ ops' = ops
        /\ \A t : Complete(t)' = Complete(t)
    BY <1>1, <1>2, <1>4, DbSame DEF dbVars
  <2>3. Types'
    BY <1>2, <1>4, <2>1, <2>2 DEF TablesInv, Types
  <2>4. CourseInv'
    BY <1>2, <1>4, <2>1, <2>2 DEF TablesInv, CourseInv
  <2>5. ImportInv'
    <3>1. Finished(ops[cmd.op]) => ops[cmd.op].todo = {}
      BY <1>2 DEF Finished, TablesInv, OpsInv
    <3>2. cmd.name = "import" => \A t \in Tables \ ops[cmd.op].todo : Complete(t)
      BY <1>1 DEF TablesInv, ImportInv
    <3> QED
      BY <1>2, <1>4, <2>1, <2>2, <3>1, <3>2, NonePast DEF ImportInv
  <2>6. CreateInv' /\ EnableInv' /\ PostloadInv' /\ MemInv' /\ ValidateInv'
    BY <1>2, <1>4, <2>1, NonePast
       DEF CreateInv, EnableInv, PostloadInv, MemInv, ValidateInv
  <2> QED
    BY <2>2, <2>3, <2>4, <2>5, <2>6 DEF TablesInv
<1> QED
  BY <1>1, <1>3, <1>4

LEMMA ForgetOpInv == TablesInv /\ ForgetOp => TablesInv'
<1> SUFFICES ASSUME TablesInv, ForgetOp PROVE TablesInv'
  OBVIOUS
<1>1. /\ cmd.phase = "forget" /\ Goto("done")
      /\ ops' = ops \/ ops' = [ops EXCEPT ![cmd.op] = NoOp]
      /\ faults' = faults \/ Fault
      /\ UNCHANGED <<product, tables, indices, mem, alters, last, calls>>
  BY DEF ForgetOp, At
<1>2. /\ cmd.name \in {"import", "export"} /\ product = "ydb"
      /\ last = NoCommand /\ cmd \in CmdRecords /\ cmd.op \in 1 .. Len(ops)
      /\ ops \in Seq(OpRecords) /\ Len(ops) \in Nat
  BY <1>1 DEF TablesInv, CourseInv, Types, DbTypes
<1>3. faults' \in 0 .. MaxFaults
  BY <1>1, FaultFacts DEF TablesInv, Types
<1>4. /\ cmd' \in CmdRecords /\ cmd'.phase = "done" /\ cmd'.step = 1 /\ cmd'.op = cmd.op
      /\ cmd'.name = cmd.name
  <2>1. "done" \in Phases
    BY DEF Phases
  <2> QED
    BY <1>1, <1>2, <2>1, GotoFacts
<1>5. /\ NoOp \in OpRecords /\ NoOp.doing = {} /\ NoOp.todo = {}
  BY DEF NoOp, OpRecords
<1>6. /\ ops' \in Seq(OpRecords) /\ Len(ops') = Len(ops)
      /\ \A i \in 1 .. Len(ops) : ops'[i] = ops[i] \/ ops'[i] = NoOp
  BY <1>1, <1>2, <1>5
<1>7. DbTypes'
  BY <1>1, <1>6 DEF TablesInv, Types, DbTypes
<1>8. OpsInv'
  BY <1>1, <1>2, <1>5, <1>6 DEF TablesInv, OpsInv
<1>9. Types'
  BY <1>1, <1>3, <1>4, <1>7 DEF TablesInv, Types
<1>10. CourseInv'
  BY <1>1, <1>2, <1>4, <1>6 DEF TablesInv, CourseInv
<1>11. ImportInv'
  <2>1. cmd.name = "import" => \A t \in Tables : Complete(t)
    BY <1>1 DEF TablesInv, ImportInv
  <2>2. \A t : Complete(t)' = Complete(t)
    BY <1>1 DEF Complete
  <2> QED
    BY <1>1, <1>2, <1>4, <2>1, <2>2, NonePast DEF ImportInv
<1>12. CreateInv' /\ EnableInv' /\ PostloadInv' /\ MemInv' /\ ValidateInv'
  BY <1>1, <1>2, <1>4, NonePast
     DEF CreateInv, EnableInv, PostloadInv, MemInv, ValidateInv
<1> QED
  BY <1>8, <1>9, <1>10, <1>11, <1>12 DEF TablesInv

-----------------------------------------------------------------------------
(* YDB works on its operations.                                                *)

\* What one turn of an operation may do to a table.
TableMoves(t, i) ==
    \/ tables'[t] = tables[t]
    \/ ~tables[t].exists /\ tables'[t] = Created
    \/ t \in ops[i].doing /\ tables'[t] = [tables[t] EXCEPT !.rows = Parts]

\* What the tables and operations keep while operations go on.
Grown ==
    /\ DbTypes' /\ OpsInv' /\ Len(ops') = Len(ops)
    /\ \A i \in 1 .. Len(ops) :
         \A t \in Tables \ ops'[i].todo : t \notin ops[i].todo \/ Complete(t)'
    /\ \A t \in Tables : /\ Complete(t) => Complete(t)'
                         /\ Fresh(t) => Fresh(t)'
                         /\ CheckHolds(t) => CheckHolds(t)'
                         /\ tables[t].byLoad => tables'[t].byLoad

LEMMA OpMove ==
    ASSUME TablesInv, NEW i \in 1 .. Len(ops), NEW o \in OpRecords,
           ops' = [ops EXCEPT ![i] = o],
           o.doing \subseteq o.todo, o.todo \subseteq ops[i].todo,
           o.progress = "done" => o.todo = {},
           tables' \in [Tables -> TableRecords],
           \A t \in Tables : TableMoves(t, i),
           \A t \in o.doing : t \in ops[i].doing \/ (~tables[t].exists /\ tables'[t] = Created),
           \A t \in ops[i].todo \ o.todo : tables'[t].exists /\ tables'[t].rows = Parts,
           UNCHANGED <<product, indices, mem, alters, calls>>
    PROVE  Grown
<1>1. /\ ops \in Seq(OpRecords) /\ Len(ops) \in Nat /\ Len(ops) >= 1
      /\ tables \in [Tables -> TableRecords]
      /\ indices' = indices /\ mem' = mem /\ alters' = alters /\ calls' = calls
      /\ product' = product
  BY DEF TablesInv, Types, DbTypes
<1>2. /\ ops' \in Seq(OpRecords) /\ Len(ops') = Len(ops) /\ ops'[i] = o
      /\ \A j \in 1 .. Len(ops) : j # i => ops'[j] = ops[j]
      /\ \A j \in 1 .. Len(ops) : ops[j] \in OpRecords
  BY <1>1
<1>3. \A j \in 1 .. Len(ops) : ops[j].todo \subseteq Tables /\ ops[j].doing \subseteq Tables
  BY <1>2 DEF OpRecords
<1>4. \A t \in Tables : tables[t].rows \in SUBSET Parts /\ tables[t] \in TableRecords
  BY <1>1 DEF TableRecords
<1>5. /\ \A t \in Tables : tables[t].exists \/ tables[t] = Absent
      /\ \A j \in 1 .. Len(ops) :
           /\ ops[j].doing \subseteq ops[j].todo
           /\ ops[j].progress = "done" => ops[j].todo = {}
           /\ \A t \in ops[j].doing : tables[t].exists
      /\ product # "postgres"
  BY <1>1 DEF TablesInv, OpsInv
<1>6. Created.exists /\ Created.rows = {} /\ ~Absent.byLoad /\ Absent.rows = {} /\ ~Absent.exists
  BY DEF Created, Absent
<1>7. DbTypes'
  BY <1>1, <1>2 DEF TablesInv, Types, DbTypes
\* How each table may have changed.
<1>8. \A t \in Tables :
        \/ tables'[t] = tables[t]
        \/ /\ ~tables[t].exists /\ tables[t] = Absent /\ tables'[t] = Created
        \/ /\ t \in ops[i].doing /\ tables[t].exists /\ tables'[t].exists
           /\ tables'[t].rows = Parts /\ tables'[t].byLoad = tables[t].byLoad
  <2> SUFFICES ASSUME NEW t \in Tables
               PROVE  \/ tables'[t] = tables[t]
                      \/ /\ ~tables[t].exists /\ tables[t] = Absent /\ tables'[t] = Created
                      \/ /\ t \in ops[i].doing /\ tables[t].exists /\ tables'[t].exists
                         /\ tables'[t].rows = Parts /\ tables'[t].byLoad = tables[t].byLoad
    OBVIOUS
  <2>1. CASE t \in ops[i].doing /\ tables'[t] = [tables[t] EXCEPT !.rows = Parts]
    <3>1. tables[t].exists
      BY <1>5, <2>1
    <3>2. /\ tables'[t].exists = tables[t].exists /\ tables'[t].rows = Parts
          /\ tables'[t].byLoad = tables[t].byLoad
      BY <1>4, <2>1 DEF TableRecords
    <3> QED
      BY <2>1, <3>1, <3>2
  <2> QED
    BY <1>5, <2>1 DEF TableMoves
<1>9. \A t \in Tables : tables[t].exists => tables'[t].exists
  BY <1>8
<1>10. OpsInv'
  <2>1. \A t \in Tables : tables'[t].exists \/ tables'[t] = Absent
    BY <1>5, <1>6, <1>8
  <2>2. \A j \in 1 .. Len(ops') :
          /\ ops'[j].doing \subseteq ops'[j].todo
          /\ ops'[j].progress = "done" => ops'[j].todo = {}
    BY <1>2, <1>5
  <2>3. \A j \in 1 .. Len(ops') : \A t \in ops'[j].doing : tables'[t].exists
    <3>1. SUFFICES ASSUME NEW j \in 1 .. Len(ops'), NEW t \in ops'[j].doing
                   PROVE  tables'[t].exists
      OBVIOUS
    <3>2. CASE j # i
      BY <1>2, <1>3, <1>5, <1>9, <3>1, <3>2
    <3>3. CASE j = i
      <4>1. t \in o.doing /\ t \in Tables
        BY <1>2, <1>3, <3>1, <3>3
      <4> QED
        BY <1>5, <1>6, <1>9, <4>1
    <3> QED
      BY <3>2, <3>3
  <2> QED
    BY <1>1, <1>5, <2>1, <2>2, <2>3 DEF OpsInv
<1>11. \A t \in Tables : Complete(t) => Complete(t)'
  BY <1>8 DEF Complete
<1>12. \A t \in Tables : Fresh(t) => Fresh(t)'
  <2> SUFFICES ASSUME NEW t \in Tables, Fresh(t) PROVE Fresh(t)'
    OBVIOUS
  <2>1. \A j \in 1 .. Len(ops) : t \notin ops[j].doing
    BY <1>1 DEF Fresh, Busy
  <2>2. tables'[t] = tables[t] /\ tables[t].exists
    BY <1>8, <2>1 DEF Fresh
  <2>3. t \notin o.doing
    BY <2>1, <2>2
  <2>4. \A j \in 1 .. Len(ops') : t \notin ops'[j].doing
    BY <1>2, <2>1, <2>3
  <2> QED
    BY <1>2, <2>2, <2>4 DEF Fresh, Busy
<1>13. \A t \in Tables : CheckHolds(t) => CheckHolds(t)'
  <2> SUFFICES ASSUME NEW t \in Tables, CheckHolds(t) PROVE CheckHolds(t)'
    OBVIOUS
  <2>1. tables[t].rows # {} => tables'[t].rows # {}
    BY <1>4, <1>6, <1>8
  <2>2. product # "postgres" /\ product' # "postgres"
    BY <1>1, <1>5
  <2> QED
    BY <1>11, <2>1, <2>2 DEF CheckHolds
<1>14. \A t \in Tables : tables[t].byLoad => tables'[t].byLoad
  BY <1>6, <1>8
<1>15. \A j \in 1 .. Len(ops) :
         \A t \in Tables \ ops'[j].todo : t \notin ops[j].todo \/ Complete(t)'
  BY <1>2 DEF Complete
<1> QED
  BY <1>2, <1>7, <1>10, <1>11, <1>12, <1>13, <1>14, <1>15 DEF Grown

LEMMA OpStepGrown == TablesInv /\ OpStep => Grown
<1> SUFFICES ASSUME TablesInv, OpStep PROVE Grown
  OBVIOUS
<1>1. PICK i \in DOMAIN ops : OpCreatesTable(i) \/ OpFillsTable(i) \/ OpEnds(i)
  BY DEF OpStep
<1>2. /\ ops \in Seq(OpRecords) /\ i \in 1 .. Len(ops) /\ ops[i] \in OpRecords
      /\ tables \in [Tables -> TableRecords]
      /\ UNCHANGED <<product, indices, mem, alters, calls>>
  BY <1>1 DEF TablesInv, Types, DbTypes, OpStep
<1>3. /\ ops[i].doing \subseteq ops[i].todo
      /\ ops[i].progress = "done" => ops[i].todo = {}
      /\ \A t \in ops[i].doing : tables[t].exists
      /\ ops[i].todo \subseteq Tables
  BY <1>2 DEF TablesInv, OpsInv, OpRecords
<1>4. ASSUME UNCHANGED tables
      PROVE  tables' \in [Tables -> TableRecords] /\ \A t \in Tables : TableMoves(t, i)
  BY <1>2, <1>4 DEF TableMoves
<1>5. CASE OpCreatesTable(i)
  <2>1. PICK t \in ops[i].todo \ ops[i].doing :
          IF tables[t].exists
          THEN /\ ops' = [ops EXCEPT ![i].progress = "cancelled", ![i].doing = {}]
               /\ UNCHANGED tables
          ELSE /\ ops' = [ops EXCEPT ![i].doing = @ \cup {t}]
               /\ tables' = [tables EXCEPT ![t] = Created]
    BY <1>5 DEF OpCreatesTable
  <2>2. CASE tables[t].exists
    <3>1. PICK o : o = [ops[i] EXCEPT !.progress = "cancelled", !.doing = {}]
      OBVIOUS
    <3>2. /\ o \in OpRecords /\ o.doing = {} /\ o.todo = ops[i].todo
          /\ o.progress = "cancelled"
      BY <1>2, <3>1 DEF OpRecords
    <3>3. ops' = [ops EXCEPT ![i] = o]
      BY <1>2, <2>1, <2>2, <3>1
    <3> QED
      BY <1>2, <1>4, <2>1, <2>2, <3>2, <3>3, OpMove
  <2>3. CASE ~tables[t].exists
    <3>1. PICK o : o = [ops[i] EXCEPT !.doing = ops[i].doing \cup {t}]
      OBVIOUS
    <3>2. /\ o \in OpRecords /\ o.doing = ops[i].doing \cup {t} /\ o.todo = ops[i].todo
          /\ o.progress = ops[i].progress
      BY <1>2, <1>3, <3>1 DEF OpRecords
    <3>3. ops' = [ops EXCEPT ![i] = o]
      BY <1>2, <2>1, <2>3, <3>1
    <3>4. tables' = [tables EXCEPT ![t] = Created] /\ t \in Tables
      BY <1>3, <2>1, <2>3
    <3>5. Created \in TableRecords
      BY DEF Created, Absent, TableRecords
    <3>6. tables' \in [Tables -> TableRecords] /\ \A u \in Tables : TableMoves(u, i)
      BY <1>2, <2>3, <3>4, <3>5 DEF TableMoves
    <3>7. \A u \in o.doing : u \in ops[i].doing \/ (~tables[u].exists /\ tables'[u] = Created)
      BY <1>2, <2>3, <3>2, <3>4
    <3> QED
      BY <1>2, <1>3, <3>2, <3>3, <3>6, <3>7, OpMove
  <2> QED
    BY <2>2, <2>3
<1>6. CASE OpFillsTable(i)
  <2>1. PICK t \in ops[i].doing :
          /\ tables' = [tables EXCEPT ![t].rows = Parts]
          /\ ops' = [ops EXCEPT ![i].doing = @ \ {t}, ![i].todo = @ \ {t}]
    BY <1>6 DEF OpFillsTable
  <2>2. PICK o : o = [ops[i] EXCEPT !.doing = ops[i].doing \ {t}, !.todo = ops[i].todo \ {t}]
    OBVIOUS
  <2>3. /\ o \in OpRecords /\ o.doing = ops[i].doing \ {t} /\ o.todo = ops[i].todo \ {t}
        /\ o.progress = ops[i].progress
    BY <1>2, <2>2 DEF OpRecords
  <2>4. ops' = [ops EXCEPT ![i] = o]
    BY <1>2, <2>1, <2>2
  <2>5. t \in Tables /\ tables[t].exists /\ tables[t] \in TableRecords
    BY <1>2, <1>3, <2>1
  <2>6. /\ [tables[t] EXCEPT !.rows = Parts] \in TableRecords
        /\ [tables[t] EXCEPT !.rows = Parts].exists = tables[t].exists
        /\ [tables[t] EXCEPT !.rows = Parts].rows = Parts
    BY <2>5 DEF TableRecords
  <2>7. /\ tables'[t] = [tables[t] EXCEPT !.rows = Parts]
        /\ \A u \in Tables : u # t => tables'[u] = tables[u]
        /\ tables' \in [Tables -> TableRecords]
    BY <1>2, <2>1, <2>5, <2>6
  <2>8. \A u \in Tables : TableMoves(u, i)
    BY <2>1, <2>7 DEF TableMoves
  <2>9. \A u \in ops[i].todo \ o.todo : tables'[u].exists /\ tables'[u].rows = Parts
    BY <2>3, <2>5, <2>6, <2>7
  <2>10. /\ o.doing \subseteq o.todo /\ o.todo \subseteq ops[i].todo
         /\ o.progress = "done" => o.todo = {}
         /\ \A u \in o.doing : u \in ops[i].doing
    BY <1>3, <2>3
  <2> QED
    BY <1>2, <2>3, <2>4, <2>7, <2>8, <2>9, <2>10, OpMove
<1>7. CASE OpEnds(i)
  <2>1. /\ ops[i].todo = {} /\ UNCHANGED tables
        /\ \/ ops' = [ops EXCEPT ![i].progress = "done"]
           \/ ops' = [ops EXCEPT ![i].ready = TRUE]
    BY <1>7 DEF OpEnds
  <2>2. PICK o : /\ o \in {[ops[i] EXCEPT !.progress = "done"], [ops[i] EXCEPT !.ready = TRUE]}
                 /\ ops' = [ops EXCEPT ![i] = o]
    BY <1>2, <2>1
  <2>3. o \in OpRecords /\ o.doing = ops[i].doing /\ o.todo = ops[i].todo
    BY <1>2, <2>2 DEF OpRecords
  <2> QED
    BY <1>2, <1>3, <1>4, <2>1, <2>2, <2>3, OpMove
<1> QED
  BY <1>1, <1>5, <1>6, <1>7

LEMMA OpIsCancelledGrown == TablesInv /\ OpIsCancelled => Grown
<1> SUFFICES ASSUME TablesInv, OpIsCancelled PROVE Grown
  OBVIOUS
<1>1. PICK i \in DOMAIN ops :
        ops' = [ops EXCEPT ![i].progress = "cancelled", ![i].doing = {}]
  BY DEF OpIsCancelled
<1>2. /\ ops \in Seq(OpRecords) /\ i \in 1 .. Len(ops) /\ ops[i] \in OpRecords
      /\ tables \in [Tables -> TableRecords] /\ tables' = tables
      /\ UNCHANGED <<product, indices, mem, alters, calls>>
  BY <1>1 DEF TablesInv, Types, DbTypes, OpIsCancelled
<1>3. PICK o : o = [ops[i] EXCEPT !.progress = "cancelled", !.doing = {}]
  OBVIOUS
<1>4. /\ o \in OpRecords /\ o.doing = {} /\ o.todo = ops[i].todo
      /\ o.progress = "cancelled"
  BY <1>2, <1>3 DEF OpRecords
<1>5. ops' = [ops EXCEPT ![i] = o]
  BY <1>1, <1>2, <1>3
<1>6. \A t \in Tables : TableMoves(t, i)
  BY <1>2 DEF TableMoves
<1> QED
  BY <1>2, <1>4, <1>5, <1>6, OpMove

\* Neither undoes what a command has reached.
LEMMA GrownInv ==
    ASSUME TablesInv, Grown, UNCHANGED <<product, indices, mem, alters, cmd, last, calls>>,
           faults' \in 0 .. MaxFaults
    PROVE  TablesInv'
<1>1. /\ cmd' = cmd /\ last' = last /\ calls' = calls /\ product' = product
      /\ indices' = indices /\ mem' = mem /\ alters' = alters
      /\ DbTypes' /\ OpsInv' /\ Len(ops') = Len(ops)
  BY DEF Grown
<1>2. \A t \in Tables : /\ Complete(t) => Complete(t)'
                        /\ Fresh(t) => Fresh(t)'
                        /\ CheckHolds(t) => CheckHolds(t)'
                        /\ tables[t].byLoad => tables'[t].byLoad
  BY DEF Grown
<1>3. Types'
  BY <1>1 DEF TablesInv, Types
<1>4. CourseInv'
  BY <1>1 DEF TablesInv, CourseInv
<1>5. \A name : Past(name)' = Past(name)
  BY <1>1 DEF Past
<1>6. ImportInv'
  <2>1. cmd.name = "import" /\ cmd.phase = "poll" =>
          \A t \in Tables \ ops'[cmd.op].todo : Complete(t)'
    <3>1. SUFFICES ASSUME cmd.name = "import", cmd.phase = "poll",
                          NEW t \in Tables \ ops'[cmd.op].todo
                   PROVE  Complete(t)'
      OBVIOUS
    <3>2. cmd.op \in 1 .. Len(ops)
      BY <3>1 DEF TablesInv, CourseInv
    <3>3. t \notin ops[cmd.op].todo \/ Complete(t)'
      BY <3>1, <3>2 DEF Grown
    <3> QED
      BY <1>2, <3>1, <3>3 DEF TablesInv, ImportInv
  <2> QED
    BY <1>1, <1>2, <1>5, <2>1 DEF TablesInv, ImportInv
<1>7. CreateInv'
  <2>1. cmd.phase = "create" => \A j \in 1 .. cmd.step - 1 : CreateOrder[j] \in Tables
    <3>1. cmd.phase = "create" => cmd.step \in 1 .. Len(DropOrder)
      BY DEF TablesInv, CourseInv
    <3> QED
      BY <3>1, ConstantFacts
  <2>2. cmd.phase = "create" => \A j \in 1 .. cmd.step - 1 : Fresh(CreateOrder[j])'
    <3>1. SUFFICES ASSUME cmd.phase = "create", NEW j \in 1 .. cmd.step - 1
                   PROVE  Fresh(CreateOrder[j])'
      OBVIOUS
    <3>2. PICK t \in Tables : t = CreateOrder[j]
      BY <2>1, <3>1
    <3> QED
      BY <1>2, <3>1, <3>2 DEF TablesInv, CreateInv
  <2> QED
    BY <1>1, <1>2, <1>5, <2>2 DEF TablesInv, CreateInv
<1>8. EnableInv'
  <2>1. \A t \in Tables : Handled(t) => Handled(t)'
    BY <1>1, <1>2 DEF Handled
  <2>2. cmd.phase = "alter" => \A j \in 1 .. cmd.step - 1 : Handled(DropOrder[j])'
    <3>1. SUFFICES ASSUME cmd.phase = "alter", NEW j \in 1 .. cmd.step - 1
                   PROVE  Handled(DropOrder[j])'
      OBVIOUS
    <3>2. j \in 1 .. Len(DropOrder)
      <4>1. cmd.step \in 1 .. Len(DropOrder)
        BY <3>1 DEF TablesInv, CourseInv
      <4> QED
        BY <3>1, <4>1, ConstantFacts
    <3>3. PICK t \in Tables : t = DropOrder[j]
      BY <3>2, ConstantFacts
    <3> QED
      BY <2>1, <3>1, <3>3 DEF TablesInv, EnableInv
  <2> QED
    BY <1>1, <1>2, <1>5, <2>1, <2>2 DEF TablesInv, EnableInv
<1>9. PostloadInv'
  BY <1>1, <1>5 DEF TablesInv, PostloadInv
<1>10. MemInv'
  BY <1>1, <1>5 DEF TablesInv, MemInv
<1>11. ValidateInv'
  <2>1. Checks' = Checks /\ Checks \subseteq Tables
    BY <1>1 DEF Checks
  <2> QED
    BY <1>1, <1>2, <1>5, <2>1 DEF TablesInv, ValidateInv
<1> QED
  BY <1>1, <1>3, <1>4, <1>6, <1>7, <1>8, <1>9, <1>10, <1>11 DEF TablesInv

LEMMA OpStepInv == TablesInv /\ (OpStep \/ OpIsCancelled) => TablesInv'
<1> SUFFICES ASSUME TablesInv, OpStep \/ OpIsCancelled PROVE TablesInv'
  OBVIOUS
<1>1. /\ UNCHANGED <<product, indices, mem, alters, cmd, last, calls>>
      /\ faults' = faults \/ Fault
  BY DEF OpStep, OpIsCancelled
<1>2. faults' \in 0 .. MaxFaults
  BY <1>1, FaultFacts DEF TablesInv, Types
<1> QED
  BY <1>1, <1>2, OpStepGrown, OpIsCancelledGrown, GrownInv

-----------------------------------------------------------------------------
(* YDB: enable-split-by-load.                                                  *)

\* A request under way and its answer leave the rows of the tables as they are.
LEMMA AlterDb ==
    ASSUME TablesInv, product = "ydb", tables' \in [Tables -> TableRecords],
           \A t \in Tables : /\ tables'[t].exists = tables[t].exists
                             /\ tables'[t].rows = tables[t].rows
                             /\ tables'[t] = tables[t] \/ tables[t].exists,
           alters' \in SUBSET [table: Tables, call: 0 .. calls],
           UNCHANGED <<product, indices, mem, ops, calls>>
    PROVE  /\ DbTypes' /\ OpsInv' /\ Checks' = Checks /\ Checks \subseteq Tables
           /\ \A t \in Tables : /\ Complete(t)' = Complete(t) /\ Fresh(t)' = Fresh(t)
                                /\ CheckHolds(t)' = CheckHolds(t)
<1>1. /\ indices' = indices /\ mem' = mem /\ ops' = ops /\ calls' = calls
      /\ product' = product /\ Len(ops) \in Nat /\ ops \in Seq(OpRecords)
  BY DEF TablesInv, Types, DbTypes
<1>2. DbTypes'
  BY <1>1 DEF TablesInv, Types, DbTypes
<1>3. \A i \in 1 .. Len(ops) : ops[i].doing \subseteq Tables
  <2>1. \A i \in 1 .. Len(ops) : ops[i] \in OpRecords
    BY <1>1
  <2> QED
    BY <2>1 DEF OpRecords
<1>4. \A i \in 1 .. Len(ops) : \A t \in ops[i].doing : tables'[t].exists
  BY <1>3 DEF TablesInv, OpsInv
<1>5. \A t \in Tables : tables'[t].exists \/ tables'[t] = Absent
  BY DEF TablesInv, OpsInv
<1>6. OpsInv'
  BY <1>1, <1>4, <1>5 DEF TablesInv, OpsInv
<1>7. \A t \in Tables : Complete(t)' = Complete(t) /\ Busy(t)' = Busy(t)
  BY <1>1 DEF Complete, Busy
<1>8. \A t \in Tables : Fresh(t)' = Fresh(t) /\ CheckHolds(t)' = CheckHolds(t)
  <2>1. \A t \in Tables : WarehousesOf(t)' = WarehousesOf(t)
    BY DEF WarehousesOf
  <2> QED
    BY <1>1, <1>7, <2>1 DEF Fresh, CheckHolds
<1>9. Checks' = Checks /\ Checks \subseteq Tables
  BY <1>1 DEF Checks
<1> QED
  BY <1>2, <1>6, <1>7, <1>8, <1>9

LEMMA SendAlterInv == TablesInv /\ SendAlter => TablesInv'
<1> SUFFICES ASSUME TablesInv, SendAlter PROVE TablesInv'
  OBVIOUS
<1>0. PICK t : t = DropOrder[cmd.step]
  OBVIOUS
<1>1. /\ cmd.phase = "alter" /\ tables' = tables /\ indices' = indices /\ mem' = mem
      /\ ops' = ops
      /\ \/ /\ alters' = alters \cup {[table |-> t, call |-> calls]}
            /\ Advance(Len(DropOrder), "wait") /\ UNCHANGED <<product, last, calls, faults>>
         \/ alters' = alters /\ Fault /\ Exit
  BY <1>0 DEF SendAlter, At, NoFault
<1>2. /\ cmd.name = "enable" /\ product = "ydb" /\ calls \in Nat
      /\ cmd.step \in 1 .. Len(DropOrder) /\ last = NoCommand
      /\ cmd \in CmdRecords /\ t \in Tables /\ Len(DropOrder) \in Nat
      /\ tables \in [Tables -> TableRecords]
      /\ alters \in SUBSET [table: Tables, call: 0 .. calls]
  <2>1. cmd.step \in 1 .. Len(DropOrder)
    BY <1>1 DEF TablesInv, CourseInv
  <2>2. t \in Tables
    BY <1>0, <2>1, ConstantFacts
  <2>3. cmd.name = "enable" /\ product = "ydb" /\ last = NoCommand
    BY <1>1 DEF TablesInv, CourseInv
  <2>4. /\ cmd \in CmdRecords /\ tables \in [Tables -> TableRecords]
        /\ alters \in SUBSET [table: Tables, call: 0 .. calls] /\ calls \in Nat
    BY TablesAssumption DEF TablesInv, Types, DbTypes
  <2> QED
    BY <2>1, <2>2, <2>3, <2>4, ConstantFacts
<1>3. CASE alters' = alters /\ Fault /\ Exit
  <2>1. UNCHANGED dbVars /\ faults' \in 0 .. MaxFaults
    BY <1>1, <1>3, FaultFacts DEF dbVars, TablesInv
  <2> QED
    BY <1>3, <2>1, ExitSame
<1>4. CASE /\ alters' = alters \cup {[table |-> t, call |-> calls]}
           /\ Advance(Len(DropOrder), "wait") /\ UNCHANGED <<product, last, calls, faults>>
  <2>1. [table |-> t, call |-> calls] \in [table: Tables, call: 0 .. calls]
    BY <1>2
  <2>2. DbTypes' /\ OpsInv'
    BY <1>1, <1>2, <1>4, <2>1, AlterDb
  <2>3. /\ cmd' \in CmdRecords /\ cmd'.name = "enable" /\ cmd'.op = cmd.op
        /\ cmd'.bad = cmd.bad
        /\ \/ /\ cmd.step < Len(DropOrder)
              /\ cmd'.phase = "alter" /\ cmd'.step = cmd.step + 1
           \/ /\ cmd.step = Len(DropOrder)
              /\ cmd'.phase = "wait" /\ cmd'.step = 1
    <3>1. "wait" \in Phases
      BY DEF Phases
    <3> QED
      BY <1>1, <1>2, <1>4, <3>1, AdvanceFacts
  <2>4. Handled(t)' /\ \A u : Handled(u) => Handled(u)'
    BY <1>1, <1>4, <2>3 DEF Handled
  <2>5. \A j \in 1 .. cmd.step : Handled(DropOrder[j])'
    <3>1. SUFFICES ASSUME NEW j \in 1 .. cmd.step PROVE Handled(DropOrder[j])'
      OBVIOUS
    <3>2. CASE j = cmd.step
      BY <1>0, <2>4, <3>2
    <3>3. CASE j # cmd.step
      <4>1. j \in 1 .. cmd.step - 1
        BY <1>2, <3>3
      <4>2. Handled(DropOrder[j])
        BY <1>1, <4>1 DEF TablesInv, EnableInv
      <4> QED
        BY <2>4, <4>2
    <3> QED
      BY <3>2, <3>3
  <2>6. cmd.step = Len(DropOrder) => \A u \in Tables : Handled(u)'
    BY <2>5, ConstantFacts
  <2>7. Types'
    BY <1>4, <2>2, <2>3 DEF TablesInv, Types
  <2>8. CourseInv'
    <3>1. cmd'.op \in 0 .. Len(ops') /\ last' = NoCommand /\ product' = "ydb"
      BY <1>1, <1>2, <1>4, <2>3 DEF TablesInv, CourseInv
    <3>2. \/ cmd'.phase = "wait" /\ cmd'.step = 1
          \/ cmd'.phase = "alter" /\ cmd'.step \in 1 .. Len(DropOrder)
      BY <1>2, <2>3
    <3> QED
      BY <2>3, <3>1, <3>2 DEF CourseInv
  <2>9. EnableInv'
    BY <1>2, <1>4, <2>3, <2>5, <2>6, NonePast DEF EnableInv
  <2>10. ImportInv' /\ CreateInv' /\ PostloadInv' /\ MemInv' /\ ValidateInv'
    BY <1>2, <1>4, <2>3, NonePast
       DEF ImportInv, CreateInv, PostloadInv, MemInv, ValidateInv
  <2> QED
    BY <2>2, <2>7, <2>8, <2>9, <2>10 DEF TablesInv
<1> QED
  BY <1>1, <1>3, <1>4

\* An answer may come while any command runs, and concerns the command that asked.
LEMMA AlterStepInv == TablesInv /\ AlterStep => TablesInv'
<1> SUFFICES ASSUME TablesInv, NEW r \in alters, Alter(r) PROVE TablesInv'
  BY DEF AlterStep
<1>1. /\ indices' = indices /\ mem' = mem /\ ops' = ops /\ last' = last /\ calls' = calls
      /\ product' = product
      /\ \/ /\ tables[r.table].exists
            /\ tables' = [tables EXCEPT ![r.table].byLoad = TRUE]
            /\ Answered(r, TRUE)
         \/ tables' = tables /\ Answered(r, FALSE)
      /\ faults' = faults \/ Fault
  BY DEF Alter
<1>2. /\ tables \in [Tables -> TableRecords] /\ cmd \in CmdRecords
      /\ alters \in SUBSET [table: Tables, call: 0 .. calls] /\ alters' = alters \ {r}
      /\ r.table \in Tables /\ faults' \in 0 .. MaxFaults
      /\ r = [table |-> r.table, call |-> r.call]
  BY <1>1, FaultFacts DEF TablesInv, Types, DbTypes, Answered
<1>3. product = "ydb"
  BY DEF TablesInv, Types, OpsInv
<1>4. /\ tables' \in [Tables -> TableRecords]
      /\ \A t \in Tables : /\ tables'[t].exists = tables[t].exists
                           /\ tables'[t].rows = tables[t].rows
                           /\ tables'[t] = tables[t] \/ tables[t].exists
                           /\ tables[t].byLoad => tables'[t].byLoad
      /\ tables' = [tables EXCEPT ![r.table].byLoad = TRUE] => tables'[r.table].byLoad
  <2>1. CASE tables' = tables
    <3>1. tables' = [tables EXCEPT ![r.table].byLoad = TRUE] => tables'[r.table].byLoad
      <4>1. tables[r.table] \in TableRecords
        BY <1>2
      <4>2. [tables[r.table] EXCEPT !.byLoad = TRUE].byLoad
        BY <4>1 DEF TableRecords
      <4> QED
        BY <1>2, <4>2
    <3> QED
      BY <1>2, <2>1, <3>1
  <2>2. CASE tables[r.table].exists /\ tables' = [tables EXCEPT ![r.table].byLoad = TRUE]
    <3>1. PICK o : o = [tables[r.table] EXCEPT !.byLoad = TRUE]
      OBVIOUS
    <3>2. /\ o \in TableRecords /\ o.byLoad /\ o.exists = tables[r.table].exists
          /\ o.rows = tables[r.table].rows
      <4>1. tables[r.table] \in TableRecords
        BY <1>2
      <4> QED
        BY <3>1, <4>1 DEF TableRecords
    <3>3. tables' = [tables EXCEPT ![r.table] = o]
      BY <1>2, <2>2, <3>1
    <3> QED
      BY <1>2, <2>2, <3>2, <3>3
  <2> QED
    BY <1>1, <2>1, <2>2
<1>5. /\ DbTypes' /\ OpsInv' /\ Checks' = Checks /\ Checks \subseteq Tables
      /\ \A t \in Tables : /\ Complete(t)' = Complete(t) /\ Fresh(t)' = Fresh(t)
                           /\ CheckHolds(t)' = CheckHolds(t)
  <2>1. alters' \in SUBSET [table: Tables, call: 0 .. calls]
    BY <1>2
  <2> QED
    BY <1>1, <1>3, <1>4, <2>1, AlterDb
\* Of the command only bad changes, and only that of enable-split-by-load.
<1>6. /\ cmd' \in CmdRecords /\ cmd'.name = cmd.name /\ cmd'.phase = cmd.phase
      /\ cmd'.step = cmd.step /\ cmd'.op = cmd.op /\ cmd'.saved = cmd.saved
      /\ cmd'.before = cmd.before /\ cmd'.pending = cmd.pending
      /\ cmd.bad \subseteq cmd'.bad
      /\ cmd.name # "enable" => cmd' = cmd
  <2>1. cmd' = cmd \/ (cmd.name = "enable" /\ cmd' = [cmd EXCEPT !.bad = cmd.bad \cup {r.table}])
    BY <1>1 DEF Answered
  <2> QED
    BY <1>2, <2>1 DEF CmdRecords
<1>7. ASSUME cmd.name = "enable", NEW t \in Tables, Handled(t) PROVE Handled(t)'
  <2>1. CASE tables[t].byLoad \/ t \in cmd.bad
    BY <1>4, <1>6, <2>1 DEF Handled
  <2>2. CASE [table |-> t, call |-> calls] \in alters
    <3>1. CASE r # [table |-> t, call |-> calls]
      BY <1>1, <1>2, <2>2, <3>1 DEF Handled
    <3>2. CASE r = [table |-> t, call |-> calls]
      <4>1. r.table = t /\ r.call = calls
        BY <3>2
      <4>2. CASE tables' = [tables EXCEPT ![r.table].byLoad = TRUE]
        BY <1>4, <4>1, <4>2 DEF Handled
      <4>3. CASE Answered(r, FALSE)
        <5>1. cmd' = [cmd EXCEPT !.bad = cmd.bad \cup {r.table}]
          BY <1>7, <4>1, <4>3 DEF Answered
        <5>2. t \in cmd'.bad
          BY <1>2, <4>1, <5>1 DEF CmdRecords
        <5> QED
          BY <5>2 DEF Handled
      <4> QED
        BY <1>1, <4>2, <4>3
    <3> QED
      BY <3>1, <3>2
  <2> QED
    BY <1>7, <2>1, <2>2 DEF Handled
<1>8. Types'
  BY <1>1, <1>2, <1>5, <1>6 DEF TablesInv, Types
<1>9. CourseInv'
  <2>1. cmd.phase = "none" => cmd' = cmd
    BY <1>6, IdleFacts DEF TablesInv, CourseInv
  <2> QED
    BY <1>1, <1>6, <2>1 DEF TablesInv, CourseInv
<1>10. \A name : Past(name)' = Past(name)
  BY <1>1 DEF Past
<1>11. ImportInv'
  <2>1. \A t \in Tables : Complete(t)' = Complete(t)
    BY <1>5
  <2> QED
    BY <1>1, <1>6, <1>10, <2>1 DEF TablesInv, ImportInv
<1>12. CreateInv'
  <2>1. ASSUME cmd.phase = "create", NEW j \in 1 .. cmd.step - 1
        PROVE  Fresh(CreateOrder[j])'
    <3>1. cmd.step \in 1 .. Len(DropOrder)
      BY <2>1 DEF TablesInv, CourseInv
    <3>2. j \in 1 .. Len(DropOrder)
      BY <3>1, ConstantFacts
    <3>3. PICK t \in Tables : t = CreateOrder[j]
      BY <3>2, ConstantFacts
    <3> QED
      BY <1>5, <2>1, <3>3 DEF TablesInv, CreateInv
  <2>2. \A t \in Tables : Fresh(t)' = Fresh(t)
    BY <1>5
  <2> QED
    BY <1>6, <1>10, <2>1, <2>2 DEF TablesInv, CreateInv
<1>13. EnableInv'
  <2>1. ASSUME cmd.phase = "alter", NEW j \in 1 .. cmd.step - 1
        PROVE  Handled(DropOrder[j])'
    <3>1. cmd.step \in 1 .. Len(DropOrder) /\ cmd.name = "enable"
      BY <2>1 DEF TablesInv, CourseInv
    <3>2. j \in 1 .. Len(DropOrder)
      BY <3>1, ConstantFacts
    <3>3. PICK t \in Tables : t = DropOrder[j]
      BY <3>2, ConstantFacts
    <3> QED
      BY <1>7, <2>1, <3>1, <3>3 DEF TablesInv, EnableInv
  <2>2. cmd.phase = "wait" => \A t \in Tables : Handled(t)'
    BY <1>7 DEF TablesInv, CourseInv, EnableInv
  <2> QED
    BY <1>4, <1>6, <1>10, <2>1, <2>2 DEF TablesInv, EnableInv
<1>14. PostloadInv'
  <2>1. cmd.phase = "index" => cmd' = cmd
    BY <1>6 DEF TablesInv, CourseInv
  <2> QED
    BY <1>1, <1>6, <1>10, <2>1 DEF TablesInv, PostloadInv
<1>15. MemInv'
  BY <1>1, <1>6, <1>10 DEF TablesInv, MemInv
<1>16. ValidateInv'
  BY <1>1, <1>5, <1>6, <1>10 DEF TablesInv, ValidateInv
<1> QED
  BY <1>5, <1>8, <1>9, <1>11, <1>12, <1>13, <1>14, <1>15, <1>16 DEF TablesInv

LEMMA WaitAltersInv == TablesInv /\ WaitAlters => TablesInv'
<1> SUFFICES ASSUME TablesInv, WaitAlters PROVE TablesInv'
  OBVIOUS
<1>1. /\ cmd.phase = "wait" /\ UNCHANGED dbVars /\ faults' = faults
      /\ \A r \in alters : r.call # calls
      /\ \/ Exit
         \/ cmd.bad = {} /\ Goto("done") /\ UNCHANGED <<product, last, calls>>
  BY DEF WaitAlters, At
<1>2. /\ cmd.name = "enable" /\ product = "ydb" /\ last = NoCommand /\ cmd \in CmdRecords
      /\ calls \in Nat /\ faults' \in 0 .. MaxFaults
  BY <1>1, TablesAssumption DEF TablesInv, CourseInv, Types
<1>3. CASE Exit
  BY <1>1, <1>2, <1>3, ExitSame
<1>4. CASE cmd.bad = {} /\ Goto("done") /\ UNCHANGED <<product, last, calls>>
  <2>1. /\ cmd' \in CmdRecords /\ cmd'.phase = "done" /\ cmd'.op = cmd.op
        /\ cmd'.name = "enable" /\ cmd'.step = 1
    <3>1. "done" \in Phases
      BY DEF Phases
    <3> QED
      BY <1>2, <1>4, <3>1, GotoFacts
  <2>2. DbTypes' /\ OpsInv' /\ ops' = ops /\ tables' = tables
    BY <1>1, <1>2, <1>4, DbSame DEF dbVars
  <2>3. \A t \in Tables : tables[t].byLoad
    <3>1. SUFFICES ASSUME NEW t \in Tables PROVE tables[t].byLoad
      OBVIOUS
    <3>2. Handled(t)
      BY <1>1 DEF TablesInv, EnableInv
    <3>3. [table |-> t, call |-> calls] \notin alters
      BY <1>1
    <3> QED
      BY <1>4, <3>2, <3>3 DEF Handled
  <2>4. Types'
    BY <1>2, <1>4, <2>1, <2>2 DEF TablesInv, Types
  <2>5. CourseInv'
    BY <1>2, <1>4, <2>1, <2>2 DEF TablesInv, CourseInv
  <2>6. EnableInv'
    BY <1>2, <1>4, <2>1, <2>2, <2>3, NonePast DEF EnableInv
  <2>7. ImportInv' /\ CreateInv' /\ PostloadInv' /\ MemInv' /\ ValidateInv'
    BY <1>2, <1>4, <2>1, NonePast
       DEF ImportInv, CreateInv, PostloadInv, MemInv, ValidateInv
  <2> QED
    BY <2>2, <2>4, <2>5, <2>6, <2>7 DEF TablesInv
<1> QED
  BY <1>1, <1>3, <1>4

-----------------------------------------------------------------------------
(* PostgreSQL: drop, create, postload, vacuum-analyze.                         *)

\* A script runs on a database without operations.
LEMMA ScriptDb ==
    ASSUME TablesInv, product = "postgres", NEW new \in {Absent, Created},
           tables' = tables \/ tables' = [t \in Tables |-> new],
           indices' = indices \/ indices' = {},
           UNCHANGED <<mem, ops, alters, product, calls>>
    PROVE  /\ DbTypes' /\ OpsInv'
           /\ tables' = [t \in Tables |-> Created] => \A t \in Tables : Fresh(t)'
<1>1. /\ tables \in [Tables -> TableRecords] /\ mem' = mem /\ ops' = ops
      /\ alters' = alters /\ product' = product /\ calls' = calls
      /\ ops = <<>> /\ alters = {}
  BY DEF TablesInv, Types, DbTypes, OpsInv
<1>2. new \in TableRecords /\ (new.exists \/ new = Absent)
  <2>1. Absent \in TableRecords
    BY DEF Absent, TableRecords
  <2>2. Created \in TableRecords /\ Created.exists
    BY DEF Created, Absent, TableRecords
  <2> QED
    BY <2>1, <2>2
<1>3. tables' \in [Tables -> TableRecords]
  BY <1>1, <1>2
<1>4. DbTypes'
  BY <1>1, <1>3 DEF TablesInv, Types, DbTypes
<1>5. \A t \in Tables : tables'[t].exists \/ tables'[t] = Absent
  BY <1>2 DEF TablesInv, OpsInv
<1>6. OpsInv'
  BY <1>1, <1>5 DEF OpsInv
<1>7. tables' = [t \in Tables |-> Created] => \A t \in Tables : Fresh(t)'
  BY <1>1 DEF Fresh, Busy, Created, Absent
<1> QED
  BY <1>4, <1>6, <1>7

LEMMA DropAllInv == TablesInv /\ DropAll => TablesInv'
<1> SUFFICES ASSUME TablesInv, DropAll PROVE TablesInv'
  OBVIOUS
<1>1. PICK next : next = IF cmd.name = "create" THEN "ddl_create" ELSE "done"
  OBVIOUS
<1>2. /\ cmd.phase = "ddl_drop" /\ UNCHANGED <<mem, ops, alters>>
      /\ \/ /\ tables' = [t \in Tables |-> Absent] /\ indices' = {}
            /\ Goto(next) /\ UNCHANGED <<product, last, calls, faults>>
         \/ /\ Fault /\ Exit
            /\ \/ tables' = [t \in Tables |-> Absent] /\ indices' = {}
               \/ tables' = tables /\ indices' = indices
  BY <1>1 DEF DropAll, Script, At, NoFault
<1>3. /\ cmd.name \in {"drop", "create"} /\ product = "postgres" /\ last = NoCommand
      /\ cmd \in CmdRecords /\ faults' \in 0 .. MaxFaults
      /\ product' = product /\ calls' = calls
  BY <1>2, FaultFacts DEF TablesInv, CourseInv, Types, Exit
<1>4. DbTypes' /\ OpsInv'
  <2>1. PICK new : new = Absent
    OBVIOUS
  <2> QED
    BY <1>2, <1>3, <2>1, ScriptDb
<1>5. CASE Exit
  BY <1>3, <1>4, <1>5, ExitInv
<1>6. CASE Goto(next) /\ UNCHANGED <<product, last, calls, faults>>
  <2>1. /\ next \in Phases
        /\ (next = "done" /\ cmd.name = "drop") \/ (next = "ddl_create" /\ cmd.name = "create")
    BY <1>1, <1>3 DEF Phases
  <2>2. /\ cmd' \in CmdRecords /\ cmd'.phase = next /\ cmd'.op = cmd.op
        /\ cmd'.name = cmd.name /\ cmd'.step = 1
    BY <1>3, <1>6, <2>1, GotoFacts
  <2>3. Types'
    BY <1>3, <1>4, <1>6, <2>2 DEF TablesInv, Types
  <2>4. CourseInv'
    BY <1>2, <1>3, <1>6, <2>1, <2>2 DEF TablesInv, CourseInv
  <2>5. ImportInv' /\ CreateInv' /\ EnableInv' /\ PostloadInv' /\ MemInv' /\ ValidateInv'
    BY <1>3, <1>6, <2>1, <2>2, NonePast
       DEF ImportInv, CreateInv, EnableInv, PostloadInv, MemInv, ValidateInv
  <2> QED
    BY <1>4, <2>3, <2>4, <2>5 DEF TablesInv
<1> QED
  BY <1>2, <1>5, <1>6

LEMMA CreateAllInv == TablesInv /\ CreateAll => TablesInv'
<1> SUFFICES ASSUME TablesInv, CreateAll PROVE TablesInv'
  OBVIOUS
<1>1. /\ cmd.phase = "ddl_create" /\ UNCHANGED <<mem, ops, alters>>
      /\ \/ /\ tables' = [t \in Tables |-> Created] /\ indices' = {}
            /\ Goto("done") /\ UNCHANGED <<product, last, calls, faults>>
         \/ /\ Fault /\ Exit
            /\ \/ tables' = [t \in Tables |-> Created] /\ indices' = {}
               \/ tables' = tables /\ indices' = indices
  BY DEF CreateAll, Script, At, NoFault
<1>2. /\ cmd.name = "create" /\ product = "postgres" /\ last = NoCommand
      /\ cmd \in CmdRecords /\ faults' \in 0 .. MaxFaults
      /\ product' = product /\ calls' = calls
  BY <1>1, FaultFacts DEF TablesInv, CourseInv, Types, Exit
<1>3. DbTypes' /\ OpsInv' /\ (tables' = [t \in Tables |-> Created] => \A t \in Tables : Fresh(t)')
  <2>1. PICK new : new = Created
    OBVIOUS
  <2> QED
    BY <1>1, <1>2, <2>1, ScriptDb
<1>4. CASE Exit
  BY <1>2, <1>3, <1>4, ExitInv
<1>5. CASE /\ tables' = [t \in Tables |-> Created] /\ Goto("done")
           /\ UNCHANGED <<product, last, calls, faults>>
  <2>1. /\ cmd' \in CmdRecords /\ cmd'.phase = "done" /\ cmd'.op = cmd.op
        /\ cmd'.name = "create" /\ cmd'.step = 1
    <3>1. "done" \in Phases
      BY DEF Phases
    <3> QED
      BY <1>2, <1>5, <3>1, GotoFacts
  <2>2. Types'
    BY <1>2, <1>3, <1>5, <2>1 DEF TablesInv, Types
  <2>3. CourseInv'
    BY <1>1, <1>2, <1>5, <2>1 DEF TablesInv, CourseInv
  <2>4. CreateInv'
    BY <1>2, <1>3, <1>5, <2>1, NonePast DEF CreateInv
  <2>5. ImportInv' /\ EnableInv' /\ PostloadInv' /\ MemInv' /\ ValidateInv'
    BY <1>2, <1>5, <2>1, NonePast
       DEF ImportInv, EnableInv, PostloadInv, MemInv, ValidateInv
  <2> QED
    BY <1>3, <2>2, <2>3, <2>4, <2>5 DEF TablesInv
<1> QED
  BY <1>1, <1>4, <1>5

\* What the maintenance commands change is not the tables.
LEMMA SettingsDb ==
    ASSUME TablesInv, mem' \in Settings, indices' \in SUBSET {1, 2},
           UNCHANGED <<tables, ops, alters, product, calls>>
    PROVE  DbTypes' /\ OpsInv'
<1>1. DbTypes'
  BY DEF TablesInv, Types, DbTypes
<1>2. OpsInv'
  BY DEF TablesInv, OpsInv
<1> QED
  BY <1>1, <1>2

LEMMA ReadMemInv == TablesInv /\ ReadMem => TablesInv'
<1> SUFFICES ASSUME TablesInv, ReadMem PROVE TablesInv'
  OBVIOUS
<1>1. /\ cmd.phase = "read" /\ UNCHANGED dbVars
      /\ \/ /\ cmd' = [cmd EXCEPT !.phase = "set", !.saved = mem]
            /\ UNCHANGED <<product, last, calls, faults>>
         \/ Goto(Work) /\ UNCHANGED <<product, last, calls, faults>>
         \/ Fault /\ Exit
  BY DEF ReadMem, At, NoFault
<1>2. /\ cmd.name \in {"postload", "vacuum"} /\ last = NoCommand /\ cmd.step = 1
      /\ cmd \in CmdRecords /\ faults' \in 0 .. MaxFaults /\ calls \in Nat
      /\ mem \in Settings /\ mem' = mem /\ ops' = ops /\ mem = cmd.before
  BY <1>1, FaultFacts, TablesAssumption DEF TablesInv, CourseInv, Types, DbTypes, dbVars, MemInv
<1>3. CASE Exit
  BY <1>1, <1>2, <1>3, ExitSame
<1>4. CASE /\ cmd' = [cmd EXCEPT !.phase = "set", !.saved = mem]
           /\ UNCHANGED <<product, last, calls, faults>>
  <2>1. /\ cmd' \in CmdRecords /\ cmd'.phase = "set" /\ cmd'.saved = mem /\ cmd'.op = cmd.op
        /\ cmd'.name = cmd.name /\ cmd'.step = 1 /\ cmd'.before = cmd.before
    <3>1. "set" \in Phases
      BY DEF Phases
    <3> QED
      BY <1>2, <1>4, <3>1 DEF CmdRecords
  <2>2. DbTypes' /\ OpsInv'
    BY <1>1, <1>2, <1>4, DbSame
  <2>3. Types'
    BY <1>2, <1>4, <2>1, <2>2 DEF TablesInv, Types
  <2>4. CourseInv'
    BY <1>2, <1>4, <2>1 DEF TablesInv, CourseInv
  <2>5. MemInv'
    BY <1>2, <1>4, <2>1, NonePast DEF MemInv
  <2>6. ImportInv' /\ CreateInv' /\ EnableInv' /\ PostloadInv' /\ ValidateInv'
    BY <1>2, <1>4, <2>1, NonePast
       DEF ImportInv, CreateInv, EnableInv, PostloadInv, ValidateInv
  <2> QED
    BY <2>2, <2>3, <2>4, <2>5, <2>6 DEF TablesInv
<1>5. CASE Goto(Work) /\ UNCHANGED <<product, last, calls, faults>>
  <2>1. /\ Work \in Phases
        /\ \/ Work = "index" /\ cmd.name = "postload"
           \/ Work = "vacuum" /\ cmd.name = "vacuum"
    BY <1>2 DEF Work, Phases
  <2>2. /\ cmd' \in CmdRecords /\ cmd'.phase = Work /\ cmd'.op = cmd.op
        /\ cmd'.name = cmd.name /\ cmd'.step = 1 /\ cmd'.before = cmd.before
        /\ cmd'.saved = cmd.saved
    BY <1>2, <1>5, <2>1, GotoFacts
  <2>3. cmd.saved = "none"
    BY <1>1 DEF TablesInv, CourseInv
  <2>4. DbTypes' /\ OpsInv'
    BY <1>1, <1>2, <1>5, DbSame
  <2>5. Types'
    BY <1>2, <1>5, <2>2, <2>4 DEF TablesInv, Types
  <2>6. CourseInv'
    <3>1. cmd'.op \in 0 .. Len(ops')
      BY <1>2, <2>2 DEF TablesInv, CourseInv
    <3> QED
      BY <1>2, <1>5, <2>1, <2>2, <3>1 DEF CourseInv
  <2>7. MemInv' /\ PostloadInv'
    BY <1>2, <1>5, <2>1, <2>2, <2>3, NonePast DEF MemInv, PostloadInv
  <2>8. ImportInv' /\ CreateInv' /\ EnableInv' /\ ValidateInv'
    BY <1>2, <1>5, <2>1, <2>2, NonePast
       DEF ImportInv, CreateInv, EnableInv, ValidateInv
  <2> QED
    BY <2>4, <2>5, <2>6, <2>7, <2>8 DEF TablesInv
<1> QED
  BY <1>1, <1>3, <1>4, <1>5

\* The setting that is restored is the one that was read.
LEMMA SetMemInv == TablesInv /\ (RaiseMem \/ RestoreMem) => TablesInv'
<1> SUFFICES ASSUME TablesInv, RaiseMem \/ RestoreMem PROVE TablesInv'
  OBVIOUS
<1>1. PICK value, next :
        /\ \/ /\ cmd.phase = "set" /\ value = "raised"
              /\ next = Work
           \/ /\ cmd.phase = "restore" /\ value = cmd.saved /\ next = "done"
              /\ cmd.saved # "none"
        /\ UNCHANGED <<tables, indices, ops, alters>>
        /\ \/ mem' = value /\ Goto(next) /\ UNCHANGED <<product, last, calls, faults>>
           \/ Fault /\ Exit /\ mem' \in {mem, value}
  BY DEF RaiseMem, RestoreMem, SetMem, At, NoFault
<1>2. /\ cmd.name \in {"postload", "vacuum"} /\ last = NoCommand
      /\ cmd \in CmdRecords /\ faults' \in 0 .. MaxFaults
      /\ product' = product /\ calls' = calls /\ mem \in Settings /\ indices \in SUBSET {1, 2}
      /\ cmd.saved \in Settings /\ cmd.saved = cmd.before
  <2>1. /\ cmd.name \in {"postload", "vacuum"} /\ last = NoCommand
        /\ cmd.saved \in Settings \cup {"none"}
    BY <1>1 DEF TablesInv, CourseInv, Types, CmdRecords
  <2>2. cmd.saved = cmd.before /\ cmd.saved \in Settings
    BY <1>1, <2>1 DEF TablesInv, CourseInv, MemInv
  <2>3. /\ faults' \in 0 .. MaxFaults /\ product' = product /\ calls' = calls
    BY <1>1, FaultFacts DEF TablesInv, Types, Exit
  <2> QED
    BY <2>1, <2>2, <2>3 DEF TablesInv, Types, DbTypes
<1>3. value \in Settings
  BY <1>1, <1>2 DEF Settings
<1>4. DbTypes' /\ OpsInv'
  BY <1>1, <1>2, <1>3, SettingsDb
<1>5. CASE Exit
  BY <1>2, <1>4, <1>5, ExitInv
<1>6. CASE mem' = value /\ Goto(next) /\ UNCHANGED <<product, last, calls, faults>>
  <2>1. /\ next \in Phases
        /\ \/ cmd.phase = "set" /\ next = "index" /\ cmd.name = "postload"
           \/ cmd.phase = "set" /\ next = "vacuum" /\ cmd.name = "vacuum"
           \/ cmd.phase = "restore" /\ next = "done" /\ value = cmd.saved
    BY <1>1, <1>2 DEF Phases, Work
  <2>2. /\ cmd' \in CmdRecords /\ cmd'.phase = next /\ cmd'.op = cmd.op
        /\ cmd'.name = cmd.name /\ cmd'.step = 1 /\ cmd'.before = cmd.before
        /\ cmd'.saved = cmd.saved
    BY <1>2, <1>6, <2>1, GotoFacts
  <2>3. Types'
    BY <1>2, <1>4, <1>6, <2>2 DEF TablesInv, Types
  <2>4. CourseInv'
    <3>1. cmd'.op \in 0 .. Len(ops')
      BY <1>1, <2>2 DEF TablesInv, CourseInv
    <3> QED
      BY <1>2, <1>6, <2>1, <2>2, <3>1 DEF CourseInv
  <2>5. MemInv'
    <3>1. cmd'.saved = cmd'.before /\ cmd'.saved # "none"
      BY <1>1, <1>2, <2>2 DEF Settings
    <3>2. cmd'.phase \notin {"read", "set"}
      BY <2>1, <2>2
    <3>3. cmd'.phase = "done" => mem' = cmd'.before
      BY <1>2, <1>6, <2>1, <2>2
    <3> QED
      BY <1>2, <1>6, <3>1, <3>2, <3>3, NonePast DEF MemInv
  <2>6. PostloadInv'
    BY <1>1, <1>2, <1>6, <2>1, <2>2, NonePast DEF TablesInv, PostloadInv
  <2>7. ImportInv' /\ CreateInv' /\ EnableInv' /\ ValidateInv'
    BY <1>2, <1>6, <2>1, <2>2, NonePast
       DEF ImportInv, CreateInv, EnableInv, ValidateInv
  <2> QED
    BY <1>4, <2>3, <2>4, <2>5, <2>6, <2>7 DEF TablesInv
<1> QED
  BY <1>1, <1>5, <1>6

\* What was not read is not restored.
LEMMA KeepMemInv == TablesInv /\ KeepMem => TablesInv'
<1> SUFFICES ASSUME TablesInv, KeepMem PROVE TablesInv'
  OBVIOUS
<1>1. /\ cmd.phase = "restore" /\ cmd.saved = "none" /\ UNCHANGED dbVars /\ Goto("done")
      /\ UNCHANGED <<product, last, calls, faults>>
  BY DEF KeepMem, At, NoFault
<1>2. /\ cmd.name \in {"postload", "vacuum"} /\ last = NoCommand /\ cmd \in CmdRecords
      /\ calls \in Nat /\ indices' = indices /\ mem' = mem /\ ops' = ops
      /\ "done" \in Phases
  BY <1>1, TablesAssumption DEF TablesInv, CourseInv, Types, DbTypes, dbVars, Phases
<1>3. /\ cmd' \in CmdRecords /\ cmd'.phase = "done" /\ cmd'.op = cmd.op
      /\ cmd'.name = cmd.name /\ cmd'.step = 1 /\ cmd'.before = cmd.before
  BY <1>1, <1>2, GotoFacts
<1>4. DbTypes' /\ OpsInv'
  BY <1>1, <1>2, DbSame
<1>5. Types'
  BY <1>1, <1>2, <1>3, <1>4 DEF TablesInv, Types
<1>6. CourseInv'
  <2>1. cmd'.op \in 0 .. Len(ops')
    BY <1>2, <1>3 DEF TablesInv, CourseInv
  <2> QED
    BY <1>1, <1>2, <1>3, <2>1 DEF CourseInv
<1>7. MemInv'
  <2>1. mem = cmd.before
    BY <1>1 DEF TablesInv, MemInv
  <2> QED
    BY <1>1, <1>2, <1>3, <2>1, NonePast DEF MemInv
<1>8. PostloadInv'
  <2>1. cmd.name = "postload" => indices = {1, 2}
    BY <1>1 DEF TablesInv, PostloadInv
  <2> QED
    BY <1>1, <1>2, <1>3, <2>1, NonePast DEF PostloadInv
<1>9. ImportInv' /\ CreateInv' /\ EnableInv' /\ ValidateInv'
  BY <1>1, <1>2, <1>3, NonePast DEF ImportInv, CreateInv, EnableInv, ValidateInv
<1> QED
  BY <1>4, <1>5, <1>6, <1>7, <1>8, <1>9 DEF TablesInv

LEMMA CreateIndexInv == TablesInv /\ CreateIndex => TablesInv'
<1> SUFFICES ASSUME TablesInv, CreateIndex PROVE TablesInv'
  OBVIOUS
<1>1. /\ cmd.phase = "index" /\ cmd.step <= 2
      /\ tables' = tables /\ mem' = mem /\ ops' = ops /\ alters' = alters
      /\ product' = product /\ last' = last /\ calls' = calls
      /\ faults' = faults \/ Fault
      /\ \/ /\ indices' = indices \cup {cmd.step}
            /\ cmd' = [cmd EXCEPT !.step = cmd.step + 1]
         \/ /\ cmd' = [cmd EXCEPT !.step = cmd.step + 1, !.bad = cmd.bad \cup {cmd.step}]
            /\ indices' = indices
  BY DEF CreateIndex, At
<1>2. /\ cmd.name = "postload" /\ last = NoCommand /\ cmd \in CmdRecords
      /\ faults' \in 0 .. MaxFaults /\ mem \in Settings /\ indices \in SUBSET {1, 2}
  BY <1>1, FaultFacts DEF TablesInv, CourseInv, Types, DbTypes
<1>3. cmd.step \in {1, 2}
  <2>1. cmd.step \in 1 .. 3
    BY <1>1 DEF TablesInv, CourseInv
  <2> QED
    BY <1>1, <2>1
<1>4. indices' \in SUBSET {1, 2}
  BY <1>1, <1>2, <1>3
<1>5. /\ cmd' \in CmdRecords /\ cmd'.phase = "index" /\ cmd'.op = cmd.op
      /\ cmd'.name = "postload" /\ cmd'.before = cmd.before /\ cmd'.saved = cmd.saved
      /\ cmd'.step = cmd.step + 1 /\ cmd.step \in indices' \cup cmd'.bad
      /\ indices \cup cmd.bad \subseteq indices' \cup cmd'.bad
  <2>1. cmd.step + 1 \in Nat
    BY <1>3
  <2>2. CASE /\ indices' = indices \cup {cmd.step}
             /\ cmd' = [cmd EXCEPT !.step = cmd.step + 1]
    BY <1>1, <1>2, <2>1, <2>2 DEF CmdRecords
  <2>3. CASE /\ cmd' = [cmd EXCEPT !.step = cmd.step + 1, !.bad = cmd.bad \cup {cmd.step}]
             /\ indices' = indices
    <3>1. cmd.bad \cup {cmd.step} \in SUBSET (Tables \cup {1, 2})
      BY <1>2, <1>3 DEF CmdRecords
    <3> QED
      BY <1>1, <1>2, <2>1, <2>3, <3>1 DEF CmdRecords
  <2> QED
    BY <1>1, <2>2, <2>3
<1>6. DbTypes' /\ OpsInv'
  BY <1>1, <1>2, <1>4, SettingsDb
<1>7. Types'
  BY <1>1, <1>2, <1>5, <1>6 DEF TablesInv, Types
<1>8. CourseInv'
  <2>1. cmd'.step \in 1 .. 3
    BY <1>3, <1>5
  <2> QED
    BY <1>1, <1>2, <1>5, <2>1 DEF TablesInv, CourseInv
<1>9. PostloadInv'
  <2>1. \A j \in 1 .. cmd'.step - 1 : j \in indices' \cup cmd'.bad
    <3>1. SUFFICES ASSUME NEW j \in 1 .. cmd'.step - 1 PROVE j \in indices' \cup cmd'.bad
      OBVIOUS
    <3>2. j = cmd.step \/ j \in 1 .. cmd.step - 1
      BY <1>3, <1>5
    <3>3. j \in 1 .. cmd.step - 1 => j \in indices \cup cmd.bad
      BY <1>1 DEF TablesInv, PostloadInv
    <3> QED
      BY <1>5, <3>2, <3>3
  <2> QED
    BY <1>1, <1>2, <1>5, <2>1, NonePast DEF PostloadInv
<1>10. MemInv'
  BY <1>1, <1>2, <1>5, NonePast DEF TablesInv, MemInv
<1>11. ImportInv' /\ CreateInv' /\ EnableInv' /\ ValidateInv'
  BY <1>1, <1>2, <1>5, NonePast DEF ImportInv, CreateInv, EnableInv, ValidateInv
<1> QED
  BY <1>6, <1>7, <1>8, <1>9, <1>10, <1>11 DEF TablesInv

LEMMA CheckIndicesInv == TablesInv /\ CheckIndices => TablesInv'
<1> SUFFICES ASSUME TablesInv, CheckIndices PROVE TablesInv'
  OBVIOUS
<1>1. /\ cmd.phase = "index" /\ cmd.step = 3 /\ UNCHANGED dbVars /\ faults' = faults
      /\ \/ Exit
         \/ cmd.bad = {} /\ Goto("restore") /\ UNCHANGED <<product, last, calls>>
  BY DEF CheckIndices, At
<1>2. /\ cmd.name = "postload" /\ last = NoCommand /\ cmd \in CmdRecords
      /\ faults' \in 0 .. MaxFaults /\ calls \in Nat /\ indices \in SUBSET {1, 2}
      /\ indices' = indices /\ mem' = mem /\ ops' = ops
  BY <1>1, TablesAssumption DEF TablesInv, CourseInv, Types, DbTypes, dbVars
<1>3. CASE Exit
  BY <1>1, <1>2, <1>3, ExitSame
<1>4. CASE cmd.bad = {} /\ Goto("restore") /\ UNCHANGED <<product, last, calls>>
  <2>1. /\ cmd' \in CmdRecords /\ cmd'.phase = "restore" /\ cmd'.op = cmd.op
        /\ cmd'.name = "postload" /\ cmd'.step = 1 /\ cmd'.saved = cmd.saved
        /\ cmd'.before = cmd.before
    <3>1. "restore" \in Phases
      BY DEF Phases
    <3> QED
      BY <1>2, <1>4, <3>1, GotoFacts
  <2>2. DbTypes' /\ OpsInv'
    BY <1>1, <1>2, <1>4, DbSame
  <2>3. indices = {1, 2}
    <3>1. 1 \in 1 .. cmd.step - 1 /\ 2 \in 1 .. cmd.step - 1
      BY <1>1
    <3>2. 1 \in indices /\ 2 \in indices
      BY <1>1, <1>4, <3>1 DEF TablesInv, PostloadInv
    <3> QED
      BY <1>2, <3>2
  <2>4. Types'
    BY <1>2, <1>4, <2>1, <2>2 DEF TablesInv, Types
  <2>5. CourseInv'
    BY <1>2, <1>4, <2>1 DEF TablesInv, CourseInv
  <2>6. PostloadInv'
    BY <1>2, <1>4, <2>1, <2>3, NonePast DEF PostloadInv
  <2>7. MemInv'
    BY <1>1, <1>2, <1>4, <2>1, NonePast DEF TablesInv, MemInv
  <2>8. ImportInv' /\ CreateInv' /\ EnableInv' /\ ValidateInv'
    BY <1>2, <1>4, <2>1, NonePast DEF ImportInv, CreateInv, EnableInv, ValidateInv
  <2> QED
    BY <2>2, <2>4, <2>5, <2>6, <2>7, <2>8 DEF TablesInv
<1> QED
  BY <1>1, <1>3, <1>4

LEMMA VacuumInv == TablesInv /\ Vacuum => TablesInv'
<1> SUFFICES ASSUME TablesInv, Vacuum PROVE TablesInv'
  OBVIOUS
<1>1. /\ cmd.phase = "vacuum" /\ UNCHANGED dbVars /\ Goto("restore")
      /\ UNCHANGED <<product, last, calls>> /\ (faults' = faults \/ Fault)
  BY DEF Vacuum, At
<1>2. /\ cmd.name = "vacuum" /\ last = NoCommand /\ cmd \in CmdRecords
      /\ faults' \in 0 .. MaxFaults /\ calls \in Nat
      /\ mem' = mem /\ ops' = ops /\ "restore" \in Phases
  BY <1>1, FaultFacts, TablesAssumption DEF TablesInv, CourseInv, Types, DbTypes, dbVars, Phases
<1>3. /\ cmd' \in CmdRecords /\ cmd'.phase = "restore" /\ cmd'.op = cmd.op
      /\ cmd'.name = "vacuum" /\ cmd'.step = 1 /\ cmd'.saved = cmd.saved
      /\ cmd'.before = cmd.before
  BY <1>1, <1>2, GotoFacts
<1>4. DbTypes' /\ OpsInv'
  BY <1>1, <1>2, DbSame
<1>5. Types'
  BY <1>1, <1>2, <1>3, <1>4 DEF TablesInv, Types
<1>6. CourseInv'
  BY <1>1, <1>2, <1>3 DEF TablesInv, CourseInv
<1>7. MemInv'
  BY <1>1, <1>2, <1>3, NonePast DEF TablesInv, MemInv
<1>8. ImportInv' /\ CreateInv' /\ EnableInv' /\ PostloadInv' /\ ValidateInv'
  BY <1>1, <1>2, <1>3, NonePast
     DEF ImportInv, CreateInv, EnableInv, PostloadInv, ValidateInv
<1> QED
  BY <1>4, <1>5, <1>6, <1>7, <1>8 DEF TablesInv

-----------------------------------------------------------------------------
(* validate, and the loaders of run_ydb.sh.                                    *)

LEMMA FirstCheckInv == TablesInv /\ FirstCheck => TablesInv'
<1> SUFFICES ASSUME TablesInv, FirstCheck PROVE TablesInv'
  OBVIOUS
<1>1. /\ cmd.phase = "first" /\ UNCHANGED dbVars /\ (faults' = faults \/ Fault)
      /\ \/ Exit
         \/ Goto("check") /\ UNCHANGED <<product, last, calls>>
  BY DEF FirstCheck, At, NoFault
<1>2. /\ cmd.name = "validate" /\ last = NoCommand /\ cmd \in CmdRecords
      /\ faults' \in 0 .. MaxFaults /\ calls \in Nat /\ ops' = ops /\ "check" \in Phases
  BY <1>1, FaultFacts, TablesAssumption DEF TablesInv, CourseInv, Types, dbVars, Phases
<1>3. CASE Exit
  BY <1>1, <1>2, <1>3, ExitSame
<1>4. CASE Goto("check") /\ UNCHANGED <<product, last, calls>>
  <2>1. /\ cmd' \in CmdRecords /\ cmd'.phase = "check" /\ cmd'.op = cmd.op
        /\ cmd'.name = "validate" /\ cmd'.step = 1 /\ cmd'.pending = cmd.pending
        /\ cmd'.bad = cmd.bad
    BY <1>2, <1>4, GotoFacts
  <2>2. /\ DbTypes' /\ OpsInv' /\ Checks' = Checks
        /\ \A t : CheckHolds(t)' = CheckHolds(t)
    BY <1>1, <1>2, <1>4, DbSame
  <2>3. Types'
    BY <1>2, <1>4, <2>1, <2>2 DEF TablesInv, Types
  <2>4. CourseInv'
    BY <1>2, <1>4, <2>1 DEF TablesInv, CourseInv
  <2>5. ValidateInv'
    BY <1>2, <1>4, <2>1, <2>2, NonePast DEF TablesInv, ValidateInv
  <2>6. ImportInv' /\ CreateInv' /\ EnableInv' /\ PostloadInv' /\ MemInv'
    BY <1>2, <1>4, <2>1, NonePast
       DEF ImportInv, CreateInv, EnableInv, PostloadInv, MemInv
  <2> QED
    BY <2>2, <2>3, <2>4, <2>5, <2>6 DEF TablesInv
<1> QED
  BY <1>1, <1>3, <1>4

LEMMA RunCheckInv == TablesInv /\ RunCheck => TablesInv'
<1> SUFFICES ASSUME TablesInv, RunCheck PROVE TablesInv'
  OBVIOUS
<1>1. PICK t \in cmd.pending :
        /\ faults' = faults \/ Fault
        /\ \/ cmd' = [cmd EXCEPT !.pending = cmd.pending \ {t},
                                 !.bad = IF CheckHolds(t) THEN cmd.bad ELSE cmd.bad \cup {t}]
           \/ cmd' = [cmd EXCEPT !.pending = cmd.pending \ {t}, !.bad = cmd.bad \cup {t}]
  BY DEF RunCheck
<1>2. /\ cmd.phase = "check" /\ UNCHANGED dbVars /\ UNCHANGED <<product, last, calls>>
  BY DEF RunCheck, At
<1>3. /\ cmd.name = "validate" /\ last = NoCommand /\ cmd \in CmdRecords /\ cmd.step = 1
      /\ faults' \in 0 .. MaxFaults /\ calls \in Nat /\ ops' = ops
  BY <1>1, <1>2, FaultFacts, TablesAssumption DEF TablesInv, CourseInv, Types, dbVars
<1>4. t \in Tables
  BY <1>1, <1>3 DEF CmdRecords
<1>5. PICK bad \in {cmd.bad, cmd.bad \cup {t}} :
        /\ CheckHolds(t) \/ t \in bad
        /\ cmd' = [cmd EXCEPT !.pending = cmd.pending \ {t}, !.bad = bad]
  <2>1. CASE cmd' = [cmd EXCEPT !.pending = cmd.pending \ {t}, !.bad = cmd.bad \cup {t}]
    BY <2>1
  <2>2. CASE /\ ~CheckHolds(t)
             /\ cmd' = [cmd EXCEPT !.pending = cmd.pending \ {t},
                                   !.bad = IF CheckHolds(t) THEN cmd.bad ELSE cmd.bad \cup {t}]
    BY <2>2
  <2>3. CASE /\ CheckHolds(t)
             /\ cmd' = [cmd EXCEPT !.pending = cmd.pending \ {t},
                                   !.bad = IF CheckHolds(t) THEN cmd.bad ELSE cmd.bad \cup {t}]
    BY <2>3
  <2> QED
    BY <1>1, <2>1, <2>2, <2>3
<1>6. /\ cmd' \in CmdRecords /\ cmd'.phase = "check" /\ cmd'.op = cmd.op
      /\ cmd'.name = "validate" /\ cmd'.step = 1
      /\ cmd'.pending = cmd.pending \ {t} /\ cmd'.bad = bad
  <2>1. bad \in SUBSET (Tables \cup {1, 2})
    BY <1>3, <1>4 DEF CmdRecords
  <2> QED
    BY <1>2, <1>3, <1>5, <2>1 DEF CmdRecords
<1>7. /\ DbTypes' /\ OpsInv' /\ Checks' = Checks
      /\ \A u : CheckHolds(u)' = CheckHolds(u)
  BY <1>2, <1>3, DbSame
<1>8. Types'
  BY <1>2, <1>3, <1>6, <1>7 DEF TablesInv, Types
<1>9. CourseInv'
  BY <1>2, <1>3, <1>6 DEF TablesInv, CourseInv
<1>10. ValidateInv'
  <2>1. \A u \in Checks \ cmd'.pending : CheckHolds(u) \/ u \in cmd'.bad
    BY <1>3, <1>5, <1>6 DEF TablesInv, ValidateInv
  <2> QED
    BY <1>2, <1>3, <1>6, <1>7, <2>1, NonePast DEF ValidateInv
<1>11. ImportInv' /\ CreateInv' /\ EnableInv' /\ PostloadInv' /\ MemInv'
  BY <1>2, <1>3, <1>6, NonePast
     DEF ImportInv, CreateInv, EnableInv, PostloadInv, MemInv
<1> QED
  BY <1>7, <1>8, <1>9, <1>10, <1>11 DEF TablesInv

LEMMA JudgeChecksInv == TablesInv /\ JudgeChecks => TablesInv'
<1> SUFFICES ASSUME TablesInv, JudgeChecks PROVE TablesInv'
  OBVIOUS
<1>1. /\ cmd.phase = "check" /\ cmd.pending = {} /\ UNCHANGED dbVars /\ faults' = faults
      /\ \/ Exit
         \/ Goto("done") /\ UNCHANGED <<product, last, calls>>
  BY DEF JudgeChecks, At
<1>2. /\ cmd.name = "validate" /\ last = NoCommand /\ cmd \in CmdRecords
      /\ faults' \in 0 .. MaxFaults /\ calls \in Nat /\ ops' = ops /\ "done" \in Phases
  BY <1>1, TablesAssumption DEF TablesInv, CourseInv, Types, dbVars, Phases
<1>3. CASE Exit
  BY <1>1, <1>2, <1>3, ExitSame
<1>4. CASE Goto("done") /\ UNCHANGED <<product, last, calls>>
  <2>1. /\ cmd' \in CmdRecords /\ cmd'.phase = "done" /\ cmd'.op = cmd.op
        /\ cmd'.name = "validate" /\ cmd'.step = 1 /\ cmd'.pending = cmd.pending
        /\ cmd'.bad = cmd.bad
    BY <1>2, <1>4, GotoFacts
  <2>2. /\ DbTypes' /\ OpsInv' /\ Checks' = Checks
        /\ \A t : CheckHolds(t)' = CheckHolds(t)
    BY <1>1, <1>2, <1>4, DbSame
  <2>3. Types'
    BY <1>2, <1>4, <2>1, <2>2 DEF TablesInv, Types
  <2>4. CourseInv'
    BY <1>2, <1>4, <2>1 DEF TablesInv, CourseInv
  <2>5. ValidateInv'
    BY <1>1, <1>2, <1>4, <2>1, <2>2, NonePast DEF TablesInv, ValidateInv
  <2>6. ImportInv' /\ CreateInv' /\ EnableInv' /\ PostloadInv' /\ MemInv'
    BY <1>2, <1>4, <2>1, NonePast
       DEF ImportInv, CreateInv, EnableInv, PostloadInv, MemInv
  <2> QED
    BY <2>2, <2>3, <2>4, <2>5, <2>6 DEF TablesInv
<1> QED
  BY <1>1, <1>3, <1>4

\* More rows do not spoil what a check has seen.
LEMMA LoadPartInv == TablesInv /\ LoadPart => TablesInv'
<1> SUFFICES ASSUME TablesInv, LoadPart PROVE TablesInv'
  OBVIOUS
<1>1. PICK t \in Tables, p \in Parts :
        /\ tables[t].exists
        /\ tables' = [tables EXCEPT ![t].rows = tables[t].rows \cup {p}]
  BY DEF LoadPart
<1>2. /\ cmd.name \in {"none", "validate"} /\ last' = NoCommand
      /\ UNCHANGED <<product, indices, mem, ops, alters, cmd, calls, faults>>
  BY DEF LoadPart
<1>3. /\ tables \in [Tables -> TableRecords] /\ tables[t] \in TableRecords
      /\ ops \in Seq(OpRecords) /\ Len(ops) \in Nat
  BY DEF TablesInv, Types, DbTypes
<1>4. PICK new \in TableRecords :
        /\ new.exists /\ new.rows = tables[t].rows \cup {p}
        /\ tables' = [tables EXCEPT ![t] = new]
  <2>1. PICK new : new = [tables[t] EXCEPT !.rows = tables[t].rows \cup {p}]
    OBVIOUS
  <2>2. new \in TableRecords /\ new.exists /\ new.rows = tables[t].rows \cup {p}
    BY <1>1, <1>3, <2>1 DEF TableRecords
  <2> QED
    BY <1>1, <1>3, <2>1, <2>2
<1>5. /\ tables' \in [Tables -> TableRecords] /\ tables'[t] = new
      /\ \A u \in Tables : u # t => tables'[u] = tables[u]
  BY <1>3, <1>4
<1>6. /\ \A u \in Tables : tables'[u].exists \/ tables'[u] = Absent
      /\ \A u \in Tables : tables[u].exists => tables'[u].exists
  BY <1>1, <1>4, <1>5 DEF TablesInv, OpsInv
<1>7. DbTypes'
  BY <1>2, <1>5 DEF TablesInv, Types, DbTypes
<1>8. OpsInv'
  <2>1. \A i \in 1 .. Len(ops) : ops[i].doing \subseteq Tables
    <3>1. \A i \in 1 .. Len(ops) : ops[i] \in OpRecords
      BY <1>3
    <3> QED
      BY <3>1 DEF OpRecords
  <2>2. \A i \in 1 .. Len(ops) : \A u \in ops[i].doing : tables'[u].exists
    BY <1>6, <2>1 DEF TablesInv, OpsInv
  <2> QED
    BY <1>2, <1>6, <2>2 DEF TablesInv, OpsInv
<1>9. \A u \in Tables : CheckHolds(u) => CheckHolds(u)'
  <2> SUFFICES ASSUME NEW u \in Tables, CheckHolds(u) PROVE CheckHolds(u)'
    OBVIOUS
  <2>1. CASE u # t
    <3>1. tables'[u] = tables[u] /\ product' = product
      BY <1>2, <1>5, <2>1
    <3>2. WarehousesOf(u)' = WarehousesOf(u) /\ Complete(u)' = Complete(u)
      BY <3>1 DEF WarehousesOf, Complete
    <3> QED
      BY <3>1, <3>2 DEF CheckHolds
  <2>2. CASE u = t
    <3>1. tables[t].rows \subseteq Parts /\ Parts = Warehouses \X Batches
      BY <1>3 DEF TableRecords, Parts
    <3>2. /\ tables'[t].exists /\ tables'[t].rows = tables[t].rows \cup {p}
          /\ tables[t].rows = Parts => tables'[t].rows = Parts
      BY <1>1, <1>4, <1>5, <3>1
    <3>3. WarehousesOf(t) = Warehouses => WarehousesOf(t)' = Warehouses
      <4>1. p[1] \in Warehouses
        BY <3>1
      <4>2. WarehousesOf(t)' = WarehousesOf(t) \cup {p[1]}
        BY <3>2 DEF WarehousesOf
      <4> QED
        BY <4>1, <4>2
    <3>4. Complete(t) => Complete(t)'
      BY <3>2 DEF Complete
    <3> QED
      BY <1>2, <2>2, <3>2, <3>3, <3>4 DEF CheckHolds
  <2> QED
    BY <2>1, <2>2
<1>10. Types'
  BY <1>2, <1>7, IdleFacts DEF TablesInv, Types
<1>11. CourseInv'
  BY <1>2 DEF TablesInv, CourseInv
<1>12. ValidateInv'
  <2>1. Checks' = Checks /\ Checks \subseteq Tables
    BY <1>2 DEF Checks
  <2> QED
    BY <1>2, <1>9, <2>1, NonePast DEF TablesInv, ValidateInv
<1>13. ImportInv' /\ CreateInv' /\ EnableInv' /\ PostloadInv' /\ MemInv'
  <2>1. cmd.phase \notin {"create", "alter", "wait", "index", "read", "set", "vacuum", "restore"}
    BY <1>2, IdleFacts DEF TablesInv, CourseInv
  <2> QED
    BY <1>2, <2>1, NonePast DEF ImportInv, CreateInv, EnableInv, PostloadInv, MemInv
<1> QED
  BY <1>7, <1>8, <1>10, <1>11, <1>12, <1>13 DEF TablesInv

-----------------------------------------------------------------------------
(* The invariant, and what it says of the commands.                            *)

LEMMA TablesInit == Init => TablesInv
<1> SUFFICES ASSUME Init PROVE TablesInv
  OBVIOUS
<1>1. /\ product \in {"ydb", "postgres"} /\ tables = [t \in Tables |-> Absent]
      /\ indices = {} /\ mem = "configured" /\ ops = <<>> /\ alters = {}
      /\ cmd = Idle /\ last = NoCommand /\ calls = 0 /\ faults = 0
  BY DEF Init
<1>2. Absent \in TableRecords
  BY DEF Absent, TableRecords
<1>3. DbTypes
  BY <1>1, <1>2 DEF DbTypes, Settings
<1>4. Types
  BY <1>1, <1>3, IdleFacts, TablesAssumption DEF Types
<1>5. CourseInv
  BY <1>1, IdleFacts DEF CourseInv
<1>6. OpsInv
  BY <1>1 DEF OpsInv
<1>7. \A name : Past(name) => name = "none"
  BY <1>1, IdleFacts DEF Past
<1>8. ImportInv /\ CreateInv /\ EnableInv /\ PostloadInv /\ MemInv /\ ValidateInv
  BY <1>1, <1>7, IdleFacts
     DEF ImportInv, CreateInv, EnableInv, PostloadInv, MemInv, ValidateInv
<1> QED
  BY <1>4, <1>5, <1>6, <1>8 DEF TablesInv

LEMMA TablesStutter == TablesInv /\ UNCHANGED vars => TablesInv'
<1> SUFFICES ASSUME TablesInv, UNCHANGED vars PROVE TablesInv'
  OBVIOUS
<1>1. /\ UNCHANGED dbVars /\ cmd' = cmd /\ last' = last /\ calls' = calls
      /\ faults' = faults /\ product' = product
  BY DEF vars
<1>2. /\ tables' = tables /\ indices' = indices /\ mem' = mem /\ ops' = ops
      /\ alters' = alters
  BY <1>1 DEF dbVars
<1>3. Types' /\ CourseInv' /\ OpsInv'
  BY <1>1, <1>2 DEF TablesInv, Types, DbTypes, CourseInv, OpsInv
<1>4. ImportInv' /\ CreateInv'
  BY <1>1, <1>2 DEF TablesInv, ImportInv, CreateInv, Past, Complete, Fresh, Busy
<1>5. EnableInv' /\ PostloadInv' /\ MemInv'
  BY <1>1, <1>2 DEF TablesInv, EnableInv, PostloadInv, MemInv, Past, Handled
<1>6. ValidateInv'
  BY <1>1, <1>2 DEF TablesInv, ValidateInv, Past, Checks, CheckHolds, Complete, WarehousesOf
<1> QED
  BY <1>3, <1>4, <1>5, <1>6 DEF TablesInv

LEMMA TablesStep == TablesInv /\ [Next]_vars => TablesInv'
<1> SUFFICES ASSUME TablesInv, [Next]_vars PROVE TablesInv'
  OBVIOUS
<1>1. CASE Helper
  BY <1>1, ReturnInv, DropTableInv, CreateTableInv, StartOpInv, PollFailsInv,
     PollSucceedsInv, ForgetOpInv, SendAlterInv, WaitAltersInv, DropAllInv, CreateAllInv,
     ReadMemInv, SetMemInv, KeepMemInv, CreateIndexInv, CheckIndicesInv, VacuumInv, FirstCheckInv,
     RunCheckInv, JudgeChecksInv
     DEF Helper
<1>2. CASE Call \/ Interrupt
  BY <1>2, CallInv, InterruptInv
<1>3. CASE OpStep \/ OpIsCancelled
  BY <1>3, OpStepInv
<1>4. CASE AlterStep
  BY <1>4, AlterStepInv
<1>5. CASE LoadPart
  BY <1>5, LoadPartInv
<1>6. CASE UNCHANGED vars
  BY <1>6, TablesStutter
<1> QED
  BY <1>1, <1>2, <1>3, <1>4, <1>5, <1>6 DEF Next

\* The inductive invariant: what the command that runs has reached so far, what the
\* last one has left, and what the operations of earlier ones can still do to it.
THEOREM TablesInvariance == Spec => []TablesInv
<1>1. Init => TablesInv
  BY TablesInit
<1>2. TablesInv /\ [Next]_vars => TablesInv'
  BY TablesStep
<1> QED
  BY <1>1, <1>2, PTL DEF Spec

\* The types, and the bounds of the loops over the tables, the indices and the tries.
THEOREM TypeCorrect == Spec => []TypeOK
<1>1. TablesInv => TypeOK
  <2> SUFFICES ASSUME TablesInv PROVE TypeOK
    OBVIOUS
  <2>1. \A t \in Tables : tables[t].rows \subseteq Parts
    <3>1. \A t \in Tables : tables[t] \in TableRecords
      BY DEF TablesInv, Types, DbTypes
    <3> QED
      BY <3>1 DEF TableRecords
  <2>2. \A t \in Tables : tables[t].exists \/ tables[t] = Absent
    BY DEF TablesInv, OpsInv
  <2>3. indices \subseteq {1, 2} /\ mem \in {"configured", "raised"}
    BY DEF TablesInv, Types, DbTypes, Settings
  <2>4. \A i \in DOMAIN ops : ops[i].doing \subseteq ops[i].todo
    BY DEF TablesInv, Types, DbTypes, OpsInv
  <2>5. cmd.step \in 1 .. Len(DropOrder) + 2
    <3>1. \/ cmd.step \in 1 .. Len(DropOrder) \/ cmd.step \in 1 .. 3 \/ cmd.step = 1
      BY DEF TablesInv, CourseInv
    <3>2. Len(DropOrder) \in Nat /\ Len(DropOrder) >= 1
      BY ConstantFacts
    <3> QED
      BY <3>1, <3>2
  <2>6. cmd.tries \in 0 .. MaxTries - 1 /\ cmd.op \in 0 .. Len(ops)
    BY DEF TablesInv, Types, CmdRecords, CourseInv
  <2>7. calls \in 0 .. MaxCalls /\ faults \in 0 .. MaxFaults
    BY DEF TablesInv, Types
  <2> QED
    BY <2>1, <2>2, <2>3, <2>4, <2>5, <2>6, <2>7 DEF TypeOK
<1> QED
  BY <1>1, TablesInvariance, PTL

\* ImportInitialData and wait_ydb_operation_done: an import that ends with 0 has loaded
\* every table, although operations of interrupted helpers create and fill tables too.
THEOREM ImportLoadsAlways == Spec => []ImportLoads
<1>1. TablesInv => ImportLoads
  BY DEF TablesInv, ImportInv, ImportLoads, Ended, Past
<1> QED
  BY <1>1, TablesInvariance, PTL

\* CreateTables, EnableSplitByLoad and postload: a command that ends with 0 did what it
\* was called for.
THEOREM ExitMeansDoneAlways == Spec => []ExitMeansDone
<1>1. TablesInv => ExitMeansDone
  BY DEF TablesInv, CreateInv, EnableInv, PostloadInv, ExitMeansDone, Ended, Past, Fresh
<1> QED
  BY <1>1, TablesInvariance, PTL

\* ValidateInitialData: when no check complains the tables are complete, but for the
\* order lines and, on PostgreSQL, for stock, of which every warehouse has some; the
\* checks look at different times, while loaders go on.
THEOREM ValidateSoundAlways == Spec => []ValidateSound
<1>1. TablesInv => ValidateSound
  <2> SUFFICES ASSUME TablesInv, Ended("validate"), last.bad = {}
               PROVE  /\ \A t \in Tables \ {OrderLine, Stock} : Complete(t)
                      /\ product = "ydb" => Complete(Stock) /\ tables[OrderLine].rows # {}
                      /\ product = "postgres" => WarehousesOf(Stock) = Warehouses
    BY DEF ValidateSound
  <2>1. \A t \in Checks : CheckHolds(t)
    BY DEF TablesInv, ValidateInv, Ended, Past
  <2>2. /\ Tables \ {OrderLine} \subseteq Checks /\ Stock \in Checks /\ Stock # OrderLine
        /\ product = "ydb" => OrderLine \in Checks
    BY TablesAssumption DEF Checks
  <2>3. \A t \in Tables \ {OrderLine, Stock} : Complete(t)
    BY <2>1, <2>2, CheckFacts
  <2>4. product = "ydb" => Complete(Stock) /\ tables[OrderLine].rows # {}
    BY <2>1, <2>2, CheckFacts
  <2>5. product = "postgres" => WarehousesOf(Stock) = Warehouses
    BY <2>1, <2>2, CheckFacts
  <2> QED
    BY <2>3, <2>4, <2>5
<1> QED
  BY <1>1, TablesInvariance, PTL

\* postload and vacuum-analyze restore maintenance_work_mem before they end with 0.
THEOREM MemRestoredAlways == Spec => []MemRestored
<1>1. TablesInv => MemRestored
  BY DEF TablesInv, MemInv, MemRestored, Ended, Past
<1> QED
  BY <1>1, TablesInvariance, PTL

-----------------------------------------------------------------------------
(* The split keys of every table are those of non-empty shards of bounded size, *)
(* for every number of warehouses and every choice of the defaults.            *)

LEMMA Monotone ==
    ASSUME NEW c \in Nat, NEW a \in Int, NEW b \in Int, a <= b
    PROVE  c * a <= c * b
<1>1. PICK d \in Nat : b = a + d
  BY SMT
<1>2. c * b = c * a + c * d
  BY <1>1, SMT
<1>3. c * d \in Nat /\ c * a \in Int /\ c * b \in Int
  BY <1>1, SMT
<1> QED
  BY <1>2, <1>3, SMT

LEMMA Transitive ==
    ASSUME NEW a \in Int, NEW b \in Int, NEW c \in Int, a <= b, b <= c
    PROVE  a <= c
  BY SMT

LEMMA Quotient ==
    ASSUME NEW n \in Nat, NEW step \in Nat \ {0}
    PROVE  /\ n \div step \in Nat
           /\ step * (n \div step) <= n
           /\ n < step * (n \div step) + step
  BY SMT

\* The number of split points and what each of them is.
LEMMA PointsShape ==
    ASSUME NEW first \in Nat, NEW step \in Nat \ {0}, NEW end \in Nat, first < end
    PROVE  /\ Len(SplitPoints(first, step, end)) = (end - 1 - first) \div step
           /\ (end - 1 - first) \div step \in Nat
           /\ \A i \in 1 .. Len(SplitPoints(first, step, end)) :
                SplitPoints(first, step, end)[i] = first + i * step
<1> DEFINE n == (end - 1 - first) \div step
<1>1. n \in Nat
  BY Quotient, SMT
<1> HIDE DEF n
<1>2. SplitPoints(first, step, end) = [i \in 1 .. n |-> first + i * step]
  BY DEF SplitPoints, n
<1>3. \A i \in 1 .. n : first + i * step \in Int
  BY <1>1, SMT
<1>4. SplitPoints(first, step, end) \in Seq(Int)
  BY <1>1, <1>2, <1>3, SMT
<1>5. Len(SplitPoints(first, step, end)) = n
  BY <1>1, <1>2, <1>3, <1>4, SMT
<1> QED
  BY <1>1, <1>2, <1>5 DEF n

\* The keys of get_split_keys lie within the ids and grow, so no shard is empty.
THEOREM ShardsNotEmpty ==
    ASSUME NEW first \in Nat, NEW step \in Nat \ {0}, NEW end \in Nat, first < end
    PROVE  LET keys == SplitPoints(first, step, end) IN
             \A i \in 1 .. Len(keys) :
               /\ first < keys[i] /\ keys[i] < end
               /\ \A j \in 1 .. i - 1 : keys[j] < keys[i]
<1> DEFINE keys == SplitPoints(first, step, end)
           n == (end - 1 - first) \div step
<1>1. /\ Len(keys) = n /\ n \in Nat
      /\ \A i \in 1 .. Len(keys) : keys[i] = first + i * step
  BY PointsShape
<1>2. step * n <= end - 1 - first
  BY Quotient, SMT
<1> HIDE DEF keys, n
<1> SUFFICES ASSUME NEW i \in 1 .. Len(keys)
             PROVE  /\ first < keys[i] /\ keys[i] < end
                    /\ \A j \in 1 .. i - 1 : keys[j] < keys[i]
  BY DEF keys
<1>3. i \in Nat /\ 1 <= i /\ i <= n
  BY <1>1, SMT
<1>4. step * 1 <= step * i /\ step * i <= step * n
  BY <1>1, <1>3, Monotone
<1>5. i * step = step * i /\ step * i \in Nat /\ step * n \in Nat /\ step * 1 = step
  BY <1>1, <1>3, SMT
<1>6. first < keys[i] /\ keys[i] < end
  <2>1. keys[i] = first + step * i
    BY <1>1, <1>5
  <2>2. step <= step * i
    BY <1>4, <1>5
  <2>3. step * i <= end - 1 - first
    <3>1. end - 1 - first \in Int /\ step * i \in Int /\ step * n \in Int
      BY <1>5, SMT
    <3> QED
      BY <1>2, <1>4, <3>1, Transitive
  <2> QED
    BY <1>5, <2>1, <2>2, <2>3, SMT
<1>7. ASSUME NEW j \in 1 .. i - 1 PROVE keys[j] < keys[i]
  <2>1. j \in Nat /\ j \in 1 .. Len(keys) /\ j <= i - 1
    BY <1>1, <1>3, SMT
  <2>2. step * j <= step * (i - 1)
    BY <1>3, <2>1, Monotone, SMT
  <2>3. step * (i - 1) = step * i - step /\ j * step = step * j /\ step * j \in Nat
    BY <1>3, <2>1, SMT
  <2> QED
    BY <1>1, <1>3, <1>5, <2>1, <2>2, <2>3, SMT
<1> QED
  BY <1>6, <1>7

\* No shard holds more ids than intended: the keys are that far apart, and the ids
\* after the last key are no more.
THEOREM ShardsBounded ==
    ASSUME NEW first \in Nat, NEW step \in Nat \ {0}, NEW end \in Nat, first < end
    PROVE  LET keys == SplitPoints(first, step, end) IN
             /\ \A i \in 2 .. Len(keys) : keys[i] - keys[i - 1] = step
             /\ end - (IF keys = <<>> THEN first ELSE keys[Len(keys)]) <= step
<1> DEFINE keys == SplitPoints(first, step, end)
           n == (end - 1 - first) \div step
<1>1. /\ Len(keys) = n /\ n \in Nat
      /\ \A i \in 1 .. Len(keys) : keys[i] = first + i * step
  BY PointsShape
<1>2. end - 1 - first < step * n + step
  BY Quotient, SMT
<1>3. keys \in Seq(Int)
  <2>1. \A i \in 1 .. n : first + i * step \in Int
    BY <1>1, SMT
  <2> QED
    BY <1>1, <2>1, SMT DEF SplitPoints
<1> HIDE DEF keys, n
<1>4. ASSUME NEW i \in 2 .. Len(keys) PROVE keys[i] - keys[i - 1] = step
  <2>1. i \in 1 .. Len(keys) /\ i - 1 \in 1 .. Len(keys) /\ i \in Nat
    BY <1>1, SMT
  <2>2. i * step = (i - 1) * step + step /\ (i - 1) * step \in Nat
    BY <2>1, SMT
  <2> QED
    BY <1>1, <2>1, <2>2, SMT
<1>5. end - (IF keys = <<>> THEN first ELSE keys[Len(keys)]) <= step
  <2>1. CASE n = 0
    <3>1. keys = <<>>
      BY <1>1, <1>3, <2>1, SMT
    <3> QED
      BY <1>2, <2>1, <3>1, SMT
  <2>2. CASE n # 0
    <3>1. keys # <<>> /\ n \in 1 .. Len(keys)
      BY <1>1, <1>3, <2>2, SMT
    <3>2. keys[Len(keys)] = first + n * step
      BY <1>1, <3>1
    <3>3. n * step = step * n /\ step * n \in Nat
      BY <1>1, SMT
    <3> QED
      BY <1>2, <3>1, <3>2, <3>3, SMT
  <2> QED
    BY <2>1, <2>2
<1> QED
  BY <1>4, <1>5 DEF keys

\* A table without a limit per shard gets no more shards than the minimum asks for, so
\* ShardCount is that minimum.
THEOREM SmallTablesKeepMinimum ==
    ASSUME NEW warehouses \in Nat \ {0}, NEW parts \in Nat \ {0}
    PROVE  ShardCount(parts, WarehouseKeys(warehouses, PerShard(warehouses, parts))) = parts
<1> DEFINE s == PerShard(warehouses, parts)
           keys == WarehouseKeys(warehouses, s)
           n == (warehouses - 1) \div s
<1>1. s \in Nat \ {0} /\ warehouses <= parts * s
  <2>1. /\ s \in Nat /\ parts * s <= warehouses + parts - 1
        /\ warehouses + parts - 1 < parts * s + parts
    BY Quotient, SMT DEF PerShard
  <2>2. parts * s \in Nat
    BY <2>1, SMT
  <2>3. warehouses <= parts * s
    BY <2>1, <2>2, SMT
  <2>4. s # 0
    <3> SUFFICES ASSUME s = 0 PROVE FALSE
      OBVIOUS
    <3>1. parts * s = 0
      BY SMT
    <3> QED
      BY <2>3, <3>1, SMT
  <2> QED
    BY <2>1, <2>3, <2>4
<1> HIDE DEF s
<1>2. CASE s < 2
  <2>1. keys = <<>>
    BY <1>2 DEF WarehouseKeys
  <2> QED
    BY <2>1 DEF ShardCount, s
<1>3. CASE ~(s < 2)
  <2>1. keys = SplitPoints(1, s, warehouses + 1)
    BY <1>3 DEF WarehouseKeys
  <2>2. Len(keys) = n /\ n \in Nat
    <3>1. (warehouses + 1) - 1 - 1 = warehouses - 1 /\ 1 < warehouses + 1
          /\ 1 \in Nat /\ warehouses + 1 \in Nat
      BY SMT
    <3>2. /\ Len(SplitPoints(1, s, warehouses + 1)) = ((warehouses + 1) - 1 - 1) \div s
          /\ ((warehouses + 1) - 1 - 1) \div s \in Nat
      BY <1>1, <3>1, PointsShape
    <3> QED
      BY <2>1, <3>1, <3>2
  <2>3. s * n <= warehouses - 1
    BY <1>1, Quotient, SMT
  <2> HIDE DEF n, keys
  <2>4. n < parts
    <3> SUFFICES ASSUME parts <= n PROVE FALSE
      BY <2>2, SMT
    <3>1. s * parts <= s * n
      BY <1>1, <2>2, Monotone
    <3>2. s * parts = parts * s /\ s * parts \in Nat /\ s * n \in Nat
      BY <1>1, <2>2, SMT
    <3> QED
      BY <1>1, <2>3, <3>1, <3>2, SMT
  <2>5. ShardCount(parts, keys) = parts
    <3>1. Larger(parts, n + 1) = parts
      BY <2>2, <2>4, SMT DEF Larger
    <3> QED
      BY <2>2, <3>1 DEF ShardCount
  <2> QED
    BY <2>5 DEF keys, s
<1> QED
  BY <1>2, <1>3 DEF s

\* Every table gets at least the minimum of shards and one for each of its key ranges.
THEOREM ShardCountSuffices ==
    ASSUME NEW parts \in Nat \ {0}, NEW keys \in Seq(Int)
    PROVE  /\ ShardCount(parts, keys) >= parts
           /\ ShardCount(parts, keys) >= Len(keys) + 1
<1>1. Len(keys) \in Nat /\ (keys = <<>> => Len(keys) = 0)
  BY SMT
<1> QED
  BY <1>1, SMT DEF ShardCount, Larger
=============================================================================
