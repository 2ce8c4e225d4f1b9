------------------------------- MODULE TpccRun -------------------------------
(***************************************************************************)
(* tpcc/ydb/run_ydb.sh: one TPC-C benchmark after another against the same *)
(* database and from the same client hosts.                                *)
(*                                                                         *)
(* An invocation is a sequence of phases (pc).  It starts one loader, later*)
(* one benchmark client, per line of the hosts file with "ssh ... &" and   *)
(* waits for them in order.  A failed phase, the first failed wait, or a   *)
(* signal ends the script and leaves the other remote processes behind, to *)
(* be met by the next invocation.                                          *)
(*                                                                         *)
(* External: the remote tpcc.sh processes, YDB and its index build.        *)
(***************************************************************************)
EXTENDS WarehousePartition, FiniteSets

CONSTANTS
  W,          \* --warehouses
  N,          \* lines of the hosts file: clients 1 .. N
  Options,    \* the command lines used: sets of flags
  MaxRuns     \* bound on the number of invocations

ASSUME RunAssumption ==
  /\ W \in Nat /\ N \in Nat \ {0}
  /\ HostConfigOK(W, N, N)       \* or generate-configs refuses
  /\ MaxRuns \in Nat
  /\ \A o \in Options :
       o \subseteq {"no_load", "no_drop_create", "no_run", "only_run",
                    "compact", "skip_compaction"}

VARIABLES
  pc,           \* phase of the current invocation, or how the last one ended
  opt,          \* its flags
  run,          \* its number
  waitFor,      \* the client whose pid the script waits for
  uniqueHosts,  \* whether the temporary file $unique_hosts exists
  procs,        \* ssh commands started by this and earlier invocations
  tables,       \* the TPC-C tables: "none", "partial" or "created"
  rows,         \* how each warehouse has been loaded into them
  index,        \* the secondary indices
  results,      \* per client: invocations whose results_<k> is on its host
  copied        \* the same, as copied into $results_dir

script == <<pc, opt, run, waitFor, uniqueHosts>>
db     == <<tables, rows, index>>
vars   == <<script, procs, db, results, copied>>

Clients    == 1 .. N
Warehouses == 1 .. W

\* The warehouses client k loads: --start-from-id and the config's count.
Share(k) == WarehouseIds(StartWarehouse(W, N, k), HostWarehouses(W, N, k))

Ended == {"idle", "done", "failed", "interrupted"}

Phases == Ended \cup
  {"kill", "create", "configs", "load", "waitLoad", "split", "compact", "index",
   "waitIndex", "recompact", "clean", "run", "waitRun", "copy", "aggregate"}

-----------------------------------------------------------------------------
(* Remote processes.  "starting" is the local ssh before its command runs. *)

Proc(kind, k, r) ==
  [kind |-> kind, client |-> k, run |-> r, state |-> "starting",
   todo |-> IF kind = "load" THEN Share(k) ELSE {}]

Running == {p \in procs : p.state = "running"}

Becomes(p, q) == procs' = (procs \ {p}) \cup {q}

\* The command begins on the host, or ssh fails.
StartProc(p) ==
  /\ p.state = "starting"
  /\ \E s \in {"running", "failed"} : Becomes(p, [p EXCEPT !.state = s])
  /\ UNCHANGED <<script, db, results, copied>>

\* A loader inserts the rows of one more warehouse.
LoadWarehouse(p) ==
  /\ p.state = "running"
  /\ \E w \in p.todo :
       /\ Becomes(p, [p EXCEPT !.todo = @ \ {w}])
       /\ tables = "created"
       /\ rows' = [rows EXCEPT ![w] = IF @ = "none" THEN "full" ELSE "spoilt"]
  /\ UNCHANGED <<script, tables, index, results, copied>>

\* A process that has nothing left to do succeeds; a client writes its results.
FinishProc(p) ==
  /\ p.state = "running"
  /\ p.todo = {}
  /\ Becomes(p, [p EXCEPT !.state = "ok"])
  /\ results' = IF p.kind = "run"
                THEN [results EXCEPT ![p.client] = @ \cup {p.run}] ELSE results
  /\ UNCHANGED <<script, db, copied>>

\* A process fails, a loader in the middle of some warehouse.
FailProc(p) ==
  /\ p.state = "running"
  /\ Becomes(p, [p EXCEPT !.state = "failed"])
  /\ rows' \in {rows} \cup {[rows EXCEPT ![w] = "spoilt"] : w \in p.todo}
  /\ UNCHANGED <<script, tables, index, results, copied>>

\* YDB finishes building the indices.
BuildIndex ==
  /\ index = "building"
  /\ index' \in {"ready", "failed"}
  /\ UNCHANGED <<script, procs, tables, rows, results, copied>>

-----------------------------------------------------------------------------
(* Phases of the script.                                                   *)

\* Option parsing: --run-phase-only implies --no-load, which implies
\* --no-drop-create.
Normalise(o) ==
  LET o1 == IF "only_run" \in o THEN o \cup {"no_load"} ELSE o
  IN  IF "no_load" \in o1 THEN o1 \cup {"no_drop_create"} ELSE o1

Goto(from, to) == pc = from /\ pc' = to

Invoke(o) ==
  /\ pc \in Ended
  /\ run < MaxRuns
  /\ \A p \in procs : p.state # "starting"  \* the user is slower than ssh
  /\ pc' = "kill"
  /\ run' = run + 1
  /\ opt' = Normalise(o)
  /\ uniqueHosts' = TRUE
  /\ copied' = [k \in Clients |-> {}]
  /\ UNCHANGED <<waitFor, procs, db, results>>

\* Mutants: the processes, or the results, of earlier invocations are kept.
KillRemoteNobody(hostsFileExists) ==
  /\ results' = IF hostsFileExists THEN [k \in Clients |-> {}] ELSE results
  /\ UNCHANGED procs
KillRemoteKeepsResults(hostsFileExists) ==
  /\ procs' = IF hostsFileExists THEN procs \ Running ELSE procs
  /\ UNCHANGED results

\* kill_tpcc: pkill and rm -rf results_* on the hosts listed in $unique_hosts; the
\* hosts are taken to be reachable then.
KillRemote(hostsFileExists) ==
  IF hostsFileExists
  THEN /\ procs' = procs \ Running
       /\ results' = [k \in Clients |-> {}]
  ELSE UNCHANGED <<procs, results>>

Kill ==
  /\ pc = "kill"
  /\ KillRemote(uniqueHosts)
  /\ pc' = IF "no_drop_create" \notin opt THEN "create"
           ELSE IF {"no_load", "no_run"} \subseteq opt THEN "done" ELSE "configs"
  /\ UNCHANGED <<opt, run, waitFor, uniqueHosts, db, copied>>

\* tpcc_helper create: drop all tables, then create them, one after the other.
Create ==
  /\ \/ Goto("create", "configs") /\ tables' = "created"
     \/ Goto("create", "failed")  /\ tables' = "partial"
  /\ rows' = [w \in Warehouses |-> "none"]
  /\ index' = "none"
  /\ UNCHANGED <<opt, run, waitFor, uniqueHosts, procs, results, copied>>

\* generate-configs, scp to every host and wait.
UploadConfigs ==
  /\ \/ Goto("configs", IF "no_load" \in opt THEN "recompact" ELSE "load")
     \/ Goto("configs", "failed")
  /\ UNCHANGED <<opt, run, waitFor, uniqueHosts, procs, db, results, copied>>

Launch(kind, from, to) ==
  /\ Goto(from, to)
  /\ procs' = procs \cup {Proc(kind, k, run) : k \in Clients}
  /\ waitFor' = 1
  /\ UNCHANGED <<opt, run, uniqueHosts, db, results, copied>>

LaunchLoaders == Launch("load", "load", "waitLoad")

\* Mutants: one pid too many is waited for; only the last one is; a failure is
\* waited for as if the process were still there.
WaitForOneMore(kind, from, to) ==
  /\ \E p \in procs :
       /\ p.kind = kind /\ p.client = waitFor /\ p.run = run
       /\ p.state = "ok"
       /\ waitFor' = waitFor + 1
       /\ Goto(from, IF waitFor > N THEN to ELSE from)
  /\ UNCHANGED <<opt, run, uniqueHosts, procs, db, results, copied>>
WaitForLastOnly(kind, from, to) ==
  /\ \E p \in procs :
       /\ p.kind = kind /\ p.client = N /\ p.run = run
       /\ p.state \in {"ok", "failed"}
       /\ Goto(from, IF p.state = "ok" THEN to ELSE "failed")
  /\ UNCHANGED <<opt, run, waitFor, uniqueHosts, procs, db, results, copied>>
WaitForSuccess(kind, from, to) ==
  /\ \E p \in procs :
       /\ p.kind = kind /\ p.client = waitFor /\ p.run = run
       /\ p.state = "ok"
       /\ waitFor' = IF waitFor < N THEN waitFor + 1 ELSE waitFor
       /\ Goto(from, IF waitFor < N THEN from ELSE to)
  /\ UNCHANGED <<opt, run, uniqueHosts, procs, db, results, copied>>

\* "wait $pid" for each pid in turn; the first failure ends the script.
WaitFor(kind, from, to) ==
  /\ \E p \in procs :
       /\ p.kind = kind /\ p.client = waitFor /\ p.run = run
       /\ \/ /\ p.state = "ok" /\ waitFor < N
             /\ Goto(from, from)
             /\ waitFor' = waitFor + 1
          \/ /\ p.state = "ok" /\ waitFor = N
             /\ Goto(from, to)
             /\ UNCHANGED waitFor
          \/ /\ p.state = "failed"
             /\ Goto(from, "failed")
             /\ UNCHANGED waitFor
  /\ UNCHANGED <<opt, run, uniqueHosts, procs, db, results, copied>>

WaitLoaders == WaitFor("load", "waitLoad", "split")

EnableSplitByLoad ==
  /\ \/ Goto("split", IF "skip_compaction" \in opt THEN "index" ELSE "compact")
     \/ Goto("split", "failed")
  /\ UNCHANGED <<opt, run, waitFor, uniqueHosts, procs, db, results, copied>>

\* run_compaction; after the load it also rules out the later one.
RunCompaction(from, to) ==
  /\ \/ Goto(from, to) /\ opt' = opt \cup {"skip_compaction"}
     \/ Goto(from, "failed") /\ UNCHANGED opt
  /\ UNCHANGED <<run, waitFor, uniqueHosts, procs, db, results, copied>>

\* tpcc_helper index: returns when both ALTER TABLE have been sent.
CreateIndices ==
  /\ \/ Goto("index", "waitIndex") /\ index' = "building"
     \/ Goto("index", "failed") /\ index' \in {index, "building"}
  /\ UNCHANGED <<opt, run, waitFor, uniqueHosts, procs, tables, rows, results, copied>>

\* tpcc_helper wait-index polls until the builds have ended, well or not.  The
\* script does not look at its exit code.
WaitIndicesReady ==
  /\ index # "building"
  /\ Goto("waitIndex", "recompact")
  /\ UNCHANGED <<opt, run, waitFor, uniqueHosts, procs, db, results, copied>>

\* It ends before they have when the ydb CLI fails for good, or lists operations
\* without the new ones (IndexBuild).
WaitIndicesCutShort ==
  /\ index = "building"
  /\ Goto("waitIndex", "recompact")
  /\ UNCHANGED <<opt, run, waitFor, uniqueHosts, procs, db, results, copied>>

\* --compact without a load in this invocation.
Recompact ==
  LET next == IF "no_run" \in opt THEN "done" ELSE "clean" IN
  IF "compact" \in opt /\ "skip_compaction" \notin opt
  THEN RunCompaction("recompact", next)
  ELSE /\ Goto("recompact", next)
       /\ UNCHANGED <<opt, run, waitFor, uniqueHosts, procs, db, results, copied>>

\* "rm -rf results_*" on every host; whether ssh worked is not checked.
CleanResults ==
  /\ Goto("clean", "run")
  /\ results' \in [Clients -> {{}} \cup {results[k] : k \in Clients}]
  /\ \A k \in Clients : results'[k] \in {{}, results[k]}
  /\ UNCHANGED <<opt, run, waitFor, uniqueHosts, procs, db, copied>>

LaunchClients == Launch("run", "run", "waitRun")

WaitClients == WaitFor("run", "waitRun", "copy")

\* "scp -r $host:$tpcc_path/results_* ./", also unchecked: one that fails leaves
\* its clients out of what is aggregated, and the script goes on.
CopyResults ==
  /\ Goto("copy", "aggregate")
  /\ copied' \in [Clients -> {{}} \cup {results[k] : k \in Clients}]
  /\ \A k \in Clients : copied'[k] \in {{}, results[k]}
  /\ UNCHANGED <<opt, run, waitFor, uniqueHosts, procs, db, results>>

Aggregate ==
  /\ Goto("aggregate", "done")
  /\ UNCHANGED <<opt, run, waitFor, uniqueHosts, procs, db, results, copied>>

\* trap cleanup SIGINT SIGTERM: removes $unique_hosts, then calls kill_tpcc.
Cleanup ==
  /\ pc \notin Ended
  /\ pc' = "interrupted"
  /\ uniqueHosts' = FALSE
  /\ KillRemote(uniqueHosts')
  /\ UNCHANGED <<opt, run, waitFor, db, copied>>

-----------------------------------------------------------------------------
Init ==
  /\ pc = "idle" /\ opt = {} /\ run = 0 /\ waitFor = 1 /\ uniqueHosts = FALSE
  /\ procs = {}
  /\ tables = "none" /\ rows = [w \in Warehouses |-> "none"] /\ index = "none"
  /\ results = [k \in Clients |-> {}]
  /\ copied = [k \in Clients |-> {}]

ScriptStep ==
  \/ Kill \/ Create \/ UploadConfigs
  \/ LaunchLoaders \/ WaitLoaders \/ EnableSplitByLoad
  \/ RunCompaction("compact", "index") \/ CreateIndices \/ WaitIndicesReady
  \/ Recompact \/ CleanResults \/ LaunchClients \/ WaitClients
  \/ CopyResults \/ Aggregate

ProcStep(p) == StartProc(p) \/ LoadWarehouse(p) \/ FinishProc(p) \/ FailProc(p)

Next ==
  \/ \E o \in Options : Invoke(o)
  \/ ScriptStep
  \/ WaitIndicesCutShort
  \/ Cleanup
  \/ \E p \in procs : ProcStep(p)
  \/ BuildIndex

\* The script goes on when it can (a command it runs in the foreground ends), remote
\* processes end: they either make progress or fail; and YDB ends its index builds,
\* which wait-index polls for without a limit.
Fairness ==
  /\ WF_vars(ScriptStep)
  /\ WF_vars(\E p \in procs : ProcStep(p))
  /\ WF_vars(BuildIndex)

Spec == Init /\ [][Next]_vars /\ Fairness

-----------------------------------------------------------------------------
TypeOK ==
  /\ pc \in Phases /\ run \in 0 .. MaxRuns /\ waitFor \in Clients
  /\ uniqueHosts \in BOOLEAN
  /\ \A p \in procs :
       /\ p.kind \in {"load", "run"} /\ p.client \in Clients /\ p.run \in 1 .. run
       /\ p.state \in {"starting", "running", "ok", "failed"}
       /\ p.todo \subseteq Warehouses
  /\ tables \in {"none", "partial", "created"}
  /\ rows \in [Warehouses -> {"none", "full", "spoilt"}]
  /\ index \in {"none", "building", "ready", "failed"}
  /\ results \in [Clients -> SUBSET (1 .. run)]
  /\ copied \in [Clients -> SUBSET (1 .. run)]

AfterLoad == {"split", "compact", "index", "waitIndex", "recompact", "clean",
              "run", "waitRun", "copy", "aggregate"}

\* After a load that started from new tables every warehouse is loaded, once:
\* neither a loader that failed unnoticed nor one that an earlier, failed or
\* interrupted invocation left running has touched the data.
LoadedOnce ==
  pc \in AfterLoad /\ opt \cap {"no_load", "no_drop_create"} = {}
    => \A w \in Warehouses : rows[w] = "full"

\* No loader of any invocation is alive while the benchmark runs.
NoLoadDuringRun ==
  pc \in {"clean", "run", "waitRun", "copy", "aggregate"} =>
    \A p \in procs : p.kind = "load" => p.state \in {"ok", "failed"}

\* After the benchmark each client has results of this invocation on its host and no
\* others, although results_<k> has the same name in every invocation; what is
\* aggregated of a client is that, or nothing at all if its copy failed.
AggregatesOwnResults ==
  pc = "aggregate" =>
    \A k \in Clients : results[k] = {run} /\ copied[k] \subseteq {run}

\* An invocation comes to an end.
Terminates == (pc \notin Ended) ~> (pc \in Ended)

=============================================================================
