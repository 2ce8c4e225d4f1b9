---------------------------- MODULE TpccRun_proofs ----------------------------
(***************************************************************************)
(* The data that the benchmark runs on, and the results it reports, are    *)
(* those of the current invocation, although remote processes outlive the  *)
(* script.  The invariant follows the processes that may still do          *)
(* something: after kill_tpcc there are none but those of the phase that   *)
(* is being waited for, and each warehouse belongs to one loader.          *)
(***************************************************************************)
EXTENDS TpccRun, TLAPS

-----------------------------------------------------------------------------
(* The clients' ranges partition the warehouses, for every number of           *)
(* warehouses and of clients that HostConfig accepts.                          *)

\* The ids that client k loads and runs on.
ClientIds(total, n, k) ==
    WarehouseIds(StartWarehouse(total, n, k), HostWarehouses(total, n, k))

\* Multiplication by a natural number is monotone.
LEMMA MulMonotone ==
    ASSUME NEW c \in Nat, NEW a \in Int, NEW b \in Int, a <= b
    PROVE  c * a <= c * b
<1>1. PICK d \in Nat : b = a + d
  BY SMT
<1>2. c * b = c * a + c * d
  BY <1>1, SMT
<1>3. c * d \in Nat
  BY <1>1, SMT
<1>4. c * a \in Int /\ c * b \in Int
  BY SMT
<1> QED
  BY <1>2, <1>3, <1>4, SMT

\* The share of a client is a natural number (HostConfig rounds up).
LEMMA PerHostType ==
    ASSUME NEW total \in Nat, NEW n \in Nat \ {0}
    PROVE  /\ WarehousesPerHost(total, n) \in Nat
           /\ total > 0 => WarehousesPerHost(total, n) > 0
  BY SMT DEF WarehousesPerHost

\* The upper end of every client's range: the last client ends at total, the
\* others where the next one begins.
LEMMA RangeShape ==
    ASSUME NEW total \in Nat, NEW n \in Nat \ {0}, NEW k \in 1 .. n
    PROVE  /\ StartWarehouse(total, n, k) \in Nat \ {0}
           /\ k # n => LastWarehouse(total, n, k) = WarehousesPerHost(total, n) * k
           /\ k = n => LastWarehouse(total, n, k) = total
<1> DEFINE c == WarehousesPerHost(total, n)
<1>1. c \in Nat
  BY PerHostType
<1>2. c * (k - 1) \in Nat /\ c * k \in Nat /\ c * k = c * (k - 1) + c
  BY <1>1, SMT
<1>3. StartWarehouse(total, n, k) = 1 + c * (k - 1)
  BY DEF StartWarehouse
<1> HIDE DEF c
<1>4. CASE k = n
  <2>1. HostWarehouses(total, n, k) = total - c * (k - 1)
    BY <1>4 DEF HostWarehouses, c
  <2> QED
    BY <1>1, <1>2, <1>3, <1>4, <2>1, SMT DEF LastWarehouse
<1>5. CASE k # n
  <2>1. HostWarehouses(total, n, k) = c
    BY <1>5 DEF HostWarehouses, c
  <2>2. LastWarehouse(total, n, k) = c * k
    BY <1>1, <1>2, <1>3, <2>1, SMT DEF LastWarehouse
  <2> QED
    BY <1>2, <1>3, <1>5, <2>2 DEF c
<1> QED
  BY <1>4, <1>5

\* Only the last client can be refused: HostConfig's assertion holds for every
\* client as soon as it holds for the last one.
THEOREM LastHostDecides ==
    ASSUME NEW total \in Nat, NEW n \in Nat \ {0}, HostConfigOK(total, n, n)
    PROVE  \A k \in 1 .. n : HostConfigOK(total, n, k)
<1> DEFINE c == WarehousesPerHost(total, n)
<1>1. c \in Nat /\ (total > 0 => c > 0)
  BY PerHostType
<1>2. c * (n - 1) \in Nat
  BY <1>1, SMT
<1>3. total - c * (n - 1) > 0
  BY DEF HostConfigOK, HostWarehouses
<1>4. total > 0
  BY <1>2, <1>3, SMT
<1>5. c > 0
  BY <1>1, <1>4
<1> SUFFICES ASSUME NEW k \in 1 .. n PROVE HostConfigOK(total, n, k)
  OBVIOUS
<1> QED
  BY <1>3, <1>5 DEF HostConfigOK, HostWarehouses

\* No warehouse is given to two clients.
THEOREM RangesDisjoint ==
    ASSUME NEW total \in Nat, NEW n \in Nat \ {0},
           NEW j \in 1 .. n, NEW k \in 1 .. n, j < k
    PROVE  ClientIds(total, n, j) \cap ClientIds(total, n, k) = {}
<1> DEFINE c == WarehousesPerHost(total, n)
<1>1. c \in Nat
  BY PerHostType
<1>2. c * j <= c * (k - 1)
  BY <1>1, MulMonotone, SMT
<1>3. c * j \in Nat /\ c * (k - 1) \in Nat
  BY <1>1, SMT
<1>4. LastWarehouse(total, n, j) = c * j
  BY RangeShape
<1>5. StartWarehouse(total, n, k) = 1 + c * (k - 1)
  BY DEF StartWarehouse
<1>6. LastWarehouse(total, n, j) < StartWarehouse(total, n, k)
  BY <1>2, <1>3, <1>4, <1>5, SMT
<1>7. ClientIds(total, n, j) = StartWarehouse(total, n, j) .. LastWarehouse(total, n, j)
  BY DEF ClientIds, WarehouseIds, LastWarehouse
<1>8. ClientIds(total, n, k) = StartWarehouse(total, n, k) .. LastWarehouse(total, n, k)
  BY DEF ClientIds, WarehouseIds, LastWarehouse
<1>9. /\ StartWarehouse(total, n, j) \in Int
      /\ StartWarehouse(total, n, k) \in Int
      /\ LastWarehouse(total, n, j) \in Int
  BY <1>3, <1>4, RangeShape
<1>10. LastWarehouse(total, n, k) \in Int
  <2>1. CASE k = n  BY <2>1, RangeShape
  <2>2. CASE k # n
    <3>1. c * k \in Nat  BY <1>1, SMT
    <3> QED  BY <2>2, <3>1, RangeShape
  <2> QED  BY <2>1, <2>2
<1> QED
  BY <1>6, <1>7, <1>8, <1>9, <1>10, SMT

\* Every warehouse is given to some client.
THEOREM RangesCover ==
    ASSUME NEW total \in Nat, NEW n \in Nat \ {0}, NEW w \in 1 .. total
    PROVE  \E k \in 1 .. n : w \in ClientIds(total, n, k)
<1> DEFINE c == WarehousesPerHost(total, n)
<1>1. c \in Nat \ {0}
  BY PerHostType
<1>2. c * (n - 1) \in Nat
  BY <1>1, SMT
<1>3. \A k \in 1 .. n :
        /\ ClientIds(total, n, k) = StartWarehouse(total, n, k) .. LastWarehouse(total, n, k)
        /\ StartWarehouse(total, n, k) = 1 + c * (k - 1)
  BY DEF ClientIds, WarehouseIds, LastWarehouse, StartWarehouse
<1> HIDE DEF c
<1>4. CASE w > c * (n - 1)
  <2>1. LastWarehouse(total, n, n) = total
    BY RangeShape
  <2>2. w \in StartWarehouse(total, n, n) .. LastWarehouse(total, n, n)
    BY <1>2, <1>3, <1>4, <2>1, SMT
  <2>3. n \in 1 .. n
    BY SMT
  <2> QED
    BY <1>3, <2>2, <2>3
<1>5. CASE w <= c * (n - 1)
  <2> DEFINE q == (w - 1) \div c
             k == q + 1
  <2>1. q \in Nat /\ c * q <= w - 1 /\ w - 1 < c * q + c
    BY <1>1, SMT
  <2>2. c * k = c * q + c /\ c * q \in Nat
    BY <1>1, <2>1, SMT
  <2>3. k < n
    <3>1. SUFFICES ASSUME k >= n PROVE FALSE
      BY <2>1, SMT
    <3>2. c * (n - 1) <= c * q
      BY <1>1, <2>1, <3>1, MulMonotone, SMT
    <3> QED
      BY <1>1, <1>2, <1>5, <2>1, <2>2, <3>2, SMT
  <2>4. k \in 1 .. n /\ k # n
    BY <2>1, <2>3, SMT
  <2>5. LastWarehouse(total, n, k) = c * k
    BY <2>4, RangeShape DEF c
  <2>6. StartWarehouse(total, n, k) = 1 + c * q
    <3>1. k - 1 = q  BY <2>1, SMT
    <3> QED  BY <1>3, <2>4, <3>1
  <2>7. w \in StartWarehouse(total, n, k) .. LastWarehouse(total, n, k)
    BY <2>1, <2>2, <2>5, <2>6, <1>1, SMT
  <2> QED
    BY <1>3, <2>4, <2>7
<1> QED
  BY <1>2, <1>4, <1>5, SMT

\* When HostConfig accepts the last client, no client gets an id outside 1..total.
THEOREM RangesWithin ==
    ASSUME NEW total \in Nat, NEW n \in Nat \ {0}, HostConfigOK(total, n, n),
           NEW k \in 1 .. n
    PROVE  ClientIds(total, n, k) \subseteq 1 .. total
<1> DEFINE c == WarehousesPerHost(total, n)
<1>1. c \in Nat
  BY PerHostType
<1>2. c * (n - 1) \in Nat /\ c * k \in Nat
  BY <1>1, SMT
<1>3. c * (n - 1) < total
  BY <1>2, SMT DEF HostConfigOK, HostWarehouses
<1>4. LastWarehouse(total, n, k) \in Int /\ LastWarehouse(total, n, k) <= total
  <2>1. CASE k = n
    BY <2>1, RangeShape
  <2>2. CASE k # n
    <3>1. c * k <= c * (n - 1)
      BY <1>1, <2>2, MulMonotone, SMT
    <3>2. LastWarehouse(total, n, k) = c * k
      BY <2>2, RangeShape
    <3> QED
      BY <1>2, <1>3, <3>1, <3>2, SMT
  <2> QED
    BY <2>1, <2>2
<1>5. ClientIds(total, n, k) = StartWarehouse(total, n, k) .. LastWarehouse(total, n, k)
  BY DEF ClientIds, WarehouseIds, LastWarehouse
<1>6. StartWarehouse(total, n, k) \in Nat \ {0}
  BY RangeShape
<1> QED
  BY <1>4, <1>5, <1>6, SMT

-----------------------------------------------------------------------------
(* The inductive invariant.                                                    *)

ProcType == [kind: {"load", "run"}, client: Clients, run: Nat,
             state: {"starting", "running", "ok", "failed"},
             todo: SUBSET Warehouses]

Types ==
  /\ TypeOK
  /\ procs \subseteq ProcType
  /\ pc \notin Ended => run > 0

\* The kind of the processes that a phase waits for.
Waiting == pc \in {"waitLoad", "waitRun"}
Kind == IF pc = "waitLoad" THEN "load" ELSE "run"

\* The processes launched by this invocation.
Mine(p, kind) == p.run = run /\ p.kind = kind

Alive(p) == p.state \in {"starting", "running"}

\* While the script runs it has a hosts file to kill with, and what it kills has
\* started; later on only what is waited for is alive.
OnlyWaitedForAlive ==
  /\ pc \notin Ended => uniqueHosts
  /\ pc = "kill" => \A p \in procs : p.state # "starting"
  /\ pc \notin Ended \cup {"kill"} =>
       \A p \in procs : Alive(p) => Waiting /\ Mine(p, Kind)

\* One process per kind, client and invocation, launched in its phase; a client's
\* pid is passed only when its process has succeeded.
OneProcess ==
  /\ \A p, q \in procs :
       p.kind = q.kind /\ p.client = q.client /\ p.run = q.run => p = q
  /\ \A p \in procs :
       /\ Mine(p, "load") => pc \in {"waitLoad"} \cup AfterLoad \cup Ended
       /\ Mine(p, "run")  => pc \in {"waitRun", "copy", "aggregate"} \cup Ended
       /\ p.kind = "run" \/ p.state = "ok" => p.todo = {}
  /\ Waiting => \A k \in Clients :
       \E p \in procs : /\ Mine(p, Kind) /\ p.client = k
                        /\ k < waitFor => p.state = "ok"

NewTables == opt \cap {"no_load", "no_drop_create"} = {}

\* What is loaded into new tables, loader by loader.
Loading ==
  /\ pc \in {"configs", "load"} /\ NewTables => \A w \in Warehouses : rows[w] = "none"
  /\ pc = "waitLoad" =>
       \A p \in procs : Mine(p, "load") => p.todo \subseteq Share(p.client)
  /\ pc = "waitLoad" /\ NewTables =>
       \A p \in procs : Mine(p, "load") /\ p.state # "failed" =>
         \A w \in Share(p.client) :
           rows[w] = IF w \in p.todo THEN "none" ELSE "full"

\* The results on the hosts are those of the clients that have finished.
OwnResults ==
  /\ pc \notin Ended \cup {"kill", "waitRun", "copy", "aggregate"} =>
       \A k \in Clients : results[k] = {}
  /\ pc = "waitRun" =>
       \A p \in procs : Mine(p, "run") =>
         results[p.client] = IF p.state = "ok" THEN {run} ELSE {}
  /\ pc \in {"copy", "aggregate"} => \A k \in Clients : results[k] = {run}

IInv ==
  Types /\ OnlyWaitedForAlive /\ OneProcess /\ Loading /\ OwnResults
  /\ LoadedOnce /\ NoLoadDuringRun /\ AggregatesOwnResults

-----------------------------------------------------------------------------
\* Each warehouse is loaded by one client.
LEMMA ShareFacts ==
  /\ \A k \in Clients : Share(k) \subseteq Warehouses
  /\ \A j, k \in Clients : j # k => Share(j) \cap Share(k) = {}
  /\ \A w \in Warehouses : \E k \in Clients : w \in Share(k)
  <1>1. \A k \in Clients : Share(k) = ClientIds(W, N, k)
    BY DEF Share, ClientIds
  <1>2. \A k \in Clients : Share(k) \subseteq Warehouses
    BY <1>1, RunAssumption, RangesWithin DEF Clients, Warehouses
  <1>3. ASSUME NEW j \in Clients, NEW k \in Clients, j # k
        PROVE  Share(j) \cap Share(k) = {}
    <2>1. CASE j < k
      BY <1>1, <2>1, RunAssumption, RangesDisjoint DEF Clients
    <2>2. CASE k < j
      BY <1>1, <2>2, RunAssumption, RangesDisjoint DEF Clients
    <2> QED BY <1>3, <2>1, <2>2, RunAssumption DEF Clients
  <1>4. \A w \in Warehouses : \E k \in Clients : w \in Share(k)
    BY <1>1, RunAssumption, RangesCover DEF Clients, Warehouses
  <1> QED BY <1>2, <1>3, <1>4

\* Everything holds before the first invocation.
LEMMA InitHolds == Init => IInv
  <1> USE DEF Ended, AfterLoad
  <1> SUFFICES ASSUME Init PROVE IInv
    OBVIOUS
  <1>1. Types
    <2>1. 0 \in 0 .. MaxRuns /\ 1 \in Clients
      BY RunAssumption DEF Clients
    <2> QED BY <2>1 DEF Init, Types, TypeOK, Phases
  <1>2. OnlyWaitedForAlive /\ OneProcess /\ Loading /\ OwnResults
    BY DEF Init, OnlyWaitedForAlive, OneProcess, Loading, OwnResults, Waiting
  <1>3. LoadedOnce /\ NoLoadDuringRun /\ AggregatesOwnResults
    BY DEF Init, LoadedOnce, NoLoadDuringRun, AggregatesOwnResults
  <1> QED BY <1>1, <1>2, <1>3 DEF IInv

\* The phases in which the script deals with the database only.
Quiet ==
  /\ UNCHANGED <<run, waitFor, uniqueHosts, procs, rows, results, copied>>
  /\ tables' \in {"none", "partial", "created"}
  /\ index' \in {"none", "building", "ready", "failed"}
  /\ opt' \in {opt, opt \cup {"skip_compaction"}}
  /\ \/ UNCHANGED <<pc, opt>>
     \/ pc = "configs" /\ pc' = "load"
     \/ pc = "configs" /\ pc' = "recompact" /\ "no_load" \in opt
     \/ /\ pc \in {"split", "compact", "index", "waitIndex", "recompact"}
        /\ pc' \in {"compact", "index", "waitIndex", "recompact", "clean"}
     \/ pc \notin Ended /\ pc' \in Ended

LEMMA QuietActions ==
  ASSUME TypeOK,
         \/ UploadConfigs \/ EnableSplitByLoad \/ RunCompaction("compact", "index")
         \/ CreateIndices \/ WaitIndicesReady \/ WaitIndicesCutShort
         \/ Recompact \/ Aggregate \/ BuildIndex \/ UNCHANGED vars
  PROVE  Quiet
  <1> USE DEF Quiet, Goto, Ended, TypeOK, db, script
  <1>1. CASE UploadConfigs
    BY <1>1 DEF UploadConfigs
  <1>2. CASE EnableSplitByLoad
    BY <1>2 DEF EnableSplitByLoad
  <1>3. CASE RunCompaction("compact", "index")
    BY <1>3 DEF RunCompaction
  <1>4. CASE CreateIndices
    BY <1>4 DEF CreateIndices
  <1>5. CASE WaitIndicesReady
    BY <1>5 DEF WaitIndicesReady
  <1>10. CASE WaitIndicesCutShort
    BY <1>10 DEF WaitIndicesCutShort
  <1>6. CASE Recompact
    BY <1>6 DEF Recompact, RunCompaction
  <1>7. CASE Aggregate
    BY <1>7 DEF Aggregate
  <1>8. CASE BuildIndex
    BY <1>8 DEF BuildIndex
  <1>9. CASE UNCHANGED vars
    BY <1>9 DEF vars
  <1> QED BY <1>1, <1>2, <1>3, <1>4, <1>5, <1>6, <1>7, <1>8, <1>9, <1>10

\* They touch neither processes nor rows nor results.
LEMMA QuietStep == ASSUME IInv, Quiet PROVE IInv'
  <1> USE DEF Quiet, IInv, Ended, AfterLoad
  <1>1. Types'
    BY DEF Types, TypeOK, Phases
  <1>2. OnlyWaitedForAlive'
    BY DEF OnlyWaitedForAlive, Waiting, Mine, Kind, Types, ProcType
  <1>3. OneProcess'
    BY DEF OneProcess, Waiting, Mine, Kind
  <1>4. Loading'
    BY DEF Loading, NewTables, Mine
  <1>5. OwnResults'
    BY DEF OwnResults, Mine
  <1>6. LoadedOnce'
    BY DEF LoadedOnce
  <1>7. NoLoadDuringRun'
    BY DEF NoLoadDuringRun, OnlyWaitedForAlive, Waiting, Alive, Types, ProcType
  <1>8. AggregatesOwnResults'
    BY DEF AggregatesOwnResults
  <1> QED BY <1>1, <1>2, <1>3, <1>4, <1>5, <1>6, <1>7, <1>8

\* A new invocation may meet processes of the earlier ones, but none of its own.
LEMMA InvokeStep == ASSUME IInv, NEW o \in Options, Invoke(o) PROVE IInv'
  <1> USE DEF IInv, Invoke, Ended, AfterLoad, db
  <1>1. Types'
    <2>1. run \in Nat /\ run + 1 \in 0 .. MaxRuns /\ 1 .. run \subseteq 1 .. (run + 1)
      BY RunAssumption DEF Types, TypeOK
    <2>2. results' \in [Clients -> SUBSET (1 .. run')]
      BY <2>1 DEF Types, TypeOK
    <2>3. \A p \in procs' : p.run \in 1 .. run'
      BY <2>1 DEF Types, TypeOK
    <2> QED BY <2>1, <2>2, <2>3 DEF Types, TypeOK, Phases
  <1>2. OnlyWaitedForAlive'
    BY DEF OnlyWaitedForAlive
  <1>3. OneProcess'
    BY DEF OneProcess, Waiting, Mine, Kind, Types, TypeOK
  <1>4. Loading' /\ OwnResults' /\ LoadedOnce' /\ NoLoadDuringRun' /\ AggregatesOwnResults'
    BY DEF Loading, OwnResults, LoadedOnce, NoLoadDuringRun, AggregatesOwnResults
  <1> QED BY <1>1, <1>2, <1>3, <1>4

\* kill_tpcc leaves nothing alive and no results.
LEMMA KillStep == ASSUME IInv, Kill PROVE IInv'
  <1> USE DEF IInv, Ended, AfterLoad
  <1>1. /\ procs' = procs \ Running
        /\ results' = [k \in Clients |-> {}]
        /\ pc = "kill" /\ pc' \in {"create", "done", "configs"}
        /\ pc' = "configs" => "no_drop_create" \in opt
        /\ UNCHANGED <<opt, run, waitFor, uniqueHosts, tables, rows, index, copied>>
        /\ uniqueHosts
    BY DEF Kill, KillRemote, OnlyWaitedForAlive, db
  <1>2. Types'
    BY <1>1 DEF Types, TypeOK, Phases
  <1>3. OnlyWaitedForAlive'
    BY <1>1 DEF OnlyWaitedForAlive, Running, Alive
  <1>4. OneProcess'
    BY <1>1 DEF OneProcess, Waiting, Mine
  <1>5. Loading' /\ OwnResults' /\ LoadedOnce' /\ NoLoadDuringRun' /\ AggregatesOwnResults'
    BY <1>1 DEF Loading, NewTables, OwnResults, LoadedOnce, NoLoadDuringRun,
                AggregatesOwnResults
  <1> QED BY <1>2, <1>3, <1>4, <1>5

\* The trap ends the script and kills nothing: the hosts file is gone.
LEMMA CleanupStep == ASSUME IInv, Cleanup PROVE IInv'
  <1> USE DEF IInv, Ended, AfterLoad
  <1>1. /\ UNCHANGED <<procs, results, opt, run, waitFor, tables, rows, index, copied>>
        /\ uniqueHosts' = FALSE /\ pc' = "interrupted"
    BY DEF Cleanup, KillRemote, db
  <1>2. Types'
    BY <1>1 DEF Types, TypeOK, Phases
  <1>3. OneProcess'
    BY <1>1 DEF OneProcess, Waiting, Mine
  <1>4. OnlyWaitedForAlive' /\ Loading' /\ OwnResults' /\ LoadedOnce'
        /\ NoLoadDuringRun' /\ AggregatesOwnResults'
    BY <1>1 DEF OnlyWaitedForAlive, Loading, OwnResults, LoadedOnce, NoLoadDuringRun,
                AggregatesOwnResults
  <1> QED BY <1>2, <1>3, <1>4

\* New tables are empty.
LEMMA CreateStep == ASSUME IInv, Create PROVE IInv'
  <1> USE DEF IInv, Ended, AfterLoad
  <1>1. /\ UNCHANGED <<procs, results, opt, run, waitFor, uniqueHosts, copied>>
        /\ pc = "create" /\ pc' \in {"configs", "failed"}
        /\ tables' \in {"created", "partial"} /\ index' = "none"
        /\ rows' = [w \in Warehouses |-> "none"]
    BY DEF Create, Goto
  <1>2. Types'
    BY <1>1 DEF Types, TypeOK, Phases
  <1>3. OnlyWaitedForAlive' /\ OneProcess'
    BY <1>1 DEF OnlyWaitedForAlive, OneProcess, Waiting, Mine
  <1>4. Loading' /\ OwnResults' /\ LoadedOnce' /\ NoLoadDuringRun' /\ AggregatesOwnResults'
    BY <1>1 DEF Loading, NewTables, OwnResults, LoadedOnce, NoLoadDuringRun,
                AggregatesOwnResults
  <1> QED BY <1>2, <1>3, <1>4

\* The results of earlier invocations are gone already when "clean" removes them.
LEMMA CleanResultsStep == ASSUME IInv, CleanResults PROVE IInv'
  <1> USE DEF IInv, Ended, AfterLoad
  <1>1. UNCHANGED results
    <2>1. \A k \in Clients : results[k] = {} /\ results'[k] = {}
      BY DEF CleanResults, Goto, OwnResults
    <2>2. PICK S : results' \in [Clients -> S]
      BY DEF CleanResults
    <2>3. results \in [Clients -> SUBSET (1 .. run)]
      BY DEF Types, TypeOK
    <2> HIDE DEF IInv
    <2> QED BY <2>1, <2>2, <2>3
  <1>2. /\ pc = "clean" /\ pc' = "run"
        /\ UNCHANGED <<procs, opt, run, waitFor, uniqueHosts, tables, rows, index, copied>>
    BY DEF CleanResults, Goto, db
  <1>3. Types'
    BY <1>1, <1>2 DEF Types, TypeOK, Phases
  <1>4. OnlyWaitedForAlive' /\ OneProcess'
    BY <1>2 DEF OnlyWaitedForAlive, OneProcess, Waiting, Mine
  <1>5. Loading' /\ OwnResults' /\ LoadedOnce' /\ NoLoadDuringRun' /\ AggregatesOwnResults'
    BY <1>1, <1>2 DEF Loading, NewTables, OwnResults, LoadedOnce, NoLoadDuringRun,
                AggregatesOwnResults
  <1> QED BY <1>3, <1>4, <1>5

\* What is copied of a client, if anything, are its results of this invocation.
LEMMA CopyResultsStep == ASSUME IInv, CopyResults PROVE IInv'
  <1> USE DEF IInv, Ended, AfterLoad
  <1>1. /\ pc = "copy" /\ pc' = "aggregate"
        /\ \A k \in Clients : copied'[k] \in {{}, results[k]}
        /\ UNCHANGED <<results, procs, opt, run, waitFor, uniqueHosts, tables, rows, index>>
    BY DEF CopyResults, Goto, db
  <1>5. copied' \in [Clients -> SUBSET (1 .. run)]
    <2>1. PICK S : copied' \in [Clients -> S]
      BY DEF CopyResults
    <2>2. \A k \in Clients : copied'[k] \in SUBSET (1 .. run)
      BY <1>1 DEF Types, TypeOK
    <2> HIDE DEF IInv
    <2> QED BY <2>1, <2>2
  <1>2. Types'
    BY <1>1, <1>5 DEF Types, TypeOK, Phases
  <1>3. OnlyWaitedForAlive' /\ OneProcess'
    BY <1>1 DEF OnlyWaitedForAlive, OneProcess, Waiting, Mine
  <1>4. Loading' /\ OwnResults' /\ LoadedOnce' /\ NoLoadDuringRun' /\ AggregatesOwnResults'
    BY <1>1 DEF Loading, NewTables, OwnResults, LoadedOnce, NoLoadDuringRun,
                AggregatesOwnResults
  <1> QED BY <1>2, <1>3, <1>4

\* The processes that are launched.
LEMMA LaunchFacts ==
  ASSUME IInv, NEW kind \in {"load", "run"}, NEW from, NEW to, Launch(kind, from, to),
         pc \notin Ended \cup {"kill", "waitLoad", "waitRun"},
         \A p \in procs : ~Mine(p, kind)
  PROVE  /\ procs' \subseteq ProcType
         /\ \A p \in procs' : p.run \in 1 .. run
         /\ \A p \in procs' : Alive(p) => Mine(p, kind)
         /\ \A k \in Clients : \E p \in procs' : Mine(p, kind) /\ p.client = k
         /\ \A p \in procs' : Mine(p, kind) =>
              p = Proc(kind, p.client, run) /\ p.client \in Clients
         /\ \A p \in procs' : ~Mine(p, kind) => p \in procs
         /\ \A p, q \in procs' :
              p.kind = q.kind /\ p.client = q.client /\ p.run = q.run => p = q
  <1>1. procs' = procs \cup {Proc(kind, k, run) : k \in Clients}
    BY DEF Launch
  <1>2. run \in Nat /\ run > 0
    BY RunAssumption DEF IInv, Types, TypeOK
  <1>3. \A k \in Clients :
          /\ Proc(kind, k, run) \in ProcType
          /\ Proc(kind, k, run).run = run /\ Proc(kind, k, run).kind = kind
          /\ Proc(kind, k, run).client = k
    BY <1>2, ShareFacts DEF Proc, ProcType
  <1>4. \A p \in procs : p.run \in 1 .. run /\ p \in ProcType /\ ~Alive(p)
    BY DEF IInv, Types, TypeOK, OnlyWaitedForAlive, Waiting
  <1>5. \A p \in procs' : p \in procs \/ \E k \in Clients : p = Proc(kind, k, run)
    BY <1>1
  <1>6. \A p \in procs' : ~Mine(p, kind) => p \in procs
    BY <1>3, <1>5 DEF Mine
  <1>7. \A p \in procs' : Mine(p, kind) => \E k \in Clients : p = Proc(kind, k, run)
    BY <1>5
  <1>8. \A p, q \in procs' :
          p.kind = q.kind /\ p.client = q.client /\ p.run = q.run => p = q
    <2> SUFFICES ASSUME NEW p \in procs', NEW q \in procs',
                        p.kind = q.kind /\ p.client = q.client /\ p.run = q.run
                 PROVE  p = q
      OBVIOUS
    <2>1. CASE Mine(p, kind)
      <3>1. Mine(q, kind)
        BY <2>1 DEF Mine
      <3>2. PICK j \in Clients : p = Proc(kind, j, run)
        BY <1>7, <2>1
      <3>3. PICK k \in Clients : q = Proc(kind, k, run)
        BY <1>7, <3>1
      <3> QED BY <1>3, <3>2, <3>3
    <2>2. CASE ~Mine(p, kind)
      BY <1>6, <2>2 DEF Mine, IInv, OneProcess
    <2> QED BY <2>1, <2>2
  <1>9. \A k \in Clients : \E p \in procs' : Mine(p, kind) /\ p.client = k
    BY <1>1, <1>3 DEF Mine
  <1>10. /\ procs' \subseteq ProcType
         /\ \A p \in procs' : p.run \in 1 .. run
         /\ \A p \in procs' : Alive(p) => Mine(p, kind)
    BY <1>2, <1>3, <1>4, <1>5 DEF Mine
  <1> QED BY <1>3, <1>6, <1>7, <1>8, <1>9, <1>10

\* Each loader has its share before it.
LEMMA LaunchLoadersStep == ASSUME IInv, LaunchLoaders PROVE IInv'
  <1> USE DEF IInv, Ended, AfterLoad
  <1>1. /\ pc = "load" /\ pc' = "waitLoad" /\ waitFor' = 1
        /\ UNCHANGED <<opt, run, uniqueHosts, tables, rows, index, results, copied>>
    BY DEF LaunchLoaders, Launch, Goto, db
  <1>2. \A p \in procs : ~Mine(p, "load")
    BY <1>1 DEF OneProcess
  <1> DEFINE Facts ==
         /\ procs' \subseteq ProcType
         /\ \A p \in procs' : p.run \in 1 .. run
         /\ \A p \in procs' : Alive(p) => Mine(p, "load")
         /\ \A k \in Clients : \E p \in procs' : Mine(p, "load") /\ p.client = k
         /\ \A p \in procs' : Mine(p, "load") =>
              p = Proc("load", p.client, run) /\ p.client \in Clients
         /\ \A p \in procs' : ~Mine(p, "load") => p \in procs
         /\ \A p, q \in procs' :
              p.kind = q.kind /\ p.client = q.client /\ p.run = q.run => p = q
  <1>3. Facts
    BY <1>1, <1>2, LaunchFacts DEF LaunchLoaders
  <1>4. Types'
    <2>1. 1 \in Clients
      BY RunAssumption DEF Clients
    <2> QED BY <1>1, <1>3, <2>1 DEF Types, TypeOK, Phases, ProcType
  <1>5. OnlyWaitedForAlive'
    BY <1>1, <1>3 DEF OnlyWaitedForAlive, Waiting, Kind, Mine
  <1>6. OneProcess'
    <2>1. \A p \in procs' : Mine(p, "load") => p.todo = Share(p.client) /\ p.state = "starting"
      BY <1>3 DEF Proc
    <2>2. \A k \in Clients : ~(k < 1)
      BY DEF Clients
    <2>3. Kind' = "load"
      BY <1>1 DEF Kind
    <2> QED BY <1>1, <1>3, <2>1, <2>2, <2>3 DEF OneProcess, Waiting, Mine
  <1>7. Loading'
    <2>1. \A p \in procs' : Mine(p, "load") => p.todo = Share(p.client) /\ p.client \in Clients
      BY <1>3 DEF Proc
    <2> QED BY <1>1, <2>1, ShareFacts DEF Loading, NewTables, Mine
  <1>8. OwnResults' /\ LoadedOnce' /\ NoLoadDuringRun' /\ AggregatesOwnResults'
    BY <1>1 DEF OwnResults, LoadedOnce, NoLoadDuringRun, AggregatesOwnResults
  <1> QED BY <1>4, <1>5, <1>6, <1>7, <1>8

\* The benchmark starts on what has been loaded, with no results around.
LEMMA LaunchClientsStep == ASSUME IInv, LaunchClients PROVE IInv'
  <1> USE DEF IInv, Ended, AfterLoad
  <1>1. /\ pc = "run" /\ pc' = "waitRun" /\ waitFor' = 1
        /\ UNCHANGED <<opt, run, uniqueHosts, tables, rows, index, results, copied>>
    BY DEF LaunchClients, Launch, Goto, db
  <1>2. \A p \in procs : ~Mine(p, "run")
    BY <1>1 DEF OneProcess
  <1> DEFINE Facts ==
         /\ procs' \subseteq ProcType
         /\ \A p \in procs' : p.run \in 1 .. run
         /\ \A p \in procs' : Alive(p) => Mine(p, "run")
         /\ \A k \in Clients : \E p \in procs' : Mine(p, "run") /\ p.client = k
         /\ \A p \in procs' : Mine(p, "run") =>
              p = Proc("run", p.client, run) /\ p.client \in Clients
         /\ \A p \in procs' : ~Mine(p, "run") => p \in procs
         /\ \A p, q \in procs' :
              p.kind = q.kind /\ p.client = q.client /\ p.run = q.run => p = q
  <1>3. Facts
    BY <1>1, <1>2, LaunchFacts DEF LaunchClients
  <1>4. \A p \in procs' : Mine(p, "run") =>
          p.todo = {} /\ p.state = "starting" /\ p.client \in Clients
    BY <1>3 DEF Proc
  <1>5. Types'
    <2>1. 1 \in Clients
      BY RunAssumption DEF Clients
    <2> QED BY <1>1, <1>3, <2>1 DEF Types, TypeOK, Phases, ProcType
  <1>6. OnlyWaitedForAlive'
    BY <1>1, <1>3 DEF OnlyWaitedForAlive, Waiting, Kind, Mine
  <1>7. OneProcess'
    <2>1. \A k \in Clients : ~(k < 1)
      BY DEF Clients
    <2>2. Kind' = "run"
      BY <1>1 DEF Kind
    <2> QED BY <1>1, <1>3, <1>4, <2>1, <2>2 DEF OneProcess, Waiting, Mine
  <1>8. OwnResults'
    BY <1>1, <1>4 DEF OwnResults, Mine
  <1>9. NoLoadDuringRun'
    BY <1>1, <1>3 DEF NoLoadDuringRun, Mine, Alive, ProcType
  <1>10. Loading' /\ LoadedOnce' /\ AggregatesOwnResults'
    BY <1>1 DEF Loading, LoadedOnce, AggregatesOwnResults
  <1> QED BY <1>5, <1>6, <1>7, <1>8, <1>9, <1>10

\* A pid is passed when its process has succeeded; after the last one all have.
LEMMA AllWaitedFor ==
  ASSUME IInv, NEW kind \in {"load", "run"}, NEW from, NEW to, pc = from,
         WaitFor(kind, from, to), pc \in {"waitLoad", "waitRun"}, kind = Kind
  PROVE  /\ UNCHANGED <<opt, run, uniqueHosts, procs, tables, rows, index, results, copied>>
         /\ \/ /\ pc' = pc /\ waitFor' = waitFor + 1 /\ waitFor < N
               /\ \A p \in procs : Mine(p, kind) /\ p.client = waitFor => p.state = "ok"
            \/ /\ pc' = to /\ waitFor' = waitFor
               /\ \A p \in procs : Mine(p, kind) => p.state = "ok"
            \/ pc' = "failed" /\ waitFor' = waitFor
  <1> USE DEF IInv
  <1>1. UNCHANGED <<opt, run, uniqueHosts, procs, tables, rows, index, results, copied>>
    BY DEF WaitFor, db
  <1>2. PICK p \in procs :
          /\ p.kind = kind /\ p.client = waitFor /\ p.run = run
          /\ \/ /\ p.state = "ok" /\ waitFor < N
                /\ Goto(from, from)
                /\ waitFor' = waitFor + 1
             \/ /\ p.state = "ok" /\ waitFor = N
                /\ Goto(from, to)
                /\ UNCHANGED waitFor
             \/ /\ p.state = "failed"
                /\ Goto(from, "failed")
                /\ UNCHANGED waitFor
    BY DEF WaitFor
  <1>3. \A q \in procs : Mine(q, kind) /\ q.client = waitFor => q = p
    BY <1>2 DEF OneProcess, Mine
  <1>4. \A q \in procs : Mine(q, kind) /\ q.client < waitFor => q.state = "ok"
    <2> SUFFICES ASSUME NEW q \in procs, Mine(q, kind), q.client < waitFor
                 PROVE  q.state = "ok"
      OBVIOUS
    <2>1. q.client \in Clients
      BY DEF Types, ProcType
    <2>2. PICK r \in procs : Mine(r, kind) /\ r.client = q.client /\ r.state = "ok"
      BY <2>1 DEF OneProcess, Waiting
    <2>3. r = q
      BY <2>2 DEF OneProcess, Mine
    <2> QED BY <2>2, <2>3
  <1>5. \A q \in procs : waitFor = N => q.client < waitFor \/ q.client = waitFor
    BY RunAssumption DEF Types, TypeOK, ProcType, Clients
  <1>6. CASE p.state = "ok" /\ waitFor < N
    BY <1>1, <1>2, <1>3, <1>6, RunAssumption DEF Goto, Types, TypeOK, Clients
  <1>7. CASE p.state = "ok" /\ waitFor = N
    BY <1>1, <1>2, <1>3, <1>4, <1>5, <1>7, RunAssumption DEF Goto, Types, TypeOK, Clients
  <1>8. CASE p.state = "failed"
    BY <1>1, <1>2, <1>8 DEF Goto
  <1> QED BY <1>2, <1>6, <1>7, <1>8

\* When the loaders have been waited for, every warehouse is loaded.
LEMMA WaitLoadersStep == ASSUME IInv, WaitLoaders PROVE IInv'
  <1> USE DEF IInv, Ended, AfterLoad
  <1>0. pc = "waitLoad" /\ Kind = "load" /\ Waiting
    BY DEF WaitLoaders, WaitFor, Goto, Kind, Waiting
  <1>1. /\ UNCHANGED <<opt, run, uniqueHosts, procs, tables, rows, index, results, copied>>
        /\ \/ /\ pc' = pc /\ waitFor' = waitFor + 1 /\ waitFor < N
              /\ \A p \in procs : Mine(p, "load") /\ p.client = waitFor => p.state = "ok"
           \/ /\ pc' = "split" /\ waitFor' = waitFor
              /\ \A p \in procs : Mine(p, "load") => p.state = "ok"
           \/ pc' = "failed" /\ waitFor' = waitFor
    BY <1>0, AllWaitedFor DEF WaitLoaders
  <1>2. Types'
    BY <1>0, <1>1, RunAssumption DEF Types, TypeOK, Phases, Clients
  <1>3. OnlyWaitedForAlive'
    BY <1>0, <1>1 DEF OnlyWaitedForAlive, Waiting, Kind, Mine, Alive
  <1>4. OneProcess'
    <2>1. \A k \in Clients : k < waitFor + 1 => k < waitFor \/ k = waitFor
      BY RunAssumption DEF Types, TypeOK, Clients
    <2> QED BY <1>0, <1>1, <2>1 DEF OneProcess, Waiting, Kind, Mine
  <1>5. Loading' /\ OwnResults'
    BY <1>0, <1>1 DEF Loading, NewTables, OwnResults, Mine
  <1>6. LoadedOnce'
    <2> SUFFICES ASSUME pc' = "split", NewTables, NEW w \in Warehouses
                 PROVE  rows[w] = "full"
      BY <1>0, <1>1 DEF LoadedOnce, NewTables
    <2>1. PICK k \in Clients : w \in Share(k)
      BY ShareFacts
    <2>2. PICK p \in procs : Mine(p, "load") /\ p.client = k
      BY <1>0 DEF OneProcess
    <2>3. p.state = "ok" /\ p.todo = {}
      BY <1>0, <1>1, <2>2 DEF OneProcess
    <2> QED BY <1>0, <2>1, <2>2, <2>3 DEF Loading
  <1>7. NoLoadDuringRun' /\ AggregatesOwnResults'
    BY <1>0, <1>1 DEF NoLoadDuringRun, AggregatesOwnResults
  <1> QED BY <1>2, <1>3, <1>4, <1>5, <1>6, <1>7

\* When the clients have been waited for, every one has written its results.
LEMMA WaitClientsStep == ASSUME IInv, WaitClients PROVE IInv'
  <1> USE DEF IInv, Ended, AfterLoad
  <1>0. pc = "waitRun" /\ Kind = "run" /\ Waiting
    BY DEF WaitClients, WaitFor, Goto, Kind, Waiting
  <1>1. /\ UNCHANGED <<opt, run, uniqueHosts, procs, tables, rows, index, results, copied>>
        /\ \/ /\ pc' = pc /\ waitFor' = waitFor + 1 /\ waitFor < N
              /\ \A p \in procs : Mine(p, "run") /\ p.client = waitFor => p.state = "ok"
           \/ /\ pc' = "copy" /\ waitFor' = waitFor
              /\ \A p \in procs : Mine(p, "run") => p.state = "ok"
           \/ pc' = "failed" /\ waitFor' = waitFor
    BY <1>0, AllWaitedFor DEF WaitClients
  <1>2. Types'
    BY <1>0, <1>1, RunAssumption DEF Types, TypeOK, Phases, Clients
  <1>3. OnlyWaitedForAlive'
    BY <1>0, <1>1 DEF OnlyWaitedForAlive, Waiting, Kind, Mine, Alive
  <1>4. OneProcess'
    <2>1. \A k \in Clients : k < waitFor + 1 => k < waitFor \/ k = waitFor
      BY RunAssumption DEF Types, TypeOK, Clients
    <2> QED BY <1>0, <1>1, <2>1 DEF OneProcess, Waiting, Kind, Mine
  <1>5. OwnResults'
    <2>1. ASSUME pc' = "copy", NEW k \in Clients PROVE results'[k] = {run'}
      <3>1. PICK p \in procs : Mine(p, "run") /\ p.client = k
        BY <1>0 DEF OneProcess
      <3> QED BY <1>0, <1>1, <2>1, <3>1 DEF OwnResults
    <2> QED BY <1>0, <1>1, <2>1 DEF OwnResults, Mine
  <1>6. Loading' /\ LoadedOnce' /\ NoLoadDuringRun' /\ AggregatesOwnResults'
    BY <1>0, <1>1 DEF Loading, LoadedOnce, NoLoadDuringRun, AggregatesOwnResults
  <1> QED BY <1>2, <1>3, <1>4, <1>5, <1>6

-----------------------------------------------------------------------------
\* A process that moves on remains the one of its client.
LEMMA BecomesFacts ==
  ASSUME IInv, NEW p \in procs, Alive(p), NEW q \in ProcType, Becomes(p, q),
         q.kind = p.kind, q.client = p.client, q.run = p.run,
         q.state # "starting", q.kind = "run" \/ q.state = "ok" => q.todo = {},
         UNCHANGED script
  PROVE  /\ procs' \subseteq ProcType
         /\ \A r \in procs' : r = q \/ (r \in procs /\ r # p)
         /\ q \in procs'
         /\ OnlyWaitedForAlive' /\ OneProcess' /\ NoLoadDuringRun'
  <1> USE DEF IInv, script
  <1>1. procs' \subseteq ProcType
    BY DEF Becomes, Types
  <1>2. \A r \in procs' : r = q \/ (r \in procs /\ r # p)
    BY DEF Becomes
  <1>3. q \in procs' /\ \A r \in procs : r # p => r \in procs'
    BY DEF Becomes
  <1>4. Kind' = Kind /\ (Waiting' <=> Waiting)
    BY DEF Kind, Waiting
  <1>5. OnlyWaitedForAlive'
    BY <1>2, <1>4 DEF OnlyWaitedForAlive, Mine, Alive
  <1>6. OneProcess'
    <2>1. \A r, s \in procs' :
            r.kind = s.kind /\ r.client = s.client /\ r.run = s.run => r = s
      BY <1>2 DEF OneProcess
    <2>2. \A r \in procs' :
            /\ Mine(r, "load")' => pc \in {"waitLoad"} \cup AfterLoad \cup Ended
            /\ Mine(r, "run")'  => pc \in {"waitRun", "copy", "aggregate"} \cup Ended
            /\ r.kind = "run" \/ r.state = "ok" => r.todo = {}
      BY <1>2 DEF OneProcess, Mine
    <2>3. ASSUME Waiting, NEW k \in Clients
          PROVE  \E r \in procs' : /\ Mine(r, Kind) /\ r.client = k
                                   /\ k < waitFor => r.state = "ok"
      <3>1. PICK r \in procs : /\ Mine(r, Kind) /\ r.client = k
                               /\ k < waitFor => r.state = "ok"
        BY <2>3 DEF OneProcess
      <3>2. CASE r # p
        BY <1>3, <3>1, <3>2
      <3>3. CASE r = p
        BY <1>3, <3>1, <3>3 DEF Mine, Alive
      <3> QED BY <3>2, <3>3
    <2> QED BY <1>4, <2>1, <2>2, <2>3 DEF OneProcess, Mine
  <1>7. NoLoadDuringRun'
    <2> SUFFICES ASSUME pc \in {"clean", "run", "waitRun", "copy", "aggregate"},
                        NEW r \in procs', r.kind = "load"
                 PROVE  r.state \in {"ok", "failed"}
      BY DEF NoLoadDuringRun
    <2>1. Mine(p, "run") /\ pc = "waitRun"
      BY DEF OnlyWaitedForAlive, Waiting, Kind, Ended
    <2> QED BY <1>2, <2>1 DEF NoLoadDuringRun, Mine
  <1> QED BY <1>1, <1>2, <1>3, <1>5, <1>6, <1>7

\* While processes of this invocation are alive, its phase waits for them.
LEMMA AliveFacts ==
  ASSUME IInv, NEW p \in procs, Alive(p), pc \notin Ended \cup {"kill"}
  PROVE  /\ (pc = "waitLoad" /\ Mine(p, "load")) \/ (pc = "waitRun" /\ Mine(p, "run"))
         /\ p.client \in Clients
         /\ \A r \in procs : r.client = p.client /\ r.kind = p.kind /\ r.run = run => r = p
  <1>1. (pc = "waitLoad" /\ Mine(p, "load")) \/ (pc = "waitRun" /\ Mine(p, "run"))
    BY DEF IInv, OnlyWaitedForAlive, Waiting, Kind, Mine
  <1>2. p.client \in Clients
    BY DEF IInv, Types, ProcType
  <1>3. \A r \in procs : r.client = p.client /\ r.kind = p.kind /\ r.run = run => r = p
    BY <1>1 DEF IInv, OneProcess, Mine
  <1> QED BY <1>1, <1>2, <1>3

\* The command begins, or ssh fails: nothing is loaded or written.
LEMMA StartProcStep == ASSUME IInv, NEW p \in procs, StartProc(p) PROVE IInv'
  <1> USE DEF Ended, AfterLoad
  <1>1. PICK s \in {"running", "failed"} : Becomes(p, [p EXCEPT !.state = s])
    BY DEF StartProc
  <1> DEFINE q == [p EXCEPT !.state = s]
  <1>2. /\ q \in ProcType /\ q.kind = p.kind /\ q.client = p.client /\ q.run = p.run
        /\ q.state = s /\ q.todo = p.todo
    BY DEF IInv, Types, ProcType
  <1>3. Alive(p) /\ (q.kind = "run" \/ q.state = "ok" => q.todo = {})
    BY <1>2 DEF StartProc, Alive, IInv, OneProcess
  <1>4. UNCHANGED <<script, db, results, copied>> /\ p.state = "starting"
    BY DEF StartProc
  <1> HIDE DEF q
  <1>5. /\ procs' \subseteq ProcType
        /\ \A r \in procs' : r = q \/ (r \in procs /\ r # p)
        /\ OnlyWaitedForAlive' /\ OneProcess' /\ NoLoadDuringRun'
    BY <1>1, <1>2, <1>3, <1>4, BecomesFacts DEF q
  <1> USE DEF IInv, script, db
  <1>6. Types'
    BY <1>2, <1>4, <1>5 DEF Types, TypeOK, ProcType
  <1>7. Loading'
    BY <1>2, <1>4, <1>5 DEF Loading, NewTables, Mine
  <1>8. OwnResults'
    BY <1>2, <1>4, <1>5 DEF OwnResults, Mine
  <1>9. LoadedOnce' /\ AggregatesOwnResults'
    BY <1>4 DEF LoadedOnce, AggregatesOwnResults
  <1> QED BY <1>5, <1>6, <1>7, <1>8, <1>9

\* One more warehouse is loaded, by the only loader whose it is.
LEMMA LoadWarehouseStep == ASSUME IInv, NEW p \in procs, LoadWarehouse(p) PROVE IInv'
  <1> USE DEF Ended, AfterLoad
  <1>1. PICK w \in p.todo :
          /\ Becomes(p, [p EXCEPT !.todo = @ \ {w}])
          /\ rows' = [rows EXCEPT ![w] = IF @ = "none" THEN "full" ELSE "spoilt"]
    BY DEF LoadWarehouse
  <1> DEFINE q == [p EXCEPT !.todo = @ \ {w}]
  <1>2. /\ q \in ProcType /\ q.kind = p.kind /\ q.client = p.client /\ q.run = p.run
        /\ q.state = p.state /\ q.todo = p.todo \ {w} /\ w \in Warehouses
    BY DEF IInv, Types, ProcType
  <1>3. /\ Alive(p) /\ p.state = "running"
        /\ p.kind = "load" /\ q.state # "starting" /\ q.state # "ok" /\ q.kind # "run"
    BY <1>1, <1>2 DEF LoadWarehouse, Alive, IInv, OneProcess, Types, ProcType
  <1>4. UNCHANGED <<script, tables, index, results, copied>>
    BY DEF LoadWarehouse
  <1> HIDE DEF q
  <1>5. /\ procs' \subseteq ProcType
        /\ \A r \in procs' : r = q \/ (r \in procs /\ r # p)
        /\ OnlyWaitedForAlive' /\ OneProcess' /\ NoLoadDuringRun'
    BY <1>1, <1>2, <1>3, <1>4, BecomesFacts DEF q
  <1> USE DEF IInv, script
  <1>6. Types'
    <2>1. rows' \in [Warehouses -> {"none", "full", "spoilt"}]
      BY <1>1, <1>2 DEF Types, TypeOK
    <2>2. \A r \in procs' : r.run \in 1 .. run' /\ r \in ProcType
      BY <1>2, <1>4, <1>5 DEF Types, TypeOK
    <2> QED BY <1>4, <2>1, <2>2 DEF Types, TypeOK, ProcType
  <1>7. pc \in Ended \cup {"kill"} \/ (pc = "waitLoad" /\ Mine(p, "load"))
    BY <1>3, AliveFacts DEF Mine
  <1>8. Loading'
    <2>1. CASE pc \in Ended \cup {"kill"}
      BY <1>4, <2>1 DEF Loading
    <2>2. CASE pc = "waitLoad" /\ Mine(p, "load")
      <3>1. q.todo \subseteq Share(q.client) /\ w \in Share(p.client)
        BY <1>2, <2>2 DEF Loading
      <3>2. \A r \in procs' : Mine(r, "load") => r.todo \subseteq Share(r.client)
        BY <1>5, <2>2, <3>1 DEF Loading
      <3>3. ASSUME NewTables, NEW r \in procs', Mine(r, "load"), r.state # "failed",
                   NEW v \in Share(r.client)
            PROVE  rows'[v] = IF v \in r.todo THEN "none" ELSE "full"
        <4>0. v \in Warehouses /\ r.client \in Clients /\ p.client \in Clients
          BY <1>5, <3>3, ShareFacts DEF ProcType, Types
        <4>1. CASE r = q
          <5>1. rows[v] = IF v \in p.todo THEN "none" ELSE "full"
            BY <1>2, <1>3, <2>2, <3>3, <4>1 DEF Loading
          <5> QED BY <1>1, <1>2, <4>0, <4>1, <5>1 DEF Types, TypeOK
        <4>2. CASE r # q
          <5>1. r \in procs /\ r # p
            BY <1>5, <4>2
          <5>2. r.client # p.client
            BY <2>2, <3>3, <5>1 DEF OneProcess, Mine
          <5>3. v # w
            BY <3>1, <3>3, <4>0, <5>2, ShareFacts
          <5>4. rows'[v] = rows[v]
            BY <1>1, <4>0, <5>3 DEF Types, TypeOK
          <5> QED BY <2>2, <3>3, <5>1, <5>4 DEF Loading
        <4> QED BY <4>1, <4>2
      <3> QED BY <1>4, <2>2, <3>2, <3>3 DEF Loading, NewTables, Mine
    <2> QED BY <1>7, <2>1, <2>2
  <1>9. OwnResults' /\ LoadedOnce' /\ AggregatesOwnResults'
    BY <1>4, <1>7 DEF OwnResults, LoadedOnce, AggregatesOwnResults
  <1> QED BY <1>5, <1>6, <1>8, <1>9

\* A client writes its results; a loader has nothing to write.
LEMMA FinishProcStep == ASSUME IInv, NEW p \in procs, FinishProc(p) PROVE IInv'
  <1> USE DEF Ended, AfterLoad
  <1> DEFINE q == [p EXCEPT !.state = "ok"]
  <1>1. /\ Becomes(p, q) /\ p.state = "running" /\ p.todo = {}
        /\ UNCHANGED <<script, db, copied>>
        /\ results' = IF p.kind = "run"
                      THEN [results EXCEPT ![p.client] = @ \cup {p.run}] ELSE results
    BY DEF FinishProc
  <1>2. /\ q \in ProcType /\ q.kind = p.kind /\ q.client = p.client /\ q.run = p.run
        /\ q.state = "ok" /\ q.todo = {}
    BY <1>1 DEF IInv, Types, ProcType
  <1>3. Alive(p)
    BY <1>1 DEF Alive
  <1> HIDE DEF q
  <1>5. /\ procs' \subseteq ProcType
        /\ \A r \in procs' : r = q \/ (r \in procs /\ r # p)
        /\ OnlyWaitedForAlive' /\ OneProcess' /\ NoLoadDuringRun'
    BY <1>1, <1>2, <1>3, BecomesFacts
  <1> USE DEF IInv, script, db
  <1>6. Types'
    <2>1. p.client \in Clients /\ p.run \in 1 .. run
      BY DEF Types, TypeOK, ProcType
    <2>2. results' \in [Clients -> SUBSET (1 .. run')]
      BY <1>1, <2>1 DEF Types, TypeOK
    <2>3. \A r \in procs' : r.run \in 1 .. run' /\ r \in ProcType
      BY <1>1, <1>2, <1>5 DEF Types, TypeOK
    <2> QED BY <1>1, <1>5, <2>2, <2>3 DEF Types, TypeOK, ProcType
  <1>7. pc \in Ended \cup {"kill"} \/
          /\ (pc = "waitLoad" /\ Mine(p, "load")) \/ (pc = "waitRun" /\ Mine(p, "run"))
          /\ p.client \in Clients
    BY <1>3, AliveFacts
  <1>8. Loading'
    BY <1>1, <1>2, <1>5 DEF Loading, NewTables, Mine
  <1>9. OwnResults'
    <2>1. CASE pc = "waitRun" /\ Mine(p, "run")
      <3> SUFFICES ASSUME NEW r \in procs', Mine(r, "run")
                   PROVE  results'[r.client] = IF r.state = "ok" THEN {run} ELSE {}
        BY <1>1, <2>1 DEF OwnResults, Mine
      <3>1. results[p.client] = {}
        BY <1>1, <2>1 DEF OwnResults
      <3>2. results'[p.client] = {run}
        BY <1>1, <1>7, <2>1, <3>1 DEF Types, TypeOK, Mine
      <3>3. CASE r = q
        BY <1>2, <3>2, <3>3
      <3>4. CASE r # q
        <4>1. r \in procs /\ r.client # p.client /\ r.client \in Clients
          BY <1>5, <2>1, <3>4 DEF OneProcess, Mine, Types, ProcType
        <4>2. results'[r.client] = results[r.client]
          BY <1>1, <4>1 DEF Types, TypeOK
        <4> QED BY <2>1, <4>1, <4>2 DEF OwnResults
      <3> QED BY <3>3, <3>4
    <2>2. CASE pc = "waitLoad" /\ Mine(p, "load")
      BY <1>1, <2>2 DEF OwnResults, Mine
    <2>3. CASE pc \in Ended \cup {"kill"}
      BY <1>1, <2>3 DEF OwnResults
    <2> QED BY <1>7, <2>1, <2>2, <2>3
  <1>10. LoadedOnce' /\ AggregatesOwnResults'
    BY <1>1, <1>7 DEF LoadedOnce, AggregatesOwnResults
  <1> QED BY <1>5, <1>6, <1>8, <1>9, <1>10

\* A loader that fails spoils no warehouse but one of its own.
LEMMA FailProcStep == ASSUME IInv, NEW p \in procs, FailProc(p) PROVE IInv'
  <1> USE DEF Ended, AfterLoad
  <1> DEFINE q == [p EXCEPT !.state = "failed"]
  <1>1. /\ Becomes(p, q) /\ p.state = "running"
        /\ UNCHANGED <<script, tables, index, results, copied>>
        /\ rows' = rows \/ \E w \in p.todo : rows' = [rows EXCEPT ![w] = "spoilt"]
    BY DEF FailProc
  <1>2. /\ q \in ProcType /\ q.kind = p.kind /\ q.client = p.client /\ q.run = p.run
        /\ q.state = "failed" /\ q.todo = p.todo /\ p.todo \subseteq Warehouses
    BY DEF IInv, Types, ProcType
  <1>3. Alive(p) /\ (q.kind = "run" => q.todo = {})
    BY <1>1, <1>2 DEF Alive, IInv, OneProcess
  <1> HIDE DEF q
  <1>5. /\ procs' \subseteq ProcType
        /\ \A r \in procs' : r = q \/ (r \in procs /\ r # p)
        /\ OnlyWaitedForAlive' /\ OneProcess' /\ NoLoadDuringRun'
    BY <1>1, <1>2, <1>3, BecomesFacts
  <1> USE DEF IInv, script
  <1>6. Types'
    <2>1. rows' \in [Warehouses -> {"none", "full", "spoilt"}]
      BY <1>1, <1>2 DEF Types, TypeOK
    <2>2. \A r \in procs' : r.run \in 1 .. run' /\ r \in ProcType
      BY <1>1, <1>2, <1>5 DEF Types, TypeOK
    <2> QED BY <1>1, <1>5, <2>1, <2>2 DEF Types, TypeOK, ProcType
  <1>7. pc \in Ended \cup {"kill"} \/
          /\ (pc = "waitLoad" /\ Mine(p, "load")) \/ (pc = "waitRun" /\ Mine(p, "run"))
          /\ p.client \in Clients
    BY <1>3, AliveFacts
  <1>8. pc = "waitRun" => rows' = rows
    BY <1>1, <1>2, <1>3, <1>7 DEF Mine
  <1>9. Loading'
    <2>1. CASE pc \in Ended \cup {"kill", "waitRun"}
      BY <1>1, <2>1 DEF Loading
    <2>2. CASE pc = "waitLoad" /\ Mine(p, "load")
      <3>1. p.todo \subseteq Share(p.client)
        BY <2>2 DEF Loading
      <3>2. \A r \in procs' : Mine(r, "load") => r.todo \subseteq Share(r.client)
        BY <1>2, <1>5, <2>2, <3>1 DEF Loading
      <3>3. ASSUME NewTables, NEW r \in procs', Mine(r, "load"), r.state # "failed",
                   NEW v \in Share(r.client)
            PROVE  rows'[v] = IF v \in r.todo THEN "none" ELSE "full"
        <4>1. r \in procs /\ r # p /\ r.client \in Clients /\ p.client \in Clients
          BY <1>2, <1>5, <3>3 DEF Types, ProcType
        <4>2. r.client # p.client
          BY <2>2, <3>3, <4>1 DEF OneProcess, Mine
        <4>3. v \notin p.todo
          BY <3>1, <3>3, <4>1, <4>2, ShareFacts
        <4>4. rows'[v] = rows[v]
          BY <1>1, <3>3, <4>1, <4>3, ShareFacts DEF Types, TypeOK
        <4> QED BY <2>2, <3>3, <4>1, <4>4 DEF Loading
      <3> QED BY <1>1, <2>2, <3>2, <3>3 DEF Loading, NewTables, Mine
    <2> QED BY <1>7, <2>1, <2>2
  <1>10. OwnResults'
    BY <1>1, <1>2, <1>5 DEF OwnResults, Mine
  <1>11. LoadedOnce' /\ AggregatesOwnResults'
    BY <1>1, <1>7, <1>8 DEF LoadedOnce, AggregatesOwnResults
  <1> QED BY <1>5, <1>6, <1>9, <1>10, <1>11

\* Every step keeps the invariant.
LEMMA StepHolds == IInv /\ [Next]_vars => IInv'
  <1> SUFFICES ASSUME IInv, [Next]_vars PROVE IInv'
    OBVIOUS
  <1>1. ASSUME NEW p \in procs, ProcStep(p) PROVE IInv'
    BY <1>1, StartProcStep, LoadWarehouseStep, FinishProcStep, FailProcStep DEF ProcStep
  <1>2. TypeOK
    BY DEF IInv, Types
  <1>3. CASE ScriptStep
    BY <1>2, <1>3, KillStep, CreateStep, LaunchLoadersStep, WaitLoadersStep,
       CleanResultsStep, LaunchClientsStep, WaitClientsStep, CopyResultsStep,
       QuietActions, QuietStep
       DEF ScriptStep
  <1> QED
    BY <1>1, <1>2, <1>3, InvokeStep, CleanupStep, QuietActions, QuietStep DEF Next

LEMMA Invariance == Spec => []IInv
  BY InitHolds, StepHolds, PTL DEF Spec

-----------------------------------------------------------------------------
\* The types of the variables.
THEOREM TypeCorrect == Spec => []TypeOK
  <1>1. IInv => TypeOK
    BY DEF IInv, Types
  <1> QED BY Invariance, <1>1, PTL

\* For every number of warehouses and of hosts, and whatever was left running by the
\* invocations before: a load into new tables loads every warehouse once.
THEOREM LoadedOnceAlways == Spec => []LoadedOnce
  <1>1. IInv => LoadedOnce
    BY DEF IInv
  <1> QED BY Invariance, <1>1, PTL

\* No loader of any invocation is alive while the benchmark runs.
THEOREM NoLoadDuringRunAlways == Spec => []NoLoadDuringRun
  <1>1. IInv => NoLoadDuringRun
    BY DEF IInv
  <1> QED BY Invariance, <1>1, PTL

\* Each client has results of this invocation alone, and nothing else is aggregated of
\* it, whichever removals of old results and copies of new ones fail unnoticed.
THEOREM AggregatesOwnResultsAlways == Spec => []AggregatesOwnResults
  <1>1. IInv => AggregatesOwnResults
    BY DEF IInv
  <1> QED BY Invariance, <1>1, PTL

=============================================================================
