--------------------------- MODULE ClusterControl ---------------------------
(* control.py of CockroachDB and YugabyteDB, the jobs of pylib/common.py they *)
(* run over ssh, and setup.sh, which calls them in order.                      *)
(*                                                                             *)
(* A job is a local ssh process with two time-outs; what it started on a host  *)
(* goes on there when the process is given up, and may take effect at any      *)
(* later time (a "stray").  The state of a host is what its shell commands     *)
(* change: which disks are mounted, whether the wrapper and the release are    *)
(* there, which database servers were started, on which disks, and which of    *)
(* them have crashed.                                                          *)
EXTENDS CoreLayout, Sequences, FiniteSets, Functions

CONSTANTS
    Hosts,        \* the hosts of all regions, in order
    ProxyHosts,   \* HA_PROXY_HOSTS of CockroachDB, as far as they are among Hosts
    DiskCount,    \* len(Disks)
    MaxFaults,    \* bound: disks that fail, hosts that cannot be reached, servers
                  \* that crash, jobs that time out; after so many the hosts answer
    MaxSetups,    \* bound: series of commands that are called
    Timeout,      \* Job.timeout, in turns of its loop
    KillTimeout   \* Job.kill_timeout

ASSUME ClusterAssumption ==
    /\ Hosts \in Seq(Range(Hosts)) /\ Hosts # <<>>
    /\ ProxyHosts \subseteq Range(Hosts)
    /\ DiskCount \in Nat /\ DiskCount % Instances = 0
    /\ MaxSetups \in Nat
    /\ Timeout \in Nat /\ KillTimeout \in Nat

VARIABLES
    product,     \* which of the two control.py
    failOnError, \* --fail-on-error: setup.sh does not pass it
    plan,        \* commands that are still to be called
    setups,      \* series of commands called so far
    cmd,         \* [name, step, host]: the command that runs, "none" if none does
    last,        \* [name, exit]: the command that has just ended
    split,       \* --per-disk-instance, or --tservers-per-host > 1
    job,         \* [state, rc, elapsed, terminated]: the Job that runs; rc is 1 for
                 \* every code but 0
    remote,      \* [host, op, arg, stray]: commands under way on the hosts
    strayed,     \* history: a stray took effect since the last stop or clean began
    mounted, wrapper, uploaded, deployed,  \* the hosts
    servers,     \* servers that were started since the last kill, and those of them
    crashed,     \* that are gone
    faults       \* faults so far

controlVars == <<product, failOnError, plan, setups, cmd, last, split>>
jobVars == <<job, remote, strayed>>
serverVars == <<servers, crashed>>
hostVars == <<mounted, wrapper, uploaded, deployed, serverVars, faults>>
vars == <<controlVars, jobVars, hostVars, layoutVars>>

HostSet == Range(Hosts)
Disks == 0 .. DiskCount - 1
LastDisk == DiskCount - 1
Idle == [name |-> "none", step |-> 0, host |-> 1]
NoCommand == [name |-> "none", exit |-> 0]
NoJob == [state |-> "none", rc |-> 0, elapsed |-> 0, terminated |-> FALSE]

\* The disks that are given to an instance.
DisksOf(k) ==
    LET n == DiskCount \div Instances IN {d \in Disks : n * k <= d /\ d < n * (k + 1)}

\* The servers of the host, and the disks on which they keep data.
Up(h) == servers[h] \ crashed[h]
Busy(h) == UNION {s.disks : s \in Up(h)}

Init ==
    /\ product \in {"cockroach", "yugabyte"}
    /\ failOnError = TRUE /\ plan = <<>> /\ setups = 0
    /\ cmd = Idle /\ last = NoCommand
    /\ split = TRUE
    /\ job = NoJob /\ remote = {} /\ strayed = FALSE
    /\ mounted = [h \in HostSet |-> {}]
    /\ wrapper = [h \in HostSet |-> FALSE]
    /\ uploaded = [h \in HostSet |-> FALSE]
    /\ deployed = [h \in HostSet |-> FALSE]
    /\ servers = [h \in HostSet |-> {}]
    /\ crashed = [h \in HostSet |-> {}]
    /\ faults = 0
    /\ LayoutInit

-----------------------------------------------------------------------------
(* What a shell command does on a host, as the set of possible outcomes: the   *)
(* new state and the exit status, which is that of the last part after ";".    *)

Unchanged(h) ==
    [mounted |-> mounted[h], uploaded |-> uploaded[h], deployed |-> deployed[h],
     servers |-> servers[h], crashed |-> crashed[h], status |-> 0, faults |-> 0]

\* pkill; pkill -9; echo "DONE"
KillServers(h) == {[Unchanged(h) EXCEPT !.servers = {}, !.crashed = {}]}

\* umount of every disk; a disk in use, or one not mounted, stays as it is
UnmountDisks(h) ==
    {[Unchanged(h) EXCEPT !.mounted = @ \cap Busy(h),
                          !.status = IF LastDisk \in mounted[h] \ Busy(h) THEN 0 ELSE 32]}

\* Mutant: the status is that of the first disk.
FormatDisksFirst(h) ==
    {[Unchanged(h) EXCEPT !.mounted = Disks \ bad,
                          !.status = IF 0 \in bad THEN 32 ELSE 0,
                          !.faults = Cardinality(bad)] : bad \in SUBSET Disks}

\* umount; mkfs; mkdir; mount of every disk.  mkfs refuses a mounted disk and mount
\* one that is mounted already.
FormatDisks(h) ==
    LET free == Disks \ (mounted[h] \cap Busy(h))
        Outcome(bad) ==
          [Unchanged(h) EXCEPT !.mounted = (@ \cap Busy(h)) \cup (free \ bad),
                               !.status = IF LastDisk \in free \ bad THEN 0 ELSE 32,
                               !.faults = Cardinality(bad)]
    IN  {Outcome(bad) : bad \in SUBSET Disks}

\* parallel-scp of the package
UploadPackage(h) == {[Unchanged(h) EXCEPT !.uploaded = TRUE]}

\* CockroachDB: mkdir; tar | tail; rm -f
ExtractCockroach(h) ==
    {[Unchanged(h) EXCEPT !.deployed = @ \/ uploaded[h], !.uploaded = FALSE]}

\* YugabyteDB: the same; cd; post_install.sh, which the package brings
ExtractYugabyte(h) ==
    LET there == deployed[h] \/ uploaded[h] IN
    {[Unchanged(h) EXCEPT !.deployed = there, !.uploaded = FALSE,
                          !.status = IF there THEN 0 ELSE 1]}

\* A server can be started if its release is there and its port is free.
CanStart(h, k) == deployed[h] /\ \A s \in Up(h) : s.slot # k

Started(h, k, disks) ==
    LET server == [slot |-> k, disks |-> disks] IN
    [Unchanged(h) EXCEPT !.servers = @ \cup {server}, !.crashed = @ \ {server}]

\* cockroach_wrapper waits for "cockroach start --background"
StartCockroach(h, k, disks) ==
    {IF CanStart(h, k) THEN Started(h, k, disks) ELSE [Unchanged(h) EXCEPT !.status = 1]}

\* yugabyte_wrapper puts the server into the background and does not look
StartYugabyte(h, k, disks) ==
    {IF CanStart(h, k) THEN Started(h, k, disks) ELSE Unchanged(h)}

\* The wrapper starts the server, if setup.sh has brought it to the host.
StartServer(h, k, disks) ==
    IF ~wrapper[h]             THEN {[Unchanged(h) EXCEPT !.status = 127]}
    ELSE IF product = "cockroach" THEN StartCockroach(h, k, disks)
                                  ELSE StartYugabyte(h, k, disks)

\* cockroach init needs a server to talk to, and works once
InitCluster(h) ==
    {[Unchanged(h) EXCEPT !.status = s] : s \in IF Up(h) = {} THEN {1} ELSE {0, 1}}

Outcomes(r) ==
    CASE r.op = "kill"    -> KillServers(r.host)
      [] r.op = "proxies" -> {Unchanged(r.host)}
      [] r.op = "umount"  -> UnmountDisks(r.host)
      [] r.op = "format"  -> FormatDisks(r.host)
      [] r.op = "upload"  -> UploadPackage(r.host)
      [] r.op = "extract" -> IF product = "cockroach" THEN ExtractCockroach(r.host)
                                                      ELSE ExtractYugabyte(r.host)
      [] r.op = "master"  -> {Unchanged(r.host)}
      [] r.op = "start"   -> StartServer(r.host, r.arg, r.disks)
      [] r.op = "init"    -> InitCluster(r.host)

\* A command runs on its host.  The ssh process of its job learns its status; no
\* process is left to learn that of a stray.
Execute(r) ==
    /\ \E o \in Outcomes(r) :
         /\ faults + o.faults <= MaxFaults
         /\ faults' = faults + o.faults
         /\ mounted' = [mounted EXCEPT ![r.host] = o.mounted]
         /\ uploaded' = [uploaded EXCEPT ![r.host] = o.uploaded]
         /\ deployed' = [deployed EXCEPT ![r.host] = o.deployed]
         /\ servers' = [servers EXCEPT ![r.host] = o.servers]
         /\ crashed' = [crashed EXCEPT ![r.host] = o.crashed]
         /\ job' = IF r.stray \/ o.status = 0 THEN job ELSE [job EXCEPT !.rc = 1]
    /\ remote' = remote \ {r}
    /\ strayed' = (strayed \/ r.stray)
    /\ UNCHANGED <<controlVars, wrapper, layoutVars>>

\* The host cannot be reached: ssh fails.
Unreachable(r) ==
    /\ ~r.stray
    /\ faults < MaxFaults /\ faults' = faults + 1
    /\ remote' = remote \ {r}
    /\ job' = [job EXCEPT !.rc = 1]
    /\ UNCHANGED <<controlVars, strayed, mounted, wrapper, uploaded, deployed, serverVars,
                   layoutVars>>

\* A server crashes, at its start or later.
Crash(h) ==
    /\ faults < MaxFaults /\ faults' = faults + 1
    /\ \E s \in Up(h) : crashed' = [crashed EXCEPT ![h] = @ \cup {s}]
    /\ UNCHANGED <<controlVars, jobVars, mounted, wrapper, uploaded, deployed, servers,
                   layoutVars>>

-----------------------------------------------------------------------------
(* Job.                                                                        *)

Live == {r \in remote : ~r.stray}

\* Job.run: Popen of ssh, parallel-ssh or parallel-scp.
Launch(hs, op, k, disks) ==
    /\ job' = [NoJob EXCEPT !.state = "running"]
    /\ remote' = remote \cup
         {[host |-> h, op |-> op, arg |-> k, disks |-> disks, stray |-> FALSE] : h \in hs}

\* The process has ended: poll returns its code.
ProcessEnds ==
    /\ job.state = "running" /\ Live = {}
    /\ job' = [job EXCEPT !.state = "ended"]
    /\ UNCHANGED <<controlVars, remote, strayed, hostVars, layoutVars>>

\* The process goes: what it started stays on its own, or was never begun.
GiveUp ==
    /\ faults' = faults + 1
    /\ job' = [job EXCEPT !.state = "ended", !.rc = 1]
    /\ \E left \in SUBSET Live :
         /\ remote' = (remote \ Live) \cup {[r EXCEPT !.stray = TRUE] : r \in left}

\* A terminated ssh process dies; one that does not has to be killed.
DieOfTerminate ==
    /\ job.state = "running" /\ job.terminated /\ faults < MaxFaults
    /\ GiveUp
    /\ UNCHANGED <<controlVars, strayed, mounted, wrapper, uploaded, deployed, serverVars,
                   layoutVars>>

\* Mutants: a process that ignores SIGTERM is waited for, with or without counting.
PollPatient ==
    /\ job.state = "running" /\ Live # {} /\ faults < MaxFaults
    /\ job' = [job EXCEPT !.terminated = TRUE]
    /\ UNCHANGED <<remote, controlVars, strayed, hostVars, layoutVars>>
PollNoKill ==
    /\ job.state = "running" /\ Live # {} /\ faults < MaxFaults
    /\ job' = [job EXCEPT !.elapsed = @ + 1, !.terminated = TRUE]
    /\ UNCHANGED <<remote, controlVars, strayed, hostVars, layoutVars>>

\* A turn of wait_exit_code with the process alive: check_terminate_timeout and
\* check_kill_timeout.
Poll ==
    /\ job.state = "running" /\ Live # {} /\ faults < MaxFaults
    /\ LET e == job.elapsed + 1 IN
         IF e > Timeout + KillTimeout
         THEN GiveUp
         ELSE /\ job' = [job EXCEPT !.elapsed = e, !.terminated = @ \/ e > Timeout]
              /\ UNCHANGED <<remote, faults>>
    /\ UNCHANGED <<controlVars, strayed, mounted, wrapper, uploaded, deployed, serverVars,
                   layoutVars>>

-----------------------------------------------------------------------------
(* control.py                                                                  *)

\* The jobs of the commands that have a fixed list of them.
Jobs(name) ==
    LET stop == IF product = "cockroach" /\ ProxyHosts # {}
                THEN <<"proxies", "kill">> ELSE <<"kill">>
    IN  CASE name = "stop"   -> stop
          [] name = "clean"  -> Append(stop, "umount")
          [] name = "format" -> <<"format">>
          [] name = "deploy" -> <<"upload", "extract">>
          [] name = "init"   -> <<"init">>

JobTargets(op) == CASE op = "init"    -> {Hosts[1]}
                    [] op = "proxies" -> ProxyHosts
                    [] OTHER          -> HostSet

\* Hosts[:3]
Masters == IF product = "yugabyte"
           THEN 1 .. IF Len(Hosts) < 3 THEN Len(Hosts) ELSE 3
           ELSE {}

\* A command ends with its exit code, and its locals are gone; setup.sh (set -e) and
\* the operator stop at a failure.
End(code) ==
    /\ cmd' = Idle /\ job' = NoJob
    /\ last' = [name |-> cmd.name, exit |-> code]
    /\ plan' = IF code # 0 THEN <<>> ELSE plan
    /\ NextHost
    /\ UNCHANGED <<product, failOnError, setups, split, remote, strayed, hostVars>>

\* Mutant: only a job that was terminated has failed.
JobFailedTimeout == job.state = "ended" /\ job.terminated /\ failOnError

\* safe_run raised a JobException and --fail-on-error turns it into an ErrorExit.
JobFailed == job.state = "ended" /\ job.rc # 0 /\ failOnError

Fail == JobFailed /\ End(1)

Ready == job.state = "none" \/ (job.state = "ended" /\ ~JobFailed)

\* The next job of stop, clean, format, deploy or init.
NextJob ==
    /\ cmd.name \notin {"none", "start"} /\ Ready
    /\ cmd.step < Len(Jobs(cmd.name))
    /\ LET op == Jobs(cmd.name)[cmd.step + 1] IN Launch(JobTargets(op), op, 0, {})
    /\ cmd' = [cmd EXCEPT !.step = @ + 1]
    /\ UNCHANGED <<product, failOnError, plan, setups, last, split, strayed, hostVars, layoutVars>>

Done ==
    /\ cmd.name \notin {"none", "start"} /\ Ready
    /\ cmd.step = Len(Jobs(cmd.name))
    /\ End(0)

\* start: YugabyteDB starts the masters first.
StartMaster ==
    /\ cmd.name = "start" /\ Ready
    /\ cmd.step + 1 \in Masters
    /\ Launch({Hosts[cmd.step + 1]}, "master", 0, {})
    /\ cmd' = [cmd EXCEPT !.step = @ + 1]
    /\ UNCHANGED <<product, failOnError, plan, setups, last, split, strayed, hostVars, layoutVars>>

MastersStarted == cmd.step = Cardinality(Masters)

\* One instance of a host: its range of cores, its disks, its job.
StartInstance ==
    /\ cmd.name = "start" /\ Ready /\ MastersStarted /\ split
    /\ cmd.host <= Len(Hosts)
    /\ AssignCores
    /\ Launch({Hosts[cmd.host]}, "start", slot, DisksOf(slot))
    /\ UNCHANGED <<controlVars, strayed, hostVars>>

StartOnNextHost ==
    /\ cmd.name = "start" /\ Ready /\ MastersStarted /\ split
    /\ cmd.host <= Len(Hosts)
    /\ slot = Instances
    /\ NextHost
    /\ cmd' = [cmd EXCEPT !.host = @ + 1]
    /\ job' = NoJob
    /\ UNCHANGED <<product, failOnError, plan, setups, last, split, remote, strayed, hostVars>>

\* One server on all disks of a host: CockroachDB without --per-disk-instance,
\* YugabyteDB with one tserver per host and a range for it in TaskSets.
StartSingle ==
    /\ cmd.name = "start" /\ Ready /\ MastersStarted /\ ~split
    /\ cmd.host <= Len(Hosts)
    /\ Launch({Hosts[cmd.host]}, "start", 0, Disks)
    /\ cmd' = [cmd EXCEPT !.host = @ + 1]
    /\ UNCHANGED <<product, failOnError, plan, setups, last, split, strayed, hostVars, layoutVars>>

\* With an empty TaskSets, as in the sample config, task_set is unbound there, and
\* Python ends with a traceback.
StartUnbound ==
    /\ cmd.name = "start" /\ Ready /\ MastersStarted /\ ~split /\ product = "yugabyte"
    /\ cmd.host = 1
    /\ End(1)

StartDone ==
    /\ cmd.name = "start" /\ Ready /\ MastersStarted
    /\ cmd.host > Len(Hosts)
    /\ End(0)

-----------------------------------------------------------------------------
(* setup.sh and the operator.                                                  *)

SetupPlan == IF product = "cockroach"
             THEN <<"clean", "format", "deploy", "start", "init">>
             ELSE <<"stop", "format", "deploy", "start">>

\* setup.sh brings the wrapper to the hosts, and that of YugabyteDB removes the release
\* first.  It does not look whether a host could be reached ("lost" ones could not),
\* nor whether the copy that is moved into place had arrived ("bare").
CallSetup ==
    /\ cmd = Idle /\ plan = <<>> /\ setups < MaxSetups
    /\ plan' = SetupPlan /\ setups' = setups + 1 /\ failOnError' = FALSE
    /\ last' = NoCommand
    /\ \E lost \in SUBSET HostSet, bare \in SUBSET HostSet :
         /\ lost \cap bare = {}
         /\ faults' = faults + Cardinality(lost) + Cardinality(bare)
         /\ faults' <= MaxFaults
         /\ wrapper' = [h \in HostSet |->
              \/ h \notin lost \cup bare
              \/ wrapper[h] /\ (h \in lost \/ product = "cockroach")]
         /\ deployed' = [h \in HostSet |->
              deployed[h] /\ (h \in lost \/ product = "cockroach")]
    /\ UNCHANGED <<product, cmd, split, jobVars, mounted, uploaded, serverVars,
                   layoutVars>>

\* The operator calls the same commands with --fail-on-error, or stops the cluster.
CallByHand ==
    /\ cmd = Idle /\ plan = <<>> /\ setups < MaxSetups
    /\ plan' \in {SetupPlan, <<"stop">>}
    /\ setups' = setups + 1 /\ failOnError' = TRUE
    /\ last' = NoCommand
    /\ UNCHANGED <<product, cmd, split, jobVars, hostVars, layoutVars>>

\* Main.run.  setup.sh of CockroachDB always passes --per-disk-instance.
Call ==
    /\ cmd = Idle /\ plan # <<>>
    /\ cmd' = [Idle EXCEPT !.name = Head(plan)]
    /\ plan' = Tail(plan)
    /\ strayed' = (strayed /\ Head(plan) \notin {"stop", "clean"})
    /\ split' \in IF Head(plan) = "start" /\ (failOnError \/ product = "yugabyte")
                 THEN BOOLEAN ELSE {TRUE}
    /\ last' = NoCommand
    /\ UNCHANGED <<product, failOnError, setups, job, remote, hostVars, layoutVars>>

Control ==
    \/ Call \/ NextJob \/ Done \/ Fail
    \/ StartMaster \/ StartInstance \/ StartOnNextHost \/ StartSingle
    \/ StartUnbound \/ StartDone
    \/ ProcessEnds \/ Poll

Environment ==
    \/ \E r \in remote : Execute(r) \/ Unreachable(r)
    \/ \E h \in HostSet : Crash(h)
    \/ DieOfTerminate
    \/ CallSetup \/ CallByHand

Next == Control \/ Environment

\* Only the scripts are sure to run on; a host answers only once the bound on faults
\* leaves it no choice.
Answer == faults = MaxFaults /\ \E r \in Live : Execute(r)

Spec == Init /\ [][Next]_vars /\ WF_vars(Control) /\ WF_vars(Answer)

-----------------------------------------------------------------------------
Commands == {"stop", "clean", "format", "deploy", "start", "init"}

TypeOK ==
    /\ product \in {"cockroach", "yugabyte"}
    /\ plan \in Seq(Commands) /\ setups \in 0 .. MaxSetups
    /\ cmd.name \in Commands \cup {"none"} /\ cmd.host \in 1 .. Len(Hosts) + 1
    /\ last.exit \in {0, 1}
    /\ job.state \in {"none", "running", "ended"}
    /\ job.elapsed \in 0 .. Timeout + KillTimeout
    /\ \A r \in remote : r.host \in HostSet
    /\ \A h \in HostSet : mounted[h] \subseteq Disks /\ Busy(h) \subseteq Disks

\* control.py --stop that ends with 0 has stopped every server, unless a command of
\* an earlier job that was given up came in late.
StopMeansDown ==
    (failOnError /\ last = [name |-> "stop", exit |-> 0] /\ cmd = Idle /\ ~strayed) =>
      \A h \in HostSet : servers[h] = {}

\* control.py --start that ends with 0 has started every instance on every host, on
\* its own disks; it is up unless it crashed.  (The wrapper of YugabyteDB ends with 0
\* whether a server came up or not, so this rests on start being called only after a
\* stop and a deploy that went through.)
StartMeansStarted ==
    (failOnError /\ last = [name |-> "start", exit |-> 0] /\ cmd = Idle /\ ~strayed) =>
      \A h \in HostSet :
        IF split
        THEN \A k \in 0 .. Instances - 1 : [slot |-> k, disks |-> DisksOf(k)] \in servers[h]
        ELSE [slot |-> 0, disks |-> Disks] \in servers[h]

\* What a series of commands on YugabyteDB that went through promises of the disks: the
\* status of the format command is that of its last part, so the last disk of every
\* host is mounted, and was so when a server was started on it.
LastDiskMounted ==
    (failOnError /\ product = "yugabyte"
       /\ last = [name |-> "start", exit |-> 0] /\ cmd = Idle /\ ~strayed) =>
      \A h \in HostSet :
        LastDisk \in mounted[h] /\ \E s \in servers[h] : LastDisk \in s.disks

\* No command hangs: a host that does not answer, behind an ssh that ignores SIGTERM,
\* costs a job its two time-outs, and the command goes on or ends.
CommandsEnd == (cmd # Idle) ~> (cmd = Idle)
=============================================================================
