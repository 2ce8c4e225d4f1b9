------------------------ MODULE ClusterControl_proofs ------------------------
(* The cores that control.py gives to the servers of a host, and what a command  *)
(* of it that ends with 0 has done on the hosts, whatever jobs time out, hosts   *)
(* fail to answer and commands of former jobs come in late.                      *)
EXTENDS ClusterControl, RingLayout, TLAPS

-----------------------------------------------------------------------------
(* The cores of one host: the ranges given to taskset are disjoint and, where a  *)
(* host has a core for each of its instances, they are all its cores.            *)

Min2(a, b) == IF a <= b THEN a ELSE b

LayoutTypeOK ==
    /\ slot \in 0 .. Instances
    /\ startCore \in Nat
    /\ remainder \in Nat
    /\ taskSet \in [0 .. Instances - 1 -> [first : Int, last : Int]]

\* The ranges handed out so far follow each other, below start_core.
Ordered ==
    \A k \in 0 .. slot - 1 :
      /\ 0 <= taskSet[k].first
      /\ taskSet[k].last < startCore
      /\ taskSet[k].last >= taskSet[k].first + CoresPerInstance - 1
      /\ \A j \in 0 .. k - 1 : taskSet[j].last < taskSet[k].first

\* start_core counts the cores handed out: c to each instance and one more to each
\* of those that took one of the remaining cores.
Accounted ==
    /\ remainder = (Cores % Instances) - Min2(slot, Cores % Instances)
    /\ startCore = slot * CoresPerInstance + Min2(slot, Cores % Instances)

LayoutInv == LayoutTypeOK /\ Ordered /\ Accounted

LEMMA DivisionFacts ==
    /\ Cores % Instances \in 0 .. Instances - 1
    /\ Cores \div Instances \in Nat
    /\ Cores = Instances * (Cores \div Instances) + (Cores % Instances)
    /\ CoresPerInstance \in Nat
    /\ Cores >= Instances => CoresPerInstance = Cores \div Instances
    /\ Cores >= Instances => CoresPerInstance >= 1
<1> USE LayoutAssumption
<1>1. /\ Cores % Instances \in 0 .. Instances - 1
      /\ Cores \div Instances \in Nat
      /\ Cores = Instances * (Cores \div Instances) + (Cores % Instances)
  BY SMT
<1>2. Cores >= Instances => Cores \div Instances >= 1
  BY <1>1, SMT
<1> QED
  BY <1>1, <1>2, SMT DEF CoresPerInstance

LEMMA LayoutInitInv == LayoutInit => LayoutInv
<1> SUFFICES ASSUME LayoutInit PROVE LayoutInv
  OBVIOUS
<1> USE LayoutAssumption
<1> DEFINE c == CoresPerInstance
           r == Cores % Instances
<1>1. c \in Nat /\ r \in 0 .. Instances - 1
  BY DivisionFacts
<1>2. LayoutTypeOK
  BY <1>1, SMT DEF LayoutInit, LayoutTypeOK, NoTaskSet
<1>3. Ordered
  BY SMT DEF LayoutInit, Ordered
<1>4. 0 * c = 0
  BY <1>1, SMT
<1>5. Accounted
  BY <1>1, <1>4, SMT DEF LayoutInit, Accounted, Min2
<1> QED
  BY <1>2, <1>3, <1>5 DEF LayoutInv

LEMMA AssignCoresInv == LayoutInv /\ AssignCores => LayoutInv'
<1> SUFFICES ASSUME LayoutInv, AssignCores PROVE LayoutInv'
  OBVIOUS
<1> USE LayoutAssumption
<1> DEFINE c == CoresPerInstance
           r == Cores % Instances
           e == startCore + c - 1 + Extra(remainder)
<1>1. c \in Nat /\ r \in 0 .. Instances - 1
  BY DivisionFacts
<1>2. /\ slot \in 0 .. Instances - 1 /\ startCore \in Nat /\ remainder \in Nat
      /\ taskSet \in [0 .. Instances - 1 -> [first : Int, last : Int]]
  BY SMT DEF LayoutInv, LayoutTypeOK, AssignCores
<1>3. Extra(remainder) \in {0, 1} /\ (remainder > 0 <=> Extra(remainder) = 1)
  BY <1>2, SMT DEF Extra
<1>4. /\ taskSet' = [taskSet EXCEPT ![slot] = [first |-> startCore, last |-> e]]
      /\ startCore' = e + 1 /\ remainder' = remainder - Extra(remainder)
      /\ slot' = slot + 1
  BY DEF AssignCores
<1> HIDE DEF c
<1> DEFINE x == Extra(remainder)
<1> HIDE DEF x
<1>5. /\ x \in {0, 1} /\ e \in Int /\ e + 1 = startCore + c + x
      /\ startCore' = startCore + c + x /\ startCore' \in Nat
      /\ startCore <= startCore' /\ remainder' \in Nat
  <2>1. e = startCore + c - 1 + x /\ x \in {0, 1} /\ (remainder > 0 <=> x = 1)
    BY <1>3 DEF x
  <2>2. remainder' = remainder - x /\ startCore' = e + 1
    BY <1>4 DEF x
  <2> HIDE DEF e
  <2> QED
    BY <1>1, <1>2, <2>1, <2>2, SMT
<1> HIDE DEF e
<1>6. LayoutTypeOK'
  <2>1. slot' \in 0 .. Instances
    <3>1. slot \in 0 .. Instances - 1
      BY <1>2
    <3>2. slot' = slot + 1
      BY <1>4
    <3> QED
      BY <3>1, <3>2, SMT
  <2>2. taskSet' \in [0 .. Instances - 1 -> [first : Int, last : Int]]
    BY <1>2, <1>4, <1>5, SMT
  <2> QED
    BY <1>5, <2>1, <2>2 DEF LayoutTypeOK
<1>7. Ordered'
  <2> SUFFICES ASSUME NEW k \in 0 .. slot
               PROVE  /\ 0 <= taskSet'[k].first
                      /\ taskSet'[k].last < startCore'
                      /\ taskSet'[k].last >= taskSet'[k].first + c - 1
                      /\ \A j \in 0 .. k - 1 : taskSet'[j].last < taskSet'[k].first
    <3>1. CoresPerInstance' = c
      BY DEF CoresPerInstance, c
    <3>2. 0 .. slot' - 1 = 0 .. slot
      BY <1>2, <1>4, SMT
    <3> QED
      BY <3>1, <3>2 DEF Ordered
  <2>1. \A i \in 0 .. slot - 1 :
          /\ taskSet'[i] = taskSet[i]
          /\ taskSet[i].first \in Int /\ taskSet[i].last \in Int
    <3> SUFFICES ASSUME NEW i \in 0 .. slot - 1
                 PROVE  /\ taskSet'[i] = taskSet[i]
                        /\ taskSet[i].first \in Int /\ taskSet[i].last \in Int
      OBVIOUS
    <3>1. i \in 0 .. Instances - 1 /\ i # slot
      BY <1>2
    <3>2. taskSet'[i] = taskSet[i]
      BY <1>2, <1>4, <3>1
    <3> QED
      BY <1>2, <3>1, <3>2
  <2>2. \A i \in 0 .. slot - 1 :
          /\ 0 <= taskSet[i].first /\ taskSet[i].last < startCore
          /\ taskSet[i].last >= taskSet[i].first + c - 1
          /\ \A j \in 0 .. i - 1 : taskSet[j].last < taskSet[i].first
    BY DEF LayoutInv, Ordered, c
  <2>3. startCore <= startCore'
    BY <1>5
  <2>4. CASE k = slot
    <3>1. taskSet'[k].first = startCore /\ taskSet'[k].last = e
      BY <1>2, <1>4, <2>4, SMT
    <3>2. startCore' = e + 1
      BY <1>4
    <3>3. 0 <= startCore /\ e < startCore' /\ e >= startCore + c - 1
      BY <1>1, <1>2, <1>5, <3>2, SMT
    <3>4. \A j \in 0 .. k - 1 : taskSet'[j].last < startCore
      BY <2>1, <2>2, <2>4
    <3> QED
      BY <3>1, <3>3, <3>4
  <2>5. CASE k # slot
    <3>1. k \in 0 .. slot - 1
      BY <1>2, <2>5, SMT
    <3>2. \A j \in 0 .. k - 1 : j \in 0 .. slot - 1
      BY <1>2, <3>1, SMT
    <3>3. taskSet'[k] = taskSet[k] /\ \A j \in 0 .. k - 1 : taskSet'[j] = taskSet[j]
      BY <2>1, <3>1, <3>2
    <3>4. taskSet[k].last < startCore'
      <4>1. taskSet[k].last \in Int /\ taskSet[k].last < startCore
        BY <2>1, <2>2, <3>1
      <4> QED
        BY <1>2, <1>5, <2>3, <4>1, SMT
    <3> QED
      BY <2>2, <3>1, <3>3, <3>4
  <2> QED
    BY <2>4, <2>5
<1>8. Accounted'
  <2>1. remainder = r - Min2(slot, r) /\ startCore = slot * c + Min2(slot, r)
    BY DEF LayoutInv, Accounted, c
  <2>2. (slot + 1) * c = slot * c + c /\ slot * c \in Int
    BY <1>1, <1>2, SMT
  <2>3. Min2(slot + 1, r) = Min2(slot, r) + Extra(remainder)
    BY <1>1, <1>2, <2>1, SMT DEF Min2, Extra
  <2> DEFINE m == Min2(slot, r)
  <2>9. m \in Int /\ r \in Int
    BY <1>1, <1>2, SMT DEF Min2
  <2> HIDE DEF m, r
  <2>4. remainder' = r - Min2(slot + 1, r)
    <3>1. remainder' = remainder - x /\ Min2(slot + 1, r) = m + x /\ remainder = r - m
      BY <1>4, <2>1, <2>3 DEF x, m
    <3> QED
      BY <1>5, <2>9, <3>1, SMT
  <2>5. startCore' = (slot + 1) * c + Min2(slot + 1, r)
    <3>1. startCore' = startCore + c + x /\ Min2(slot + 1, r) = m + x
          /\ startCore = slot * c + m
      BY <1>5, <2>1, <2>3 DEF x, m
    <3> QED
      BY <1>1, <1>5, <2>2, <2>9, <3>1, SMT
  <2>6. CoresPerInstance' = c
    BY DEF CoresPerInstance, c
  <2> QED
    BY <1>4, <2>4, <2>5, <2>6 DEF Accounted, r
<1> QED
  BY <1>6, <1>7, <1>8 DEF LayoutInv

LEMMA NextHostInv == LayoutInv /\ NextHost => LayoutInv'
<1> SUFFICES ASSUME NextHost PROVE LayoutInv'
  OBVIOUS
<1> USE LayoutAssumption
<1>1. CoresPerInstance \in Nat /\ Cores % Instances \in 0 .. Instances - 1
  BY DivisionFacts
<1>2. CoresPerInstance' = CoresPerInstance
  BY DEF CoresPerInstance
<1>3. LayoutTypeOK'
  BY <1>1, SMT DEF NextHost, LayoutTypeOK, NoTaskSet
<1>4. Ordered'
  BY <1>2, SMT DEF NextHost, Ordered
<1>5. 0 * CoresPerInstance = 0
  BY <1>1, SMT
<1>6. Accounted'
  BY <1>1, <1>2, <1>5, SMT DEF NextHost, Accounted, Min2
<1> QED
  BY <1>3, <1>4, <1>6 DEF LayoutInv

\* In every state of the loop over cores the ranges ascend below the next core, and the
\* next core and the remainder account for the instances that have theirs.
THEOREM LayoutInvariance == LayoutSpec => []LayoutInv
<1>1. LayoutInit => LayoutInv
  BY LayoutInitInv
<1>2. LayoutInv /\ [LayoutNext]_layoutVars => LayoutInv'
  <2> SUFFICES ASSUME LayoutInv, [LayoutNext]_layoutVars PROVE LayoutInv'
    OBVIOUS
  <2>1. CASE AssignCores
    BY <2>1, AssignCoresInv
  <2>2. CASE NextHost
    BY <2>2, NextHostInv
  <2>3. CASE UNCHANGED layoutVars
    BY <2>3 DEF LayoutInv, LayoutTypeOK, Ordered, Accounted, CoresPerInstance, layoutVars
  <2> QED
    BY <2>1, <2>2, <2>3 DEF LayoutNext
<1> QED
  BY <1>1, <1>2, PTL DEF LayoutSpec

\* No two instances of a host are pinned to a common core.
THEOREM DisjointCores == LayoutSpec => []CoresDisjoint
<1>1. LayoutInv => CoresDisjoint
  <2> SUFFICES ASSUME LayoutInv, NEW j \in 0 .. slot - 1, NEW k \in 0 .. slot - 1, j # k
               PROVE  CoresOf(j) \cap CoresOf(k) = {}
    BY DEF CoresDisjoint
  <2>1. /\ slot \in Nat /\ slot <= Instances /\ Instances \in Nat
        /\ taskSet \in [0 .. Instances - 1 -> [first : Int, last : Int]]
    BY LayoutAssumption, SMT DEF LayoutInv, LayoutTypeOK
  <2>2. \A i \in 0 .. slot - 1 : \A h \in 0 .. i - 1 : taskSet[h].last < taskSet[i].first
    BY DEF LayoutInv, Ordered
  <2>3. CASE j < k
    BY <2>1, <2>2, <2>3, SMT DEF CoresOf
  <2>4. CASE k < j
    BY <2>1, <2>2, <2>4, SMT DEF CoresOf
  <2> QED
    BY <2>1, <2>3, <2>4, SMT
<1> QED
  BY <1>1, LayoutInvariance, PTL

\* The instances of a host share exactly its cores, if there are enough of them.
THEOREM CompleteCores == LayoutSpec => []CoresComplete
<1>1. LayoutInv => CoresComplete
  <2> SUFFICES ASSUME LayoutInv, slot = Instances, Cores >= Instances
               PROVE  /\ startCore = Cores
                      /\ \A k \in 0 .. Instances - 1 :
                           /\ 0 <= taskSet[k].first
                           /\ taskSet[k].first <= taskSet[k].last
                           /\ taskSet[k].last < Cores
    BY DEF CoresComplete
  <2> USE LayoutAssumption
  <2> DEFINE q == Cores \div Instances
             r == Cores % Instances
  <2>1. /\ r \in 0 .. Instances - 1 /\ q \in Nat /\ Cores = Instances * q + r
        /\ CoresPerInstance = q /\ q >= 1
    BY DivisionFacts
  <2>2. Min2(Instances, r) = r
    BY <2>1, SMT DEF Min2
  <2>3. startCore = Instances * q + r
    BY <2>1, <2>2 DEF LayoutInv, Accounted
  <2>4. startCore = Cores
    BY <2>1, <2>3
  <2>5. \A k \in 0 .. Instances - 1 :
          /\ 0 <= taskSet[k].first /\ taskSet[k].last < startCore
          /\ taskSet[k].last >= taskSet[k].first + CoresPerInstance - 1
    BY DEF LayoutInv, Ordered
  <2>6. \A k \in 0 .. Instances - 1 : taskSet[k].first \in Int /\ taskSet[k].last \in Int
    BY SMT DEF LayoutInv, LayoutTypeOK
  <2> HIDE DEF q
  <2> QED
    BY <2>1, <2>4, <2>5, <2>6, SMT
<1> QED
  BY <1>1, LayoutInvariance, PTL
-----------------------------------------------------------------------------
(* The same for the servers that start is called for.                         *)

\* Every step of the commands is one of the layout or leaves it alone.
LEMMA StepLayout == [Next]_vars => [LayoutNext]_layoutVars
<1> SUFFICES ASSUME [Next]_vars PROVE [LayoutNext]_layoutVars
  OBVIOUS
<1>1. ASSUME NEW code, End(code) PROVE NextHost
  BY <1>1 DEF End
<1>2. CASE Call \/ NextJob \/ StartMaster \/ StartSingle \/ ProcessEnds
  BY <1>2 DEF Call, NextJob, StartMaster, StartSingle, ProcessEnds
<1>3. CASE Done \/ Fail \/ StartUnbound \/ StartDone
  BY <1>1, <1>3 DEF Done, Fail, StartUnbound, StartDone, LayoutNext
<1>4. CASE StartInstance
  BY <1>4 DEF StartInstance, LayoutNext
<1>5. CASE StartOnNextHost
  BY <1>5 DEF StartOnNextHost, LayoutNext
<1>6. CASE Poll
  BY <1>6 DEF Poll
<1>7. CASE Environment
  BY <1>7 DEF Environment, Execute, Unreachable, Crash, DieOfTerminate, CallSetup,
                       CallByHand
<1>8. CASE UNCHANGED vars
  BY <1>8 DEF vars
<1> QED
  BY <1>2, <1>3, <1>4, <1>5, <1>6, <1>7, <1>8 DEF Next, Control

\* control.py implements the layout of the cores.
THEOREM ImplementsLayout == Spec => LayoutSpec
<1>1. Init => LayoutInit
  BY DEF Init
<1> QED
  BY <1>1, StepLayout, PTL DEF Spec, LayoutSpec

\* No two servers that a start command gives a range of cores on one host share a
\* core, in whatever order commands succeed, fail and are called again.
THEOREM ServersDisjoint == Spec => []CoresDisjoint
  BY ImplementsLayout, DisjointCores, PTL

\* The servers of a host get exactly its cores, if there are enough of them.
THEOREM ServersComplete == Spec => []CoresComplete
  BY ImplementsLayout, CompleteCores, PTL

\* Both together: the cores of a host are shared out among its servers.
THEOREM ServersShareCores == Spec => []CoresShared
<1>1. CoresDisjoint /\ CoresComplete => CoresShared
  BY DEF CoresShared
<1> QED
  BY <1>1, ServersDisjoint, ServersComplete, PTL

-----------------------------------------------------------------------------
(* The commands.                                                               *)

Products == {"cockroach", "yugabyte"}
Ops == {"proxies", "kill", "umount", "format", "upload", "extract", "init", "master", "start"}
Requests == [host: HostSet, op: Ops, arg: Nat, disks: SUBSET Disks, stray: BOOLEAN]
Servers == [slot: Nat, disks: SUBSET Disks]
JobRecords == [state: {"none", "running", "ended"}, rc: {0, 1},
               elapsed: 0 .. Timeout + KillTimeout, terminated: BOOLEAN]

Types ==
    /\ product \in Products
    /\ {failOnError, split, strayed} \subseteq BOOLEAN
    /\ plan \in Seq(Commands) /\ setups \in 0 .. MaxSetups
    /\ cmd \in [name: Commands \cup {"none"}, step: Nat, host: 1 .. Len(Hosts) + 1]
    /\ last \in [name: Commands \cup {"none"}, exit: {0, 1}]
    /\ job \in JobRecords
    /\ remote \subseteq Requests
    /\ mounted \in [HostSet -> SUBSET Disks]
    /\ uploaded \in [HostSet -> BOOLEAN] /\ deployed \in [HostSet -> BOOLEAN]
    /\ wrapper \in [HostSet -> BOOLEAN]
    /\ servers \in [HostSet -> SUBSET Servers]
    /\ slot \in 0 .. Instances

\* Only the job that runs has requests under way that are not strays, and they are
\* those of the command's present step.
JobInv ==
    /\ job.state # "running" => Live = {}
    /\ job.state = "none" => job.rc = 0
    /\ cmd.name = "none" => cmd = Idle /\ job = NoJob
    /\ cmd.name # "start" => slot = 0 /\ cmd.host = 1
    /\ cmd.name \notin {"none", "start"} => cmd.step \in 0 .. Len(Jobs(cmd.name))
    /\ \A r \in Live :
         /\ cmd.name # "start" => cmd.step >= 1 /\ r.op = Jobs(cmd.name)[cmd.step]
         /\ cmd.name = "start" => r.op \in {"master", "start"}
         /\ cmd.name = "start" /\ r.op = "start" =>
              r.disks = IF split THEN DisksOf(r.arg) ELSE Disks

\* YugabyteDB is only ever started by a series that stopped, formatted and deployed.
PlanInv ==
    product = "yugabyte" =>
      /\ cmd.name = "none" =>
           plan \in {<<>>, <<"stop">>, <<"stop", "format", "deploy", "start">>,
                     <<"format", "deploy", "start">>, <<"deploy", "start">>, <<"start">>}
      /\ cmd.name = "stop" => plan \in {<<>>, <<"format", "deploy", "start">>}
      /\ cmd.name = "format" => plan = <<"deploy", "start">>
      /\ cmd.name = "deploy" => plan = <<"start">>
      /\ cmd.name = "start" => plan = <<>>
      /\ cmd.name \notin {"clean", "init"}

\* A command that ends its helper at a failure, with nothing stray since the stop.
Sure == failOnError /\ ~strayed

\* A request of the job is under way on the host.
Underway(h, op) == \E r \in Live : r.host = h /\ r.op = op

StopInv ==
    Sure =>
      /\ cmd.name = "stop" /\ cmd.step = Len(Jobs("stop")) /\ job.rc = 0 =>
           \A h \in HostSet : servers[h] = {} \/ Underway(h, "kill")
      /\ cmd.name = "none" /\ last = [name |-> "stop", exit |-> 0] =>
           \A h \in HostSet : servers[h] = {}

\* Where a series on YugabyteDB stands: it comes from a stop, a format, a deploy.
Stopped == \/ cmd.name \in {"format", "deploy"}
           \/ cmd.name = "none" /\ plan \in {<<"format", "deploy", "start">>,
                                             <<"deploy", "start">>, <<"start">>}
Formatted == \/ cmd.name \in {"deploy", "start"}
             \/ cmd.name = "none" /\ plan \in {<<"deploy", "start">>, <<"start">>}
             \/ cmd.name = "none" /\ last = [name |-> "start", exit |-> 0]
Deployed == cmd.name = "start" \/ (cmd.name = "none" /\ plan = <<"start">>)

\* A server has the disks that start gives to its slot.
OnItsDisks(s) == s.disks = IF split THEN DisksOf(s.slot) ELSE Disks

SeriesInv ==
    Sure /\ product = "yugabyte" =>
      /\ Stopped => \A h \in HostSet : servers[h] = {}
      /\ cmd.name = "format" /\ cmd.step = 1 /\ job.rc = 0 =>
           \A h \in HostSet : LastDisk \in mounted[h] \/ Underway(h, "format")
      /\ Formatted => \A h \in HostSet : LastDisk \in mounted[h]
      /\ cmd.name = "deploy" /\ cmd.step = 2 /\ job.rc = 0 =>
           \A h \in HostSet : deployed[h] \/ Underway(h, "extract")
      /\ Deployed => \A h \in HostSet : deployed[h]
      /\ cmd.name = "start" => \A h \in HostSet : \A s \in servers[h] : OnItsDisks(s)

\* How far start is: the servers of the hosts before the present one were started, and
\* so were the present one's, but for the last, whose request may be under way.
HasServer(h, k) == [slot |-> k, disks |-> DisksOf(k)] \in servers[h]
HasSingle(h) == [slot |-> 0, disks |-> Disks] \in servers[h]

StartInv ==
    Sure =>
      /\ cmd.name = "start" /\ job.rc = 0 /\ split =>
           /\ \A i \in 1 .. cmd.host - 1, k \in 0 .. Instances - 1 : HasServer(Hosts[i], k)
           /\ cmd.host <= Len(Hosts) => \A k \in 0 .. slot - 1 :
                \/ HasServer(Hosts[cmd.host], k)
                \/ \E r \in Live : r.host = Hosts[cmd.host] /\ r.op = "start" /\ r.arg = k
           /\ cmd.host > Len(Hosts) => slot = 0
      /\ cmd.name = "start" /\ job.rc = 0 /\ ~split =>
           /\ slot = 0
           /\ \A i \in 1 .. cmd.host - 1 :
                \/ HasSingle(Hosts[i])
                \/ \E r \in Live : r.host = Hosts[i] /\ r.op = "start" /\ r.arg = 0
      /\ cmd.name = "none" /\ last = [name |-> "start", exit |-> 0] =>
           \A h \in HostSet : IF split THEN \A k \in 0 .. Instances - 1 : HasServer(h, k)
                                       ELSE HasSingle(h)

ClusterInv ==
    Types /\ JobInv /\ PlanInv /\ StopInv /\ SeriesInv /\ StartInv


-----------------------------------------------------------------------------
(* Sequences of the commands.                                                  *)

\* Taking the first command off a series.
LEMMA TailOfPlan ==
    /\ Head(<<"stop", "format", "deploy", "start">>) = "stop"
    /\ Tail(<<"stop", "format", "deploy", "start">>) = <<"format", "deploy", "start">>
    /\ Head(<<"format", "deploy", "start">>) = "format"
    /\ Tail(<<"format", "deploy", "start">>) = <<"deploy", "start">>
    /\ Head(<<"deploy", "start">>) = "deploy"
    /\ Tail(<<"deploy", "start">>) = <<"start">>
    /\ Head(<<"start">>) = "start" /\ Tail(<<"start">>) = <<>>
    /\ Head(<<"stop">>) = "stop" /\ Tail(<<"stop">>) = <<>>
  OBVIOUS

\* Each command has its jobs.
LEMMA JobsOf ==
    ASSUME product \in Products
    PROVE  /\ Len(Jobs("stop")) = IF product = "cockroach" /\ ProxyHosts # {} THEN 2 ELSE 1
           /\ Jobs("stop")[Len(Jobs("stop"))] = "kill"
           /\ Jobs("format") = <<"format">> /\ Len(Jobs("format")) = 1
           /\ Jobs("deploy") = <<"upload", "extract">> /\ Len(Jobs("deploy")) = 2
           /\ \A name \in Commands \ {"start"} :
                /\ Len(Jobs(name)) \in Nat
                /\ \A i \in 1 .. Len(Jobs(name)) :
                     Jobs(name)[i] \in Ops \ {"master", "start"}
  BY DEF Jobs, Products, Commands, Ops

-----------------------------------------------------------------------------
(* What the requests do on their hosts.                                        *)

\* The server that a request to start one is about.
Asked(r) == [slot |-> r.arg, disks |-> r.disks]

\* What is known of an outcome by the request it is one of.
OutcomeOf(r, o) ==
    /\ o.mounted \in SUBSET Disks /\ o.uploaded \in BOOLEAN /\ o.deployed \in BOOLEAN
    /\ o.servers \in SUBSET Servers
    /\ r.op = "kill" => o.servers = {}
    /\ r.op \notin {"kill", "start"} => o.servers = servers[r.host]
    /\ r.op = "start" =>
         /\ servers[r.host] \subseteq o.servers
         /\ o.servers \subseteq servers[r.host] \cup {Asked(r)}
         /\ product = "cockroach" /\ o.status = 0 => Asked(r) \in o.servers
         /\ product = "yugabyte" /\ deployed[r.host] /\ o.status = 0 =>
              Asked(r) \in o.servers \/ \E s \in servers[r.host] : s.slot = r.arg
    /\ r.op \notin {"umount", "format"} => o.mounted = mounted[r.host]
    /\ r.op = "format" /\ o.status = 0 => LastDisk \in o.mounted
    /\ product = "yugabyte" =>
         /\ deployed[r.host] => o.deployed
         /\ r.op = "extract" /\ o.status = 0 => o.deployed

\* A server is started, or nothing changes but the status.
LEMMA StartedFacts ==
    ASSUME Types, NEW r \in Requests, NEW o \in StartServer(r.host, r.arg, r.disks)
    PROVE  /\ o.mounted = mounted[r.host] /\ o.uploaded = uploaded[r.host]
           /\ o.deployed = deployed[r.host]
           /\ o.servers = servers[r.host] \/ o.servers = servers[r.host] \cup {Asked(r)}
           /\ product = "cockroach" /\ o.status = 0 => Asked(r) \in o.servers
           /\ product = "yugabyte" /\ deployed[r.host] /\ o.status = 0 =>
                Asked(r) \in o.servers \/ \E s \in servers[r.host] : s.slot = r.arg
<1> DEFINE h == r.host
           up == Started(h, r.arg, r.disks)
<1>1. /\ up.mounted = mounted[h] /\ up.uploaded = uploaded[h] /\ up.deployed = deployed[h]
      /\ up.servers = servers[h] \cup {Asked(r)}
  BY DEF Started, Unchanged, Asked
<1>2. \A status : [Unchanged(h) EXCEPT !.status = status]
                    = [mounted |-> mounted[h], uploaded |-> uploaded[h],
                       deployed |-> deployed[h], servers |-> servers[h],
                       crashed |-> crashed[h], status |-> status, faults |-> 0]
  BY DEF Unchanged
<1>3. CASE ~wrapper[h]
  <2>1. o = [Unchanged(h) EXCEPT !.status = 127]
    BY <1>3 DEF StartServer
  <2>2. /\ o.mounted = mounted[h] /\ o.uploaded = uploaded[h] /\ o.deployed = deployed[h]
        /\ o.servers = servers[h] /\ o.status = 127
    BY <1>2, <2>1
  <2> QED
    BY <2>2
<1>4. CASE wrapper[h] /\ CanStart(h, r.arg)
  <2>1. o = up
    BY <1>4 DEF StartServer, StartCockroach, StartYugabyte
  <2> HIDE DEF up
  <2> QED
    BY <1>1, <2>1
<1>5. CASE wrapper[h] /\ ~CanStart(h, r.arg)
  <2>1. \/ product = "cockroach" /\ o = [Unchanged(h) EXCEPT !.status = 1]
        \/ product # "cockroach" /\ o = Unchanged(h)
    BY <1>5 DEF StartServer, StartCockroach, StartYugabyte
  <2>2. /\ o.mounted = mounted[h] /\ o.uploaded = uploaded[h] /\ o.deployed = deployed[h]
        /\ o.servers = servers[h] /\ (product = "cockroach" => o.status = 1)
    <3>1. CASE product = "cockroach"
      BY <1>2, <2>1, <3>1
    <3>2. CASE product # "cockroach"
      BY <2>1, <3>2 DEF Unchanged
    <3> QED
      BY <3>1, <3>2
  <2>3. deployed[h] => \E s \in servers[h] : s.slot = r.arg
    BY <1>5 DEF CanStart, Up
  <2> QED
    BY <2>2, <2>3
<1> QED
  BY <1>3, <1>4, <1>5

\* All outcomes of all requests.
LEMMA OutcomeFacts ==
    ASSUME Types, NEW r \in remote, NEW o \in Outcomes(r)
    PROVE  OutcomeOf(r, o)
<1> DEFINE h == r.host
           u == Unchanged(h)
<1>1. /\ r \in Requests /\ h \in HostSet /\ r.op \in Ops /\ product \in Products
      /\ mounted[h] \in SUBSET Disks /\ uploaded[h] \in BOOLEAN /\ deployed[h] \in BOOLEAN
      /\ servers[h] \in SUBSET Servers
  BY DEF Types, Requests
<1>2. /\ u.mounted = mounted[h] /\ u.uploaded = uploaded[h] /\ u.deployed = deployed[h]
      /\ u.servers = servers[h] /\ u.status = 0 /\ u.faults = 0
      /\ DOMAIN u = {"mounted", "uploaded", "deployed", "servers", "crashed", "status",
                     "faults"}
  BY DEF Unchanged
<1>3. CASE r.op \in {"proxies", "master"}
  <2>1. o = u
    BY <1>3 DEF Outcomes
  <2> QED
    BY <1>1, <1>2, <1>3, <2>1 DEF OutcomeOf
<1>4. CASE r.op = "kill"
  <2>1. o = [u EXCEPT !.servers = {}, !.crashed = {}]
    BY <1>4 DEF Outcomes, KillServers
  <2>2. /\ o.mounted = mounted[h] /\ o.uploaded = uploaded[h] /\ o.deployed = deployed[h]
        /\ o.servers = {}
    BY <2>1 DEF Unchanged
  <2> QED
    BY <1>1, <1>4, <2>2 DEF OutcomeOf
<1>5. CASE r.op = "umount"
  <2>1. /\ o.mounted = mounted[h] \cap Busy(h) /\ o.uploaded = uploaded[h]
        /\ o.deployed = deployed[h] /\ o.servers = servers[h]
    BY <1>5 DEF Outcomes, UnmountDisks, Unchanged
  <2> QED
    BY <1>1, <1>5, <2>1 DEF OutcomeOf
<1>6. CASE r.op = "format"
  <2> DEFINE free == Disks \ (mounted[h] \cap Busy(h))
           kept == mounted[h] \cap Busy(h)
           Outcome(bad) ==
             [u EXCEPT !.mounted = (@ \cap Busy(h)) \cup (free \ bad),
                       !.status = IF LastDisk \in free \ bad THEN 0 ELSE 32,
                       !.faults = Cardinality(bad)]
  <2>1. o \in FormatDisks(h)
    BY <1>6 DEF Outcomes
  <2>2. PICK bad \in SUBSET Disks : o = Outcome(bad)
    BY <2>1 DEF FormatDisks
  <2>3. kept \subseteq Disks /\ free \subseteq Disks
    BY <1>1
  <2> HIDE DEF free
  <2>4. /\ o.mounted = (u.mounted \cap Busy(h)) \cup (free \ bad)
        /\ o.uploaded = u.uploaded
        /\ o.deployed = u.deployed /\ o.servers = u.servers
        /\ o.status = IF LastDisk \in free \ bad THEN 0 ELSE 32
    BY <1>2, <2>2 DEF Unchanged
  <2>5. o.mounted = kept \cup (free \ bad)
    BY <1>2, <2>4
  <2>6. o.mounted \in SUBSET Disks
    BY <2>3, <2>5
  <2>7. o.status = 0 => LastDisk \in o.mounted
    BY <2>4, <2>5
  <2> QED
    BY <1>1, <1>2, <1>6, <2>4, <2>6, <2>7 DEF OutcomeOf
<1>7. CASE r.op = "upload"
  <2>1. o = [u EXCEPT !.uploaded = TRUE]
    BY <1>7 DEF Outcomes, UploadPackage
  <2>2. /\ o.mounted = mounted[h] /\ o.uploaded = TRUE /\ o.deployed = deployed[h]
        /\ o.servers = servers[h]
    BY <2>1 DEF Unchanged
  <2> QED
    BY <1>1, <1>7, <2>2 DEF OutcomeOf
<1>8. CASE r.op = "extract"
  <2>1. /\ o.mounted = mounted[h] /\ o.servers = servers[h] /\ o.uploaded = FALSE
        /\ o.deployed = (deployed[h] \/ uploaded[h])
        /\ product = "yugabyte" => o.status = IF deployed[h] \/ uploaded[h] THEN 0 ELSE 1
    <3>1. CASE product = "cockroach"
      BY <1>8, <3>1 DEF Outcomes, ExtractCockroach, Unchanged
    <3>2. CASE product # "cockroach"
      BY <1>8, <3>2 DEF Outcomes, ExtractYugabyte, Unchanged
    <3> QED
      BY <3>1, <3>2
  <2>2. o.deployed \in BOOLEAN
    BY <2>1
  <2>3. deployed[h] => o.deployed
    BY <2>1
  <2> DEFINE there == deployed[h] \/ uploaded[h]
  <2>4. product = "yugabyte" /\ o.status = 0 => o.deployed
    <3>1. o.deployed = there /\ (product = "yugabyte" => o.status = IF there THEN 0 ELSE 1)
      BY <2>1
    <3> HIDE DEF there
    <3>2. CASE there
      BY <3>1, <3>2
    <3>3. CASE ~there
      BY <3>1, <3>3
    <3> QED
      BY <3>2, <3>3
  <2>5. o.mounted = mounted[h] /\ o.servers = servers[h] /\ o.uploaded \in BOOLEAN
    BY <2>1
  <2> HIDE DEF h
  <2> QED
    BY <1>1, <1>8, <2>2, <2>3, <2>4, <2>5 DEF OutcomeOf, h
<1>9. CASE r.op = "start"
  <2>1. o \in StartServer(r.host, r.arg, r.disks)
    BY <1>9 DEF Outcomes
  <2>2. /\ o.mounted = mounted[h] /\ o.uploaded = uploaded[h] /\ o.deployed = deployed[h]
        /\ o.servers = servers[h] \/ o.servers = servers[h] \cup {Asked(r)}
        /\ product = "cockroach" /\ o.status = 0 => Asked(r) \in o.servers
        /\ product = "yugabyte" /\ deployed[h] /\ o.status = 0 =>
             Asked(r) \in o.servers \/ \E s \in servers[h] : s.slot = r.arg
    BY <1>1, <2>1, StartedFacts
  <2>3. Asked(r) \in Servers
    BY <1>1 DEF Asked, Requests, Servers
  <2>4. o.servers \in SUBSET Servers
    BY <1>1, <2>2, <2>3
  <2> HIDE DEF h
  <2> QED
    BY <1>1, <1>9, <2>2, <2>4 DEF OutcomeOf, h
<1>10. CASE r.op = "init"
  <2>1. PICK s \in {0, 1} : o = [u EXCEPT !.status = s]
    BY <1>10 DEF Outcomes, InitCluster
  <2>2. /\ o.mounted = mounted[h] /\ o.uploaded = uploaded[h] /\ o.deployed = deployed[h]
        /\ o.servers = servers[h]
    BY <2>1 DEF Unchanged
  <2> QED
    BY <1>1, <1>10, <2>2 DEF OutcomeOf
<1> QED
  BY <1>1, <1>3, <1>4, <1>5, <1>6, <1>7, <1>8, <1>9, <1>10 DEF Ops

-----------------------------------------------------------------------------
(* Steps of the job alone: the hosts and the command stay as they are.         *)

\* Requests of the job are answered or given up; while its rc is 0, none is.
Quiet ==
    /\ UNCHANGED <<controlVars, strayed, mounted, wrapper, uploaded, deployed, servers,
                  layoutVars>>
    /\ job' \in JobRecords /\ remote' \subseteq Requests
    /\ Live' \subseteq Live
    /\ job' = job \/ (job.state # "none" /\ job'.state # "none")
    /\ job'.state # "running" => Live' = {}
    /\ job'.rc = 0 => job.rc = 0 /\ Live' = Live

LEMMA JobsStay == product' = product => \A name : Jobs(name)' = Jobs(name)
  BY DEF Jobs

LEMMA QuietInv == ClusterInv /\ Quiet => ClusterInv'
<1> SUFFICES ASSUME ClusterInv, Quiet PROVE ClusterInv'
  OBVIOUS
<1>1. /\ product' = product /\ failOnError' = failOnError /\ plan' = plan
      /\ setups' = setups /\ cmd' = cmd /\ last' = last /\ split' = split
      /\ strayed' = strayed /\ mounted' = mounted /\ uploaded' = uploaded
      /\ deployed' = deployed /\ servers' = servers /\ slot' = slot /\ wrapper' = wrapper
  BY DEF Quiet, controlVars, layoutVars
<1>2. /\ job' \in JobRecords /\ remote' \subseteq Requests /\ Live' \subseteq Live
      /\ job' = job \/ (job.state # "none" /\ job'.state # "none")
      /\ job'.state # "running" => Live' = {}
      /\ job'.rc = 0 => job.rc = 0 /\ Live' = Live
  BY DEF Quiet
<1>3. /\ \A name : Jobs(name)' = Jobs(name)
      /\ \A k : DisksOf(k)' = DisksOf(k)
      /\ Sure' = Sure
      /\ Stopped' = Stopped /\ Formatted' = Formatted /\ Deployed' = Deployed
  BY <1>1, JobsStay DEF DisksOf, Sure, Stopped, Formatted, Deployed
<1>4. job'.rc = 0 => \A h, op : Underway(h, op)' = Underway(h, op)
  BY <1>2 DEF Underway
<1>5. Types'
  BY <1>1, <1>2 DEF ClusterInv, Types
<1>6. JobInv'
  <2>1. JobInv
    BY DEF ClusterInv
  <2>2. /\ job'.state # "running" => Live' = {}
        /\ job'.state = "none" => job'.rc = 0
        /\ cmd'.name = "none" => cmd' = Idle /\ job' = NoJob
        /\ cmd'.name # "start" => slot' = 0 /\ cmd'.host = 1
        /\ cmd'.name \notin {"none", "start"} => cmd'.step \in 0 .. Len(Jobs(cmd.name)')
    BY <1>1, <1>2, <1>3, <2>1 DEF JobInv, NoJob
  <2>3. \A r \in Live' :
         /\ cmd.name # "start" => cmd.step >= 1 /\ r.op = Jobs(cmd.name)[cmd.step]
         /\ cmd.name = "start" => r.op \in {"master", "start"}
         /\ cmd.name = "start" /\ r.op = "start" =>
              r.disks = IF split THEN DisksOf(r.arg) ELSE Disks
    BY <1>2, <2>1 DEF JobInv
  <2> QED
    BY <1>1, <1>3, <2>2, <2>3 DEF JobInv
<1>7. PlanInv'
  BY <1>1 DEF ClusterInv, PlanInv
<1>8. StopInv'
  BY <1>1, <1>2, <1>3, <1>4 DEF ClusterInv, StopInv
<1>9. SeriesInv'
  <2>1. \A s : OnItsDisks(s)' = OnItsDisks(s)
    BY <1>1, <1>3 DEF OnItsDisks, Disks
  <2> QED
    BY <1>1, <1>2, <1>3, <1>4, <2>1 DEF ClusterInv, SeriesInv
<1>10. StartInv'
  BY <1>1, <1>2, <1>3 DEF ClusterInv, StartInv, HasServer, HasSingle
<1> QED
  BY <1>5, <1>6, <1>7, <1>8, <1>9, <1>10 DEF ClusterInv

LEMMA ProcessEndsQuiet == ClusterInv /\ ProcessEnds => Quiet
<1> SUFFICES ASSUME ClusterInv, ProcessEnds PROVE Quiet
  OBVIOUS
<1>1. job \in JobRecords /\ remote \subseteq Requests /\ job.state = "running" /\ Live = {}
  BY DEF ClusterInv, Types, ProcessEnds
<1>2. job' = [job EXCEPT !.state = "ended"] /\ remote' = remote
  BY DEF ProcessEnds
<1>3. Live' = Live
  BY <1>2 DEF Live
<1>4. UNCHANGED <<controlVars, strayed, mounted, wrapper, uploaded, deployed, servers,
                  layoutVars>>
  BY DEF ProcessEnds, hostVars, serverVars
<1>5. job' \in JobRecords /\ job'.state = "ended" /\ job'.rc = job.rc
  BY <1>1, <1>2 DEF JobRecords
<1> QED
  BY <1>1, <1>2, <1>3, <1>4, <1>5 DEF Quiet

LEMMA GiveUpFacts ==
    ASSUME Types, GiveUp
    PROVE  /\ job' \in JobRecords /\ job'.state = "ended" /\ job'.rc = 1
           /\ remote' \subseteq Requests /\ Live' = {}
<1>1. job \in JobRecords /\ remote \subseteq Requests
  BY DEF Types
<1>2. PICK left \in SUBSET Live :
        remote' = (remote \ Live) \cup {[r EXCEPT !.stray = TRUE] : r \in left}
  BY DEF GiveUp
<1>3. \A r \in remote \ Live : r \in Requests /\ r.stray = TRUE
  BY <1>1 DEF Live, Requests
<1>4. \A r \in left : [r EXCEPT !.stray = TRUE] \in Requests
                    /\ [r EXCEPT !.stray = TRUE].stray = TRUE
  BY <1>1 DEF Live, Requests
<1>5. \A r \in remote' : r \in Requests /\ r.stray = TRUE
  BY <1>2, <1>3, <1>4
<1>6. job' = [job EXCEPT !.state = "ended", !.rc = 1]
  BY DEF GiveUp
<1> QED
  BY <1>1, <1>5, <1>6 DEF Live, JobRecords

LEMMA DieOfTerminateQuiet == ClusterInv /\ DieOfTerminate => Quiet
<1> SUFFICES ASSUME ClusterInv, DieOfTerminate PROVE Quiet
  OBVIOUS
<1>1. GiveUp /\ Types /\ job.state = "running"
  BY DEF DieOfTerminate, ClusterInv
<1>2. UNCHANGED <<controlVars, strayed, mounted, wrapper, uploaded, deployed, servers,
                  layoutVars>>
  BY DEF DieOfTerminate, serverVars
<1> QED
  BY <1>1, <1>2, GiveUpFacts DEF Quiet

LEMMA PollQuiet == ClusterInv /\ Poll => Quiet
<1> SUFFICES ASSUME ClusterInv, Poll PROVE Quiet
  OBVIOUS
<1> DEFINE e == job.elapsed + 1
<1>1. /\ Types /\ job.state = "running" /\ job \in JobRecords
      /\ remote \subseteq Requests
  BY DEF Poll, ClusterInv, Types
<1>2. UNCHANGED <<controlVars, strayed, mounted, wrapper, uploaded, deployed, servers,
                  layoutVars>>
  BY DEF Poll, hostVars, serverVars
<1>3. CASE e > Timeout + KillTimeout
  <2>1. GiveUp
    BY <1>3 DEF Poll
  <2> QED
    BY <1>1, <1>2, <2>1, GiveUpFacts DEF Quiet
<1>4. CASE ~(e > Timeout + KillTimeout)
  <2> DEFINE t == job.terminated \/ e > Timeout
  <2>1. job' = [job EXCEPT !.elapsed = e, !.terminated = t] /\ remote' = remote
    BY <1>4 DEF Poll
  <2>2. e \in 0 .. Timeout + KillTimeout
    BY <1>1, <1>4, ClusterAssumption DEF JobRecords
  <2>3. t \in BOOLEAN
    OBVIOUS
  <2> HIDE DEF t, e
  <2>4. job' \in JobRecords /\ job'.state = "running" /\ job'.rc = job.rc
    BY <1>1, <2>1, <2>2, <2>3 DEF JobRecords
  <2>5. Live' = Live
    BY <2>1 DEF Live
  <2> QED
    BY <1>1, <1>2, <2>1, <2>4, <2>5 DEF Quiet
<1> QED
  BY <1>3, <1>4

LEMMA UnreachableQuiet ==
    ASSUME ClusterInv, NEW r \in remote, Unreachable(r)
    PROVE  Quiet
<1>1. /\ job \in JobRecords /\ remote \subseteq Requests
      /\ job.state # "running" => Live = {}
  BY DEF ClusterInv, Types, JobInv
<1>2. ~r.stray /\ remote' = remote \ {r} /\ job' = [job EXCEPT !.rc = 1]
  BY DEF Unreachable
<1>3. Live' \subseteq Live /\ r \in Live
  BY <1>2 DEF Live
<1>4. job.state = "running"
  BY <1>1, <1>3
<1>5. job' \in JobRecords /\ job'.state = "running" /\ job'.rc = 1
  BY <1>1, <1>2, <1>4 DEF JobRecords
<1>6. UNCHANGED <<controlVars, strayed, mounted, wrapper, uploaded, deployed, servers,
                  layoutVars>>
  BY DEF Unreachable, serverVars
<1> QED
  BY <1>1, <1>2, <1>3, <1>4, <1>5, <1>6 DEF Quiet

\* A server that crashes is still one that was started.
LEMMA CrashQuiet ==
    ASSUME ClusterInv, NEW h \in HostSet, Crash(h)
    PROVE  Quiet
<1>1. /\ job' = job /\ remote' = remote /\ Live' = Live
      /\ UNCHANGED <<controlVars, strayed, mounted, wrapper, uploaded, deployed, servers,
                    layoutVars>>
  BY DEF Crash, jobVars, Live
<1>2. /\ job \in JobRecords /\ remote \subseteq Requests
      /\ job.state # "running" => Live = {}
  BY DEF ClusterInv, Types, JobInv
<1> QED
  BY <1>1, <1>2 DEF Quiet

-----------------------------------------------------------------------------
(* A request takes effect on its host.                                         *)

\* The outcome o of the request r, of which the process of a job may learn.
Takes(r, o) ==
    /\ OutcomeOf(r, o)
    /\ UNCHANGED <<controlVars, wrapper, layoutVars>>
    /\ mounted' = [mounted EXCEPT ![r.host] = o.mounted]
    /\ uploaded' = [uploaded EXCEPT ![r.host] = o.uploaded]
    /\ deployed' = [deployed EXCEPT ![r.host] = o.deployed]
    /\ servers' = [servers EXCEPT ![r.host] = o.servers]
    /\ remote' = remote \ {r}
    /\ job' \in JobRecords /\ job'.state = job.state
    /\ job'.rc = 0 => job.rc = 0 /\ (r.stray \/ o.status = 0)
    /\ r.stray => job' = job
    /\ strayed' = (strayed \/ r.stray)

LEMMA ExecuteTakes ==
    ASSUME ClusterInv, NEW r \in remote, Execute(r)
    PROVE  \E o : Takes(r, o)
<1>1. Types /\ job \in JobRecords
  BY DEF ClusterInv, Types
<1>2. PICK o \in Outcomes(r) :
         /\ mounted' = [mounted EXCEPT ![r.host] = o.mounted]
         /\ uploaded' = [uploaded EXCEPT ![r.host] = o.uploaded]
         /\ deployed' = [deployed EXCEPT ![r.host] = o.deployed]
         /\ servers' = [servers EXCEPT ![r.host] = o.servers]
         /\ job' = IF r.stray \/ o.status = 0 THEN job ELSE [job EXCEPT !.rc = 1]
  BY DEF Execute
<1>3. OutcomeOf(r, o)
  BY <1>1, OutcomeFacts
<1>4. /\ remote' = remote \ {r} /\ UNCHANGED <<controlVars, wrapper, layoutVars>>
      /\ strayed' = (strayed \/ r.stray)
  BY DEF Execute
<1>5. /\ job' \in JobRecords /\ job'.state = job.state
      /\ job'.rc = 0 => job.rc = 0 /\ (r.stray \/ o.status = 0)
      /\ r.stray => job' = job
  BY <1>1, <1>2 DEF JobRecords
<1> QED
  BY <1>2, <1>3, <1>4, <1>5 DEF Takes

LEMMA TakesInv ==
    ASSUME ClusterInv, NEW r \in remote, NEW o, Takes(r, o)
    PROVE  ClusterInv'
<1> DEFINE h == r.host
<1>1. /\ product' = product /\ failOnError' = failOnError /\ plan' = plan
      /\ setups' = setups /\ cmd' = cmd /\ last' = last /\ split' = split
      /\ slot' = slot /\ wrapper' = wrapper
  BY DEF Takes, controlVars, layoutVars
<1>2. /\ r \in Requests /\ h \in HostSet /\ r.op \in Ops /\ r.stray \in BOOLEAN
      /\ r.arg \in Nat /\ product \in Products
      /\ mounted \in [HostSet -> SUBSET Disks]
      /\ deployed \in [HostSet -> BOOLEAN]
      /\ servers \in [HostSet -> SUBSET Servers]
      /\ servers[h] \in SUBSET Servers
  BY DEF ClusterInv, Types, Requests
<1>3. /\ OutcomeOf(r, o)
      /\ o.mounted \in SUBSET Disks /\ o.uploaded \in BOOLEAN /\ o.deployed \in BOOLEAN
      /\ o.servers \in SUBSET Servers
  BY DEF Takes, OutcomeOf
<1>4. /\ mounted' = [mounted EXCEPT ![h] = o.mounted]
      /\ uploaded' = [uploaded EXCEPT ![h] = o.uploaded]
      /\ deployed' = [deployed EXCEPT ![h] = o.deployed]
      /\ servers' = [servers EXCEPT ![h] = o.servers]
      /\ remote' = remote \ {r}
      /\ job' \in JobRecords /\ job'.state = job.state
      /\ job'.rc = 0 => job.rc = 0 /\ (r.stray \/ o.status = 0)
      /\ r.stray => job' = job
  BY DEF Takes
<1>5. /\ \A g \in HostSet : g # h => /\ mounted'[g] = mounted[g]
                                    /\ deployed'[g] = deployed[g]
                                    /\ servers'[g] = servers[g]
      /\ mounted'[h] = o.mounted /\ deployed'[h] = o.deployed
      /\ servers'[h] = o.servers
  BY <1>2, <1>4
<1>6. /\ \A name : Jobs(name)' = Jobs(name)
      /\ \A k : DisksOf(k)' = DisksOf(k)
      /\ Stopped' = Stopped /\ Formatted' = Formatted /\ Deployed' = Deployed
  BY <1>1, JobsStay DEF DisksOf, Stopped, Formatted, Deployed
<1>7. /\ Live' = Live \ {r}
      /\ r.stray <=> r \notin Live
  BY <1>2, <1>4 DEF Live
<1>8. strayed' = TRUE \/ (strayed' = strayed /\ ~r.stray)
  BY <1>2 DEF Takes, ClusterInv, Types
<1>9. Types'
  <2>1. /\ mounted' \in [HostSet -> SUBSET Disks] /\ deployed' \in [HostSet -> BOOLEAN]
        /\ uploaded' \in [HostSet -> BOOLEAN]
        /\ servers' \in [HostSet -> SUBSET Servers]
    BY <1>2, <1>3, <1>4 DEF ClusterInv, Types
  <2>2. strayed' \in BOOLEAN /\ remote' \subseteq Requests
    BY <1>4, <1>8 DEF ClusterInv, Types
  <2> QED
    BY <1>1, <1>4, <2>1, <2>2 DEF ClusterInv, Types
<1>10. JobInv'
  <2>1. JobInv /\ (job.state # "running" => Live = {})
    BY DEF ClusterInv, JobInv
  <2>2. job' = job \/ job.state = "running"
    BY <1>4, <1>7, <2>1
  <2>3. /\ job'.state # "running" => Live' = {}
        /\ job'.state = "none" => job'.rc = 0
        /\ cmd'.name = "none" => cmd' = Idle /\ job' = NoJob
        /\ cmd'.name # "start" => slot' = 0 /\ cmd'.host = 1
        /\ cmd'.name \notin {"none", "start"} => cmd'.step \in 0 .. Len(Jobs(cmd.name)')
    BY <1>1, <1>4, <1>6, <1>7, <2>1, <2>2 DEF JobInv, NoJob
  <2>4. \A q \in Live' :
         /\ cmd.name # "start" => cmd.step >= 1 /\ q.op = Jobs(cmd.name)[cmd.step]
         /\ cmd.name = "start" => q.op \in {"master", "start"}
         /\ cmd.name = "start" /\ q.op = "start" =>
              q.disks = IF split THEN DisksOf(q.arg) ELSE Disks
    BY <1>7, <2>1 DEF JobInv
  <2> QED
    BY <1>1, <1>6, <2>3, <2>4 DEF JobInv
<1>11. PlanInv'
  BY <1>1 DEF ClusterInv, PlanInv
<1>12. CASE strayed' = TRUE
  <2>1. ~Sure'
    BY <1>12 DEF Sure
  <2> QED
    BY <1>9, <1>10, <1>11, <2>1 DEF ClusterInv, StopInv, SeriesInv, StartInv
<1>13. CASE strayed' = strayed /\ ~r.stray
  <2>1. Sure' = Sure /\ r \in Live /\ (job'.rc = 0 => job.rc = 0 /\ o.status = 0)
    BY <1>1, <1>4, <1>7, <1>13 DEF Sure
  <2>2. /\ cmd.name # "none"
        /\ cmd.name # "start" => cmd.step >= 1 /\ r.op = Jobs(cmd.name)[cmd.step]
        /\ cmd.name = "start" => r.op \in {"master", "start"}
        /\ cmd.name = "start" /\ r.op = "start" =>
              r.disks = IF split THEN DisksOf(r.arg) ELSE Disks
        /\ cmd.name \notin {"none", "start"} => cmd.step \in 0 .. Len(Jobs(cmd.name))
    BY <2>1 DEF ClusterInv, JobInv, NoJob
  <2>3. /\ \A g, op : Underway(g, op) /\ (g # h \/ op # r.op) => Underway(g, op)'
    BY <1>7 DEF Underway
  <2>4. StopInv'
    <3>1. SUFFICES ASSUME Sure, cmd.name = "stop", cmd.step = Len(Jobs("stop")),
                          job'.rc = 0, NEW g \in HostSet
                   PROVE  servers'[g] = {} \/ Underway(g, "kill")'
      BY <1>1, <1>6, <2>1, <2>2 DEF StopInv
    <3>2. servers[g] = {} \/ Underway(g, "kill")
      BY <2>1, <3>1 DEF ClusterInv, StopInv
    <3>3. CASE g = h
      BY <1>2, <1>3, <1>5, <2>2, <3>1, <3>3, JobsOf DEF OutcomeOf
    <3>4. CASE g # h
      BY <1>5, <2>3, <3>2, <3>4
    <3> QED
      BY <3>3, <3>4
  <2>5. SeriesInv'
    <3> SUFFICES ASSUME Sure, product = "yugabyte" PROVE SeriesInv'
      BY <1>1, <2>1 DEF SeriesInv
    <3>1. /\ Stopped => \A g \in HostSet : servers[g] = {}
          /\ cmd.name = "format" /\ cmd.step = 1 /\ job.rc = 0 =>
               \A g \in HostSet : LastDisk \in mounted[g] \/ Underway(g, "format")
          /\ Formatted => \A g \in HostSet : LastDisk \in mounted[g]
          /\ cmd.name = "deploy" /\ cmd.step = 2 /\ job.rc = 0 =>
               \A g \in HostSet : deployed[g] \/ Underway(g, "extract")
          /\ Deployed => \A g \in HostSet : deployed[g]
          /\ cmd.name = "start" => \A g \in HostSet : \A s \in servers[g] : OnItsDisks(s)
      BY DEF ClusterInv, SeriesInv
    <3>2. /\ cmd.name = "format" => cmd.step = 1 /\ r.op = "format"
          /\ cmd.name = "deploy" => (\/ cmd.step = 1 /\ r.op = "upload"
                                     \/ cmd.step = 2 /\ r.op = "extract")
      <4>1. CASE cmd.name = "format"
        <5>1. cmd.step = 1
          BY <1>2, <2>2, <4>1, JobsOf
        <5> QED
          BY <1>2, <2>2, <4>1, <5>1, JobsOf
      <4>2. CASE cmd.name = "deploy"
        <5>1. cmd.step \in {1, 2}
          BY <1>2, <2>2, <4>2, JobsOf
        <5> QED
          BY <1>2, <2>2, <4>2, <5>1, JobsOf
      <4> QED
        BY <4>1, <4>2
    <3>3. Stopped => \A g \in HostSet : servers'[g] = {}
      <4>1. Stopped => r.op \in {"format", "upload", "extract"}
        BY <2>2, <3>2 DEF Stopped
      <4> QED
        BY <1>3, <1>5, <3>1, <4>1 DEF OutcomeOf
    <3>4. cmd.name = "format" /\ cmd.step = 1 /\ job'.rc = 0 =>
            \A g \in HostSet : LastDisk \in mounted'[g] \/ Underway(g, "format")'
      BY <1>3, <1>5, <2>1, <2>3, <3>1, <3>2 DEF OutcomeOf
    <3>5. Formatted => \A g \in HostSet : LastDisk \in mounted'[g]
      <4>1. Formatted => r.op \in {"upload", "extract", "master", "start"}
        BY <2>2, <3>2 DEF Formatted
      <4> QED
        BY <1>3, <1>5, <3>1, <4>1 DEF OutcomeOf
    <3>6. cmd.name = "deploy" /\ cmd.step = 2 /\ job'.rc = 0 =>
            \A g \in HostSet : deployed'[g] \/ Underway(g, "extract")'
      <4>1. SUFFICES ASSUME cmd.name = "deploy", cmd.step = 2, job'.rc = 0,
                            NEW g \in HostSet
                     PROVE  deployed'[g] \/ Underway(g, "extract")'
        OBVIOUS
      <4>2. r.op = "extract" /\ o.status = 0
        BY <2>1, <3>2, <4>1
      <4>3. o.deployed
        BY <1>3, <4>2 DEF OutcomeOf
      <4>4. CASE g = h
        BY <1>5, <4>3, <4>4
      <4>5. CASE g # h
        <5>1. deployed[g] \/ Underway(g, "extract")
          BY <2>1, <3>1, <4>1
        <5>2. deployed[g] => deployed'[g]
          BY <1>5, <4>5
        <5> QED
          BY <2>3, <4>5, <5>1, <5>2
      <4> QED
        BY <4>4, <4>5
    <3>7. Deployed => \A g \in HostSet : deployed'[g]
      <4>1. SUFFICES ASSUME Deployed, NEW g \in HostSet PROVE deployed'[g]
        OBVIOUS
      <4>2. deployed[g]
        BY <3>1, <4>1
      <4>3. CASE g = h
        <5>1. o.deployed
          BY <1>3, <4>2, <4>3 DEF OutcomeOf
        <5> QED
          BY <1>5, <4>3, <5>1
      <4>4. CASE g # h
        BY <1>5, <4>2, <4>4
      <4> QED
        BY <4>3, <4>4
    <3>8. cmd.name = "start" =>
            \A g \in HostSet : \A s \in servers'[g] : OnItsDisks(s)
      <4>1. SUFFICES ASSUME cmd.name = "start", NEW g \in HostSet, NEW s \in servers'[g]
                     PROVE  OnItsDisks(s)
        OBVIOUS
      <4>2. CASE s \in servers[g]
        BY <3>1, <4>1, <4>2
      <4>3. CASE s \notin servers[g]
        <5>1. g = h /\ s \in o.servers
          BY <1>5, <4>3
        <5>2. r.op = "start"
          BY <1>3, <2>2, <4>1, <4>3, <5>1 DEF OutcomeOf
        <5>3. s = Asked(r)
          BY <1>3, <4>3, <5>1, <5>2 DEF OutcomeOf
        <5>4. r.disks = IF split THEN DisksOf(r.arg) ELSE Disks
          BY <2>2, <4>1, <5>2
        <5> QED
          BY <5>3, <5>4 DEF Asked, OnItsDisks
      <4> QED
        BY <4>2, <4>3
    <3>9. \A s : OnItsDisks(s)' = OnItsDisks(s)
      BY <1>1, <1>6 DEF OnItsDisks, Disks
    <3> QED
      BY <1>1, <1>6, <3>1, <3>3, <3>4, <3>5, <3>6, <3>7, <3>8, <3>9 DEF SeriesInv
  <2>6. StartInv'
    <3>1. SUFFICES ASSUME Sure, cmd.name = "start", job'.rc = 0 PROVE StartInv'
      BY <1>1, <2>1, <2>2 DEF StartInv
    <3>2. /\ job.rc = 0 /\ o.status = 0 /\ r.op \in {"master", "start"}
      BY <2>1, <2>2, <3>1
    <3>3. \A g \in HostSet : servers[g] \subseteq servers'[g]
      BY <1>3, <1>5, <3>2 DEF OutcomeOf
    <3>4. ASSUME r.op = "start"
          PROVE  Asked(r) \in servers'[h]
      <4>1. CASE product = "cockroach"
        BY <1>3, <1>5, <3>2, <3>4, <4>1 DEF OutcomeOf
      <4>2. CASE product = "yugabyte"
        <5>1. deployed[h] /\ \A s \in servers[h] : OnItsDisks(s)
          BY <1>2, <3>1, <4>2 DEF ClusterInv, SeriesInv, Deployed
        <5>2. Asked(r) \in o.servers \/ \E s \in servers[h] : s.slot = r.arg
          BY <1>3, <3>2, <3>4, <4>2, <5>1 DEF OutcomeOf
        <5>3. ASSUME NEW s \in servers[h], s.slot = r.arg
              PROVE  s = Asked(r)
          <6>1. s.disks = r.disks
            BY <2>2, <3>1, <3>4, <5>1, <5>3 DEF OnItsDisks
          <6> QED
            BY <1>2, <5>3, <6>1 DEF Asked, Servers
        <5> QED
          BY <1>2, <1>5, <3>3, <5>2, <5>3
      <4> QED
        BY <1>2, <4>1, <4>2 DEF Products
    <3>5. CASE split
      <4>1. /\ \A i \in 1 .. cmd.host - 1, k \in 0 .. Instances - 1 : HasServer(Hosts[i], k)
            /\ cmd.host <= Len(Hosts) => \A k \in 0 .. slot - 1 :
                 \/ HasServer(Hosts[cmd.host], k)
                 \/ \E q \in Live : q.host = Hosts[cmd.host] /\ q.op = "start" /\ q.arg = k
            /\ cmd.host > Len(Hosts) => slot = 0
        BY <3>1, <3>2, <3>5 DEF ClusterInv, StartInv
      <4>2. \A g \in HostSet : \A k : HasServer(g, k) => HasServer(g, k)'
        BY <1>6, <3>3 DEF HasServer
      <4>3. r.op = "start" => HasServer(h, r.arg)'
        <5>1. SUFFICES ASSUME r.op = "start" PROVE HasServer(h, r.arg)'
          OBVIOUS
        <5>2. Asked(r) = [slot |-> r.arg, disks |-> DisksOf(r.arg)]
          BY <2>2, <3>1, <3>5, <5>1 DEF Asked
        <5>3. [slot |-> r.arg, disks |-> DisksOf(r.arg)] \in servers'[h]
          BY <3>4, <5>1, <5>2
        <5> QED
          BY <1>6, <5>3 DEF HasServer
      <4>4. \A i \in 1 .. Len(Hosts) : Hosts[i] \in HostSet
        BY ClusterAssumption DEF HostSet, Range
      <4>5. cmd.host \in 1 .. Len(Hosts) + 1 /\ Len(Hosts) \in Nat
        BY ClusterAssumption DEF ClusterInv, Types
      <4>6. \A i \in 1 .. cmd.host - 1, k \in 0 .. Instances - 1 : HasServer(Hosts[i], k)'
        BY <4>1, <4>2, <4>4, <4>5
      <4>7. ASSUME cmd.host <= Len(Hosts), NEW k \in 0 .. slot - 1
            PROVE  \/ HasServer(Hosts[cmd.host], k)'
                   \/ \E q \in Live' : q.host = Hosts[cmd.host] /\ q.op = "start" /\ q.arg = k
        <5> DEFINE g == Hosts[cmd.host]
        <5>1. g \in HostSet /\ g' = g
          BY <1>1, <4>4, <4>5, <4>7
        <5>2. HasServer(g, k) => HasServer(g, k)'
          BY <1>6, <3>3, <5>1 DEF HasServer
        <5>3. CASE \E q \in Live : q.host = g /\ q.op = "start" /\ q.arg = k
          <6>1. PICK q \in Live : q.host = g /\ q.op = "start" /\ q.arg = k
            BY <5>3
          <6>2. CASE q = r
            <7>1. HasServer(h, r.arg)' /\ h = g /\ r.arg = k
              BY <4>3, <6>1, <6>2
            <7>2. HasServer(g, k)'
              BY <5>1, <7>1 DEF HasServer
            <7> QED
              BY <5>1, <7>2
          <6>3. CASE q # r
            BY <1>7, <5>1, <6>1, <6>3
          <6> QED
            BY <6>2, <6>3
        <5> QED
          BY <1>1, <4>1, <4>7, <5>1, <5>2, <5>3
      <4> QED
        BY <1>1, <2>2, <3>1, <3>5, <4>1, <4>6, <4>7 DEF StartInv
    <3>6. CASE ~split
      <4>1. /\ slot = 0
            /\ \A i \in 1 .. cmd.host - 1 :
                 \/ HasSingle(Hosts[i])
                 \/ \E q \in Live : q.host = Hosts[i] /\ q.op = "start" /\ q.arg = 0
        BY <3>1, <3>2, <3>6 DEF ClusterInv, StartInv
      <4>2. \A g \in HostSet : HasSingle(g) => HasSingle(g)'
        BY <3>3 DEF HasSingle
      <4>4. \A i \in 1 .. Len(Hosts) : Hosts[i] \in HostSet
        BY ClusterAssumption DEF HostSet, Range
      <4>5. cmd.host \in 1 .. Len(Hosts) + 1 /\ Len(Hosts) \in Nat
        BY ClusterAssumption DEF ClusterInv, Types
      <4>6. ASSUME NEW i \in 1 .. cmd.host - 1
            PROVE  \/ HasSingle(Hosts[i])'
                   \/ \E q \in Live' : q.host = Hosts[i] /\ q.op = "start" /\ q.arg = 0
        <5>1. Hosts[i] \in HostSet
          BY <4>4, <4>5
        <5>2. CASE HasSingle(Hosts[i])
          BY <4>2, <5>1, <5>2
        <5>3. CASE \E q \in Live : q.host = Hosts[i] /\ q.op = "start" /\ q.arg = 0
          <6>1. PICK q \in Live : q.host = Hosts[i] /\ q.op = "start" /\ q.arg = 0
            BY <5>3
          <6>2. CASE q = r
            <7>1. Asked(r) = [slot |-> 0, disks |-> Disks]
              BY <2>2, <3>1, <3>6, <6>1, <6>2 DEF Asked
            <7>2. Asked(r) \in servers'[h]
              BY <3>4, <3>6, <5>1, <6>1, <6>2
            <7> QED
              BY <6>1, <6>2, <7>1, <7>2 DEF HasSingle
          <6>3. CASE q # r
            BY <1>7, <6>1, <6>3
          <6> QED
            BY <6>2, <6>3
        <5> QED
          BY <4>1, <5>2, <5>3
      <4> QED
        BY <1>1, <2>2, <3>1, <3>6, <4>1, <4>6 DEF StartInv
    <3> QED
      BY <3>5, <3>6
  <2> QED
    BY <1>9, <1>10, <1>11, <2>4, <2>5, <2>6 DEF ClusterInv
<1> QED
  BY <1>8, <1>12, <1>13

-----------------------------------------------------------------------------
(* Jobs are started.                                                           *)

\* A command goes on once its job has ended, and with --fail-on-error only if it ended
\* with 0.
LEMMA ReadyFacts ==
    ASSUME ClusterInv, Ready
    PROVE  Live = {} /\ (failOnError => job.rc = 0)
  BY DEF ClusterInv, JobInv, Ready, JobFailed

LEMMA LaunchFacts ==
    ASSUME Types, Live = {}, NEW hs \in SUBSET HostSet, NEW op \in Ops, NEW k \in Nat,
           NEW disks \in SUBSET Disks, Launch(hs, op, k, disks)
    PROVE  /\ job' \in JobRecords /\ job'.state = "running" /\ job'.rc = 0
           /\ remote' \subseteq Requests
           /\ \A r : r \in Live' <=>
                \E h \in hs : r = [host |-> h, op |-> op, arg |-> k, disks |-> disks,
                                   stray |-> FALSE]
<1> DEFINE R(h) == [host |-> h, op |-> op, arg |-> k, disks |-> disks, stray |-> FALSE]
<1>1. remote' = remote \cup {R(h) : h \in hs} /\ remote \subseteq Requests
  BY DEF Launch, Types
<1>2. \A h \in hs : R(h) \in Requests /\ ~R(h).stray
  BY DEF Requests
<1>3. job' = [NoJob EXCEPT !.state = "running"]
  BY DEF Launch
<1>4. job' \in JobRecords /\ job'.state = "running" /\ job'.rc = 0
  <2>1. job' = [state |-> "running", rc |-> 0, elapsed |-> 0, terminated |-> FALSE]
    BY <1>3 DEF NoJob
  <2>2. 0 \in 0 .. Timeout + KillTimeout
    BY ClusterAssumption
  <2> QED
    BY <2>1, <2>2 DEF JobRecords
<1>5. \A r \in remote : r.stray
  BY DEF Live
<1> HIDE DEF R
<1>6. remote' \subseteq Requests
  BY <1>1, <1>2
<1>7. \A r : r \in Live' <=> \E h \in hs : r = R(h)
  BY <1>1, <1>2, <1>5 DEF Live
<1> QED
  BY <1>4, <1>6, <1>7 DEF R

\* Types after a job was started, or one has been given up.
LEMMA CommandTypes ==
    ASSUME Types,
           UNCHANGED <<product, failOnError, plan, setups, last, split, strayed, hostVars>>,
           cmd' \in [name: Commands \cup {"none"}, step: Nat, host: 1 .. Len(Hosts) + 1],
           job' \in JobRecords, remote' \subseteq Requests, slot' \in 0 .. Instances
    PROVE  Types'
  BY DEF Types, hostVars, serverVars

\* The next job of a command with a fixed list of them.
LEMMA NextJobInv == ClusterInv /\ NextJob => ClusterInv'
<1> SUFFICES ASSUME ClusterInv, NextJob PROVE ClusterInv'
  OBVIOUS
<1>0. PICK op : op = Jobs(cmd.name)[cmd.step + 1]
  OBVIOUS
<1>1. /\ product' = product /\ failOnError' = failOnError /\ plan' = plan
      /\ last' = last /\ split' = split /\ strayed' = strayed /\ slot' = slot
      /\ mounted' = mounted /\ deployed' = deployed /\ servers' = servers
  BY DEF NextJob, hostVars, serverVars, layoutVars
<1>2. /\ Types /\ product \in Products
      /\ cmd \in [name: Commands \cup {"none"}, step: Nat, host: 1 .. Len(Hosts) + 1]
      /\ slot \in 0 .. Instances
  BY DEF ClusterInv, Types
<1>3. /\ cmd.name \in Commands \ {"start"} /\ cmd.name \notin {"none", "start"} /\ Ready
      /\ cmd.step \in 0 .. Len(Jobs(cmd.name)) - 1 /\ Len(Jobs(cmd.name)) \in Nat
  <2>1. /\ cmd.name \notin {"none", "start"} /\ Ready /\ cmd.step < Len(Jobs(cmd.name))
    BY DEF NextJob
  <2>2. cmd.name \in Commands \ {"start"} /\ cmd.step \in Nat
    BY <1>2, <2>1
  <2>3. Len(Jobs(cmd.name)) \in Nat
    BY <1>2, <2>2, JobsOf
  <2> QED
    BY <2>1, <2>2, <2>3
<1>4. op \in Ops \ {"master", "start"}
  BY <1>0, <1>2, <1>3, JobsOf
<1>5. cmd' = [cmd EXCEPT !.step = cmd.step + 1] /\ Launch(JobTargets(op), op, 0, {})
  BY <1>0 DEF NextJob
<1>6. /\ cmd'.name = cmd.name /\ cmd'.step = cmd.step + 1 /\ cmd'.host = cmd.host
      /\ cmd' \in [name: Commands \cup {"none"}, step: Nat, host: 1 .. Len(Hosts) + 1]
  BY <1>2, <1>5
<1>7. /\ JobTargets(op) \in SUBSET HostSet
      /\ op \notin {"init", "proxies"} => JobTargets(op) = HostSet
  <2>1. Hosts[1] \in HostSet /\ ProxyHosts \subseteq HostSet
    BY ClusterAssumption DEF HostSet, Range
  <2> QED
    BY <2>1 DEF JobTargets
<1>8. Live = {} /\ (failOnError => job.rc = 0)
  BY <1>3, ReadyFacts
<1>9. /\ job' \in JobRecords /\ job'.state = "running" /\ job'.rc = 0
      /\ remote' \subseteq Requests
      /\ \A r : r \in Live' <=>
           \E h \in JobTargets(op) : r = [host |-> h, op |-> op, arg |-> 0, disks |-> {},
                                          stray |-> FALSE]
  <2>1. Types /\ Live = {} /\ op \in Ops /\ Launch(JobTargets(op), op, 0, {})
    BY <1>2, <1>4, <1>5, <1>8
  <2>2. JobTargets(op) \in SUBSET HostSet /\ 0 \in Nat /\ {} \in SUBSET Disks
    BY <1>7
  <2> QED
    BY <2>1, <2>2, LaunchFacts
<1>10. op \notin {"init", "proxies"} => \A h \in HostSet : Underway(h, op)'
  <2>1. SUFFICES ASSUME op \notin {"init", "proxies"}, NEW h \in HostSet PROVE Underway(h, op)'
    OBVIOUS
  <2>2. PICK r : r = [host |-> h, op |-> op, arg |-> 0, disks |-> {}, stray |-> FALSE]
    OBVIOUS
  <2>3. r \in Live' /\ r.host = h /\ r.op = op
    BY <1>7, <1>9, <2>1, <2>2
  <2> QED
    BY <2>3 DEF Underway
<1>11. \A name : Jobs(name)' = Jobs(name)
  BY <1>1, JobsStay
<1>12. Types'
  BY <1>1, <1>2, <1>6, <1>9, CommandTypes DEF NextJob
<1>13. JobInv'
  <2>1. slot = 0 /\ cmd.host = 1
    BY <1>3 DEF ClusterInv, JobInv
  <2>2. \A r \in Live' : r.op = op
    BY <1>9
  <2>3. cmd'.step \in 0 .. Len(Jobs(cmd.name)) /\ cmd'.step >= 1
    BY <1>3, <1>6
  <2>4. op = Jobs(cmd.name)[cmd'.step]
    BY <1>0, <1>6
  <2> QED
    BY <1>1, <1>3, <1>6, <1>9, <1>11, <2>1, <2>2, <2>3, <2>4 DEF JobInv
<1>14. PlanInv'
  BY <1>1, <1>6 DEF ClusterInv, PlanInv
<1>15. StopInv'
  <2>1. CASE cmd.name = "stop" /\ cmd'.step = Len(Jobs("stop"))
    <3>1. op = "kill"
      BY <1>0, <1>2, <1>6, <2>1, JobsOf
    <3> QED
      BY <1>3, <1>6, <1>10, <1>11, <3>1 DEF StopInv
  <2>2. CASE ~(cmd.name = "stop" /\ cmd'.step = Len(Jobs("stop")))
    BY <1>3, <1>6, <1>11, <2>2 DEF StopInv
  <2> QED
    BY <2>1, <2>2
<1>16. SeriesInv'
  <2>1. /\ cmd.name = "format" => op = "format"
        /\ cmd.name = "deploy" /\ cmd'.step = 2 => op = "extract"
    <3>1. CASE cmd.name = "format"
      <4>1. cmd.step = 0
        BY <1>2, <1>3, <3>1, JobsOf
      <4> QED
        BY <1>0, <1>2, <3>1, <4>1, JobsOf
    <3>2. CASE cmd.name = "deploy" /\ cmd'.step = 2
      <4>1. cmd.step = 1
        BY <1>3, <1>6, <3>2
      <4> QED
        BY <1>0, <1>2, <3>2, <4>1, JobsOf
    <3> QED
      BY <3>1, <3>2
  <2>2. Stopped' => Stopped
    BY <1>3, <1>6 DEF Stopped
  <2>3. Formatted' => Formatted
    BY <1>3, <1>6 DEF Formatted
  <2>4. ~Deployed'
    BY <1>3, <1>6 DEF Deployed
  <2>5. Sure' = Sure
    BY <1>1 DEF Sure
  <2> QED
    BY <1>1, <1>3, <1>6, <1>10, <2>1, <2>2, <2>3, <2>4, <2>5 DEF ClusterInv, SeriesInv
<1>17. StartInv'
  BY <1>3, <1>6 DEF StartInv
<1> QED
  BY <1>12, <1>13, <1>14, <1>15, <1>16, <1>17 DEF ClusterInv

\* A step of start that starts a job: the servers are those of before, and the progress
\* of start is what StartInv says of the new state.
LEMMA StartJobInv ==
    ASSUME ClusterInv, Ready, cmd.name = "start",
           UNCHANGED <<product, failOnError, plan, setups, last, split, strayed, hostVars>>,
           cmd'.name = "start",
           cmd' \in [name: Commands \cup {"none"}, step: Nat, host: 1 .. Len(Hosts) + 1],
           job' \in JobRecords, job'.state = "none" => job'.rc = 0,
           remote' \subseteq Requests, slot' \in 0 .. Instances,
           job'.state # "running" => Live' = {},
           \A r \in Live' : /\ r.op \in {"master", "start"}
                            /\ r.op = "start" =>
                                 r.disks = IF split THEN DisksOf(r.arg) ELSE Disks,
           StartInv'
    PROVE  ClusterInv'
<1>1. /\ product' = product /\ failOnError' = failOnError /\ plan' = plan
      /\ last' = last /\ split' = split /\ strayed' = strayed
      /\ mounted' = mounted /\ deployed' = deployed /\ servers' = servers
  BY DEF hostVars, serverVars
<1>2. Types'
  BY CommandTypes DEF ClusterInv
<1>3. JobInv'
  <2>1. \A k : DisksOf(k)' = DisksOf(k)
    BY DEF DisksOf
  <2> QED
    BY <1>1, <2>1 DEF JobInv
<1>4. PlanInv'
  BY <1>1 DEF ClusterInv, PlanInv
<1>5. StopInv'
  BY DEF StopInv
<1>6. SeriesInv'
  <2>1. /\ Sure' = Sure /\ ~Stopped' /\ Formatted /\ Deployed
        /\ \A k : DisksOf(k)' = DisksOf(k)
    BY <1>1 DEF Sure, Stopped, Formatted, Deployed, DisksOf
  <2>2. \A s : OnItsDisks(s)' = OnItsDisks(s)
    BY <1>1, <2>1 DEF OnItsDisks, Disks
  <2>3. Sure /\ product = "yugabyte" =>
          /\ \A h \in HostSet : LastDisk \in mounted[h]
          /\ \A h \in HostSet : deployed[h]
          /\ \A h \in HostSet : \A s \in servers[h] : OnItsDisks(s)
    BY <2>1 DEF ClusterInv, SeriesInv
  <2> QED
    BY <1>1, <2>1, <2>2, <2>3 DEF SeriesInv
<1> QED
  BY <1>2, <1>3, <1>4, <1>5, <1>6 DEF ClusterInv

\* What StartInv says when no request of start is under way.
LEMMA StartProgress ==
    ASSUME ClusterInv, Ready, cmd.name = "start", Sure
    PROVE  /\ split =>
                /\ \A i \in 1 .. cmd.host - 1, k \in 0 .. Instances - 1 : HasServer(Hosts[i], k)
                /\ cmd.host <= Len(Hosts) => \A k \in 0 .. slot - 1 : HasServer(Hosts[cmd.host], k)
                /\ cmd.host > Len(Hosts) => slot = 0
           /\ ~split => slot = 0 /\ \A i \in 1 .. cmd.host - 1 : HasSingle(Hosts[i])
<1>1. Live = {} /\ job.rc = 0
  BY ReadyFacts DEF Sure
<1> QED
  BY <1>1 DEF ClusterInv, StartInv

\* The hosts of the configuration.
LEMMA HostFacts ==
    /\ Len(Hosts) \in Nat /\ Len(Hosts) >= 1
    /\ \A i \in 1 .. Len(Hosts) : Hosts[i] \in HostSet
    /\ \A h \in HostSet : \E i \in 1 .. Len(Hosts) : h = Hosts[i]
  BY ClusterAssumption DEF HostSet, Range

LEMMA StartMasterInv == ClusterInv /\ StartMaster => ClusterInv'
<1> SUFFICES ASSUME ClusterInv, StartMaster PROVE ClusterInv'
  OBVIOUS
<1>1. /\ cmd.name = "start" /\ Ready /\ cmd.step + 1 \in Masters
      /\ Launch({Hosts[cmd.step + 1]}, "master", 0, {})
      /\ cmd' = [cmd EXCEPT !.step = cmd.step + 1]
      /\ UNCHANGED <<product, failOnError, plan, setups, last, split, strayed, hostVars,
                     layoutVars>>
  BY DEF StartMaster
<1>2. /\ cmd \in [name: Commands \cup {"none"}, step: Nat, host: 1 .. Len(Hosts) + 1]
      /\ Types /\ slot \in 0 .. Instances
  BY DEF ClusterInv, Types
<1>3. /\ cmd' \in [name: Commands \cup {"none"}, step: Nat, host: 1 .. Len(Hosts) + 1]
      /\ cmd'.name = "start" /\ cmd'.host = cmd.host
  BY <1>1, <1>2
<1>4. {Hosts[cmd.step + 1]} \in SUBSET HostSet
  BY <1>1, <1>2, HostFacts DEF Masters
<1>5. "master" \in Ops /\ {} \in SUBSET Disks /\ Live = {}
  BY <1>1, ReadyFacts DEF Ops
<1>6. /\ job' \in JobRecords /\ job'.state = "running" /\ job'.rc = 0
      /\ remote' \subseteq Requests
      /\ \A r \in Live' : r.op = "master"
  <2>1. PICK hs \in SUBSET HostSet : hs = {Hosts[cmd.step + 1]}
    BY <1>4
  <2>2. Launch(hs, "master", 0, {})
    BY <1>1, <2>1
  <2>3. /\ job' \in JobRecords /\ job'.state = "running" /\ job'.rc = 0
        /\ remote' \subseteq Requests
        /\ \A r : r \in Live' <=>
             \E h \in hs : r = [host |-> h, op |-> "master", arg |-> 0, disks |-> {},
                                stray |-> FALSE]
    BY <1>2, <1>5, <2>2, LaunchFacts
  <2> QED
    BY <2>3
<1>7. /\ slot' = slot /\ split' = split /\ servers' = servers
      /\ failOnError' = failOnError /\ strayed' = strayed
      /\ UNCHANGED <<product, failOnError, plan, setups, last, split, strayed, hostVars>>
  BY <1>1 DEF layoutVars, hostVars, serverVars
<1>8. StartInv'
  <2>1. Sure' = Sure /\ \A k : DisksOf(k)' = DisksOf(k)
    BY <1>7 DEF Sure, DisksOf
  <2>2. /\ \A h, k : HasServer(h, k) => HasServer(h, k)'
        /\ \A h : HasSingle(h) => HasSingle(h)'
        /\ Hosts[cmd.host]' = Hosts[cmd.host]
    BY <1>3, <1>7, <2>1 DEF HasServer, HasSingle
  <2>3. \A k : HasServer(Hosts[cmd.host], k) => HasServer(Hosts[cmd.host], k)'
    BY <1>3, <1>7, <2>1 DEF HasServer
  <2> QED
    BY <1>1, <1>3, <1>7, <2>1, <2>2, <2>3, StartProgress DEF StartInv
<1> QED
  BY <1>1, <1>2, <1>3, <1>6, <1>7, <1>8, StartJobInv

-----------------------------------------------------------------------------
(* The range of cores and the job of an instance.                              *)

\* slot counts the instances of the host that have their range.
LEMMA SlotFacts ==
    /\ AssignCores => slot < Instances /\ slot' = slot + 1
    /\ NextHost => slot' = 0
    /\ Instances \in Nat \ {0}
  BY LayoutAssumption DEF AssignCores, NextHost

LEMMA StartInstanceInv == ClusterInv /\ StartInstance => ClusterInv'
<1> SUFFICES ASSUME ClusterInv, StartInstance PROVE ClusterInv'
  OBVIOUS
<1>1. /\ cmd.name = "start" /\ Ready /\ split /\ cmd.host <= Len(Hosts)
      /\ AssignCores /\ UNCHANGED <<controlVars, strayed, hostVars>>
      /\ Launch({Hosts[cmd.host]}, "start", slot, DisksOf(slot))
  BY DEF StartInstance
<1>2. /\ cmd \in [name: Commands \cup {"none"}, step: Nat, host: 1 .. Len(Hosts) + 1]
      /\ Types /\ slot \in 0 .. Instances
  BY DEF ClusterInv, Types
<1>3. /\ cmd' = cmd /\ split' = split /\ servers' = servers
      /\ failOnError' = failOnError /\ strayed' = strayed /\ last' = last
      /\ UNCHANGED <<product, failOnError, plan, setups, last, split, strayed, hostVars>>
  BY <1>1 DEF controlVars, hostVars, serverVars
<1>4. slot' = slot + 1 /\ slot \in Nat /\ slot' \in 0 .. Instances
  BY <1>1, <1>2, SlotFacts
<1>5. "start" \in Ops /\ Live = {} /\ Hosts[cmd.host] \in HostSet
  BY <1>1, <1>2, ReadyFacts, HostFacts DEF Ops
<1>6. PICK g \in HostSet : g = Hosts[cmd.host]
  BY <1>5
<1>7. PICK k \in Nat : k = slot
  BY <1>4
<1>8. PICK disks \in SUBSET Disks : disks = DisksOf(k)
  BY DEF DisksOf
<1>9. /\ job' \in JobRecords /\ job'.state = "running" /\ job'.rc = 0
      /\ remote' \subseteq Requests
      /\ \A r : r \in Live' <=>
           \E h \in {g} : r = [host |-> h, op |-> "start", arg |-> k, disks |-> disks,
                               stray |-> FALSE]
  <2>1. PICK hs \in SUBSET HostSet : hs = {g}
    OBVIOUS
  <2>2. Launch(hs, "start", k, disks)
    BY <1>1, <1>6, <1>7, <1>8, <2>1
  <2>3. /\ job' \in JobRecords /\ job'.state = "running" /\ job'.rc = 0
        /\ remote' \subseteq Requests
        /\ \A r : r \in Live' <=>
             \E h \in hs : r = [host |-> h, op |-> "start", arg |-> k, disks |-> disks,
                                stray |-> FALSE]
    BY <1>2, <1>5, <2>2, LaunchFacts
  <2> QED
    BY <2>1, <2>3
<1>10. PICK q : q = [host |-> g, op |-> "start", arg |-> k, disks |-> disks,
                     stray |-> FALSE]
  OBVIOUS
<1>11. /\ \A r \in Live' : r = q
       /\ q \in Live' /\ q.host = g /\ q.op = "start" /\ q.arg = k /\ q.disks = DisksOf(k)
  BY <1>8, <1>9, <1>10
<1>12. StartInv'
  <2>1. Sure' = Sure /\ \A i : DisksOf(i)' = DisksOf(i)
    BY <1>3 DEF Sure, DisksOf
  <2>2. /\ \A h, i : HasServer(h, i) => HasServer(h, i)'
        /\ Hosts[cmd.host]' = g
    BY <1>3, <1>6, <2>1 DEF HasServer
  <2>3. ASSUME Sure
        PROVE  /\ \A i \in 1 .. cmd.host - 1, j \in 0 .. Instances - 1 : HasServer(Hosts[i], j)'
               /\ \A j \in 0 .. slot' - 1 :
                    \/ HasServer(g, j)'
                    \/ \E r \in Live' : r.host = g /\ r.op = "start" /\ r.arg = j
    <3>1. /\ \A i \in 1 .. cmd.host - 1, j \in 0 .. Instances - 1 : HasServer(Hosts[i], j)
          /\ \A j \in 0 .. slot - 1 : HasServer(g, j)
      BY <1>1, <1>6, <2>3, StartProgress
    <3>2. \A j \in 0 .. slot' - 1 : j \in 0 .. slot - 1 \/ j = k
      BY <1>4, <1>7
    <3> QED
      BY <1>11, <2>2, <3>1, <3>2
  <2>4. \A j : HasServer(Hosts[cmd.host], j)' <=> HasServer(g, j)'
    BY <2>2 DEF HasServer
  <2>5. cmd'.name = "start" /\ cmd'.host = cmd.host /\ cmd.host <= Len(Hosts) /\ split'
    BY <1>1, <1>3
  <2>6. cmd.host \in Nat /\ Len(Hosts) \in Nat
    BY <1>2, HostFacts
  <2> QED
    BY <1>6, <2>1, <2>2, <2>3, <2>4, <2>5, <2>6 DEF StartInv
<1>13. \A r \in Live' : /\ r.op \in {"master", "start"}
                        /\ r.op = "start" =>
                             r.disks = IF split THEN DisksOf(r.arg) ELSE Disks
  BY <1>1, <1>11
<1> QED
  BY <1>1, <1>2, <1>3, <1>4, <1>9, <1>12, <1>13, StartJobInv

LEMMA StartSingleInv == ClusterInv /\ StartSingle => ClusterInv'
<1> SUFFICES ASSUME ClusterInv, StartSingle PROVE ClusterInv'
  OBVIOUS
<1>1. /\ cmd.name = "start" /\ Ready /\ ~split /\ cmd.host <= Len(Hosts)
      /\ UNCHANGED <<product, failOnError, plan, setups, last, split, strayed, hostVars,
                     layoutVars>>
      /\ cmd' = [cmd EXCEPT !.host = cmd.host + 1]
      /\ Launch({Hosts[cmd.host]}, "start", 0, Disks)
  BY DEF StartSingle
<1>2. /\ cmd \in [name: Commands \cup {"none"}, step: Nat, host: 1 .. Len(Hosts) + 1]
      /\ Types /\ slot \in 0 .. Instances
  BY DEF ClusterInv, Types
<1>3. /\ split' = split /\ servers' = servers /\ slot' = slot
      /\ failOnError' = failOnError /\ strayed' = strayed /\ last' = last
      /\ UNCHANGED <<product, failOnError, plan, setups, last, split, strayed, hostVars>>
  BY <1>1 DEF hostVars, serverVars, layoutVars
<1>4. /\ cmd' \in [name: Commands \cup {"none"}, step: Nat, host: 1 .. Len(Hosts) + 1]
      /\ cmd'.name = "start" /\ cmd'.host = cmd.host + 1
  BY <1>1, <1>2, HostFacts
<1>5. "start" \in Ops /\ Live = {} /\ Hosts[cmd.host] \in HostSet
  BY <1>1, <1>2, ReadyFacts, HostFacts DEF Ops
<1>6. PICK g \in HostSet : g = Hosts[cmd.host]
  BY <1>5
<1>7. PICK q : q = [host |-> g, op |-> "start", arg |-> 0, disks |-> Disks,
                     stray |-> FALSE]
  OBVIOUS
<1>8. /\ job' \in JobRecords /\ job'.state = "running" /\ job'.rc = 0
      /\ remote' \subseteq Requests
      /\ \A r : r \in Live' <=> r = q
  <2>1. PICK hs \in SUBSET HostSet : hs = {g}
    OBVIOUS
  <2>2. Launch(hs, "start", 0, Disks)
    BY <1>1, <1>6, <2>1
  <2>3. /\ job' \in JobRecords /\ job'.state = "running" /\ job'.rc = 0
        /\ remote' \subseteq Requests
        /\ \A r : r \in Live' <=>
             \E h \in hs : r = [host |-> h, op |-> "start", arg |-> 0, disks |-> Disks,
                                stray |-> FALSE]
    <3>1. 0 \in Nat /\ Disks \in SUBSET Disks
      OBVIOUS
    <3> QED
      BY <1>2, <1>5, <2>2, <3>1, LaunchFacts
  <2> QED
    BY <1>7, <2>1, <2>3
<1>9. q \in Live' /\ q.host = g /\ q.op = "start" /\ q.arg = 0 /\ q.disks = Disks
  BY <1>7, <1>8
<1>10. StartInv'
  <2>1. /\ Sure' = Sure /\ cmd'.name = "start" /\ ~split' /\ Disks' = Disks
    BY <1>1, <1>3, <1>4 DEF Sure, Disks
  <2>2. \A h : HasSingle(h) => HasSingle(h)'
    BY <1>3 DEF HasSingle
  <2>3. ASSUME Sure
        PROVE  /\ slot' = 0
               /\ \A i \in 1 .. cmd'.host - 1 :
                    \/ HasSingle(Hosts[i])'
                    \/ \E r \in Live' : r.host = Hosts[i] /\ r.op = "start" /\ r.arg = 0
    <3>1. slot = 0 /\ \A i \in 1 .. cmd.host - 1 : HasSingle(Hosts[i])
      BY <1>1, <2>3, StartProgress
    <3>2. \A i \in 1 .. cmd'.host - 1 : i \in 1 .. cmd.host - 1 \/ i = cmd.host
      BY <1>2, <1>4, HostFacts
    <3> QED
      BY <1>3, <1>6, <1>9, <2>2, <3>1, <3>2
  <2> QED
    BY <2>1, <2>3 DEF StartInv
<1>11. \A r \in Live' : /\ r.op \in {"master", "start"}
                        /\ r.op = "start" =>
                             r.disks = IF split THEN DisksOf(r.arg) ELSE Disks
  BY <1>1, <1>8, <1>9
<1>12. slot' \in 0 .. Instances
  BY <1>2, <1>3
<1> QED
  BY <1>1, <1>2, <1>3, <1>4, <1>8, <1>10, <1>11, <1>12, StartJobInv

LEMMA StartOnNextHostInv == ClusterInv /\ StartOnNextHost => ClusterInv'
<1> SUFFICES ASSUME ClusterInv, StartOnNextHost PROVE ClusterInv'
  OBVIOUS
<1>1. /\ cmd.name = "start" /\ Ready /\ split /\ cmd.host <= Len(Hosts)
      /\ slot = Instances /\ NextHost /\ job' = NoJob
      /\ cmd' = [cmd EXCEPT !.host = cmd.host + 1]
      /\ UNCHANGED <<product, failOnError, plan, setups, last, split, remote, strayed,
                     hostVars>>
  BY DEF StartOnNextHost
<1>2. /\ cmd \in [name: Commands \cup {"none"}, step: Nat, host: 1 .. Len(Hosts) + 1]
      /\ Types /\ remote \subseteq Requests
  BY DEF ClusterInv, Types
<1>3. /\ split' = split /\ servers' = servers /\ slot' = 0 /\ slot' \in 0 .. Instances
      /\ failOnError' = failOnError /\ strayed' = strayed /\ last' = last
      /\ UNCHANGED <<product, failOnError, plan, setups, last, split, strayed, hostVars>>
  BY <1>1, SlotFacts DEF hostVars, serverVars
<1>4. /\ cmd' \in [name: Commands \cup {"none"}, step: Nat, host: 1 .. Len(Hosts) + 1]
      /\ cmd'.name = "start" /\ cmd'.host = cmd.host + 1
  BY <1>1, <1>2, HostFacts
<1>5. Live' = {} /\ remote' \subseteq Requests
  BY <1>1, <1>2, ReadyFacts DEF Live
<1>6. job' \in JobRecords /\ job'.rc = 0
  <2>1. 0 \in 0 .. Timeout + KillTimeout
    BY ClusterAssumption
  <2> QED
    BY <1>1, <2>1 DEF JobRecords, NoJob
<1>7. StartInv'
  <2>1. /\ Sure' = Sure /\ cmd'.name = "start" /\ split'
        /\ \A i : DisksOf(i)' = DisksOf(i)
    BY <1>1, <1>3, <1>4 DEF Sure, DisksOf
  <2>2. \A h, i : HasServer(h, i) => HasServer(h, i)'
    BY <1>3, <2>1 DEF HasServer
  <2>3. ASSUME Sure
        PROVE  \A i \in 1 .. cmd'.host - 1, k \in 0 .. Instances - 1 : HasServer(Hosts[i], k)'
    <3>1. /\ \A i \in 1 .. cmd.host - 1, k \in 0 .. Instances - 1 : HasServer(Hosts[i], k)
          /\ \A k \in 0 .. Instances - 1 : HasServer(Hosts[cmd.host], k)
      BY <1>1, <2>3, StartProgress
    <3>2. \A i \in 1 .. cmd'.host - 1 : i \in 1 .. cmd.host - 1 \/ i = cmd.host
      BY <1>2, <1>4, HostFacts
    <3>3. \A i \in 1 .. cmd'.host - 1, k \in 0 .. Instances - 1 : HasServer(Hosts[i], k)
      BY <3>1, <3>2
    <3> QED
      BY <2>2, <3>3
  <2>4. 0 .. slot' - 1 = {}
    BY <1>3
  <2> QED
    BY <1>3, <2>1, <2>3, <2>4 DEF StartInv
<1>8. /\ job'.state = "none" => job'.rc = 0
      /\ job'.state # "running" => Live' = {}
      /\ \A r \in Live' : /\ r.op \in {"master", "start"}
                          /\ r.op = "start" =>
                               r.disks = IF split THEN DisksOf(r.arg) ELSE Disks
  BY <1>1, <1>5, <1>6
<1> QED
  BY <1>1, <1>3, <1>4, <1>5, <1>6, <1>7, <1>8, StartJobInv

-----------------------------------------------------------------------------
(* A command ends.                                                             *)

\* What a command that ends with 0 has reached.
Reached ==
    Sure =>
      /\ cmd.name = "stop" => \A h \in HostSet : servers[h] = {}
      /\ product = "yugabyte" =>
           /\ cmd.name \in {"format", "deploy"} => \A h \in HostSet : servers[h] = {}
           /\ cmd.name \in {"format", "deploy", "start"} =>
                \A h \in HostSet : LastDisk \in mounted[h]
           /\ cmd.name = "deploy" => \A h \in HostSet : deployed[h]
      /\ cmd.name = "start" =>
           \A h \in HostSet : IF split THEN \A k \in 0 .. Instances - 1 : HasServer(h, k)
                                       ELSE HasSingle(h)

LEMMA EndInv ==
    ASSUME ClusterInv, Live = {}, cmd.name # "none", NEW code \in {0, 1}, End(code),
           code = 0 => Reached
    PROVE  ClusterInv'
<1>1. /\ cmd' = Idle /\ job' = NoJob /\ slot' = 0
      /\ last' = [name |-> cmd.name, exit |-> code]
      /\ plan' = IF code # 0 THEN <<>> ELSE plan
      /\ product' = product /\ failOnError' = failOnError /\ setups' = setups
      /\ split' = split /\ strayed' = strayed /\ remote' = remote
      /\ mounted' = mounted /\ uploaded' = uploaded /\ deployed' = deployed
      /\ servers' = servers /\ wrapper' = wrapper
  BY SlotFacts DEF End, hostVars, serverVars
<1>2. cmd'.name = "none" /\ cmd'.host = 1 /\ Live' = {}
  BY <1>1 DEF Idle, Live
<1>3. Types /\ JobInv /\ PlanInv /\ SeriesInv /\ cmd.name \in Commands
  BY DEF ClusterInv, Types
<1>4. Types'
  <2>1. job' \in JobRecords
    <3>1. 0 \in 0 .. Timeout + KillTimeout
      BY ClusterAssumption
    <3> QED
      BY <1>1, <3>1 DEF JobRecords, NoJob
  <2>2. cmd' \in [name: Commands \cup {"none"}, step: Nat, host: 1 .. Len(Hosts) + 1]
    BY <1>1, HostFacts DEF Idle
  <2>3. last' \in [name: Commands \cup {"none"}, exit: {0, 1}] /\ plan' \in Seq(Commands)
    BY <1>1, <1>3 DEF Types
  <2>4. slot' \in 0 .. Instances
    BY <1>1, SlotFacts
  <2> QED
    BY <1>1, <1>3, <2>1, <2>2, <2>3, <2>4 DEF Types
<1>5. JobInv'
  BY <1>1, <1>2 DEF JobInv, NoJob
<1>6. PlanInv'
  BY <1>1, <1>2, <1>3 DEF PlanInv, Commands
<1>7. Sure' = Sure
  BY <1>1 DEF Sure
<1>8. StopInv'
  BY <1>1, <1>2, <1>7 DEF StopInv, Reached
<1>9. product = "yugabyte" =>
        /\ Stopped' => code = 0 /\ cmd.name \in {"stop", "format", "deploy"}
        /\ Formatted' => code = 0 /\ cmd.name \in {"format", "deploy", "start"}
        /\ Deployed' => code = 0 /\ cmd.name = "deploy"
  <2>1. SUFFICES ASSUME product = "yugabyte"
                 PROVE  /\ Stopped' => code = 0 /\ cmd.name \in {"stop", "format", "deploy"}
                        /\ Formatted' => code = 0 /\ cmd.name \in {"format", "deploy", "start"}
                        /\ Deployed' => code = 0 /\ cmd.name = "deploy"
    OBVIOUS
  <2>2. cmd.name \in {"stop", "format", "deploy", "start"}
    BY <1>3, <2>1 DEF PlanInv, Commands
  <2>3. CASE code # 0
    BY <1>1, <1>2, <2>3 DEF Stopped, Formatted, Deployed
  <2>4. CASE code = 0
    <3>1. plan' = plan /\ last'.name = cmd.name
      BY <1>1, <2>4
    <3>2. CASE cmd.name = "stop"
      <4>1. plan = <<>> \/ plan = <<"format", "deploy", "start">>
        BY <1>3, <2>1, <3>2 DEF PlanInv
      <4>2. last' # [name |-> "start", exit |-> 0]
        BY <3>1, <3>2
      <4>3. CASE plan = <<>>
        BY <1>2, <2>4, <3>1, <3>2, <4>2, <4>3 DEF Stopped, Formatted, Deployed
      <4>4. CASE plan = <<"format", "deploy", "start">>
        BY <1>2, <2>4, <3>1, <3>2, <4>2, <4>4 DEF Stopped, Formatted, Deployed
      <4> QED
        BY <4>1, <4>3, <4>4
    <3>3. CASE cmd.name = "format"
      BY <1>1, <1>2, <1>3, <2>1, <2>4, <3>1, <3>3 DEF Stopped, Formatted, Deployed, PlanInv
    <3>4. CASE cmd.name = "deploy"
      BY <1>1, <1>2, <1>3, <2>1, <2>4, <3>1, <3>4 DEF Stopped, Formatted, Deployed, PlanInv
    <3>5. CASE cmd.name = "start"
      BY <1>1, <1>2, <1>3, <2>1, <2>4, <3>1, <3>5 DEF Stopped, Formatted, Deployed, PlanInv
    <3> QED
      BY <2>2, <3>2, <3>3, <3>4, <3>5
  <2> QED
    BY <2>3, <2>4
<1>10. SeriesInv'
  <2>1. SUFFICES ASSUME Sure, product = "yugabyte" PROVE SeriesInv'
    BY <1>1, <1>7 DEF SeriesInv
  <2>2. Stopped' => \A h \in HostSet : servers[h] = {}
    BY <1>9, <2>1 DEF Reached
  <2>3. Formatted' => \A h \in HostSet : LastDisk \in mounted[h]
    BY <1>9, <2>1 DEF Reached
  <2>4. Deployed' => \A h \in HostSet : deployed[h]
    BY <1>9, <2>1 DEF Reached
  <2> QED
    BY <1>1, <1>2, <2>2, <2>3, <2>4 DEF SeriesInv
<1>11. StartInv'
  <2>1. \A i : DisksOf(i)' = DisksOf(i)
    BY DEF DisksOf
  <2>2. /\ \A h, i : HasServer(h, i) => HasServer(h, i)'
        /\ \A h : HasSingle(h) => HasSingle(h)'
    BY <1>1, <2>1 DEF HasServer, HasSingle
  <2>3. last' = [name |-> "start", exit |-> 0] => code = 0 /\ cmd.name = "start"
    BY <1>1
  <2> QED
    BY <1>1, <1>2, <1>7, <2>2, <2>3 DEF StartInv, Reached
<1> QED
  BY <1>4, <1>5, <1>6, <1>8, <1>10, <1>11 DEF ClusterInv

\* The last job of a command has ended with 0, on every host.
LEMMA DoneReached == ClusterInv /\ Done => Reached
<1> SUFFICES ASSUME ClusterInv, Done, Sure PROVE Reached
  BY DEF Reached
<1>1. /\ cmd.name \notin {"none", "start"} /\ Ready /\ cmd.step = Len(Jobs(cmd.name))
  BY DEF Done
<1>2. Live = {} /\ job.rc = 0 /\ product \in Products
  BY <1>1, ReadyFacts DEF Sure, ClusterInv, Types
<1>3. \A h, op : ~Underway(h, op)
  BY <1>2 DEF Underway
<1>4. cmd.name = "stop" => \A h \in HostSet : servers[h] = {}
  BY <1>1, <1>2, <1>3 DEF ClusterInv, StopInv
<1>5. product = "yugabyte" =>
        /\ cmd.name \in {"format", "deploy"} => \A h \in HostSet : servers[h] = {}
        /\ cmd.name \in {"format", "deploy", "start"} =>
             \A h \in HostSet : LastDisk \in mounted[h]
        /\ cmd.name = "deploy" => \A h \in HostSet : deployed[h]
  <2>1. /\ cmd.name = "format" => cmd.step = 1
        /\ cmd.name = "deploy" => cmd.step = 2
    BY <1>1, <1>2, JobsOf
  <2>2. product = "yugabyte" =>
          /\ Stopped => \A h \in HostSet : servers[h] = {}
          /\ cmd.name = "format" => \A h \in HostSet : LastDisk \in mounted[h]
          /\ Formatted => \A h \in HostSet : LastDisk \in mounted[h]
          /\ cmd.name = "deploy" => \A h \in HostSet : deployed[h]
    BY <1>2, <1>3, <2>1 DEF ClusterInv, SeriesInv
  <2>3. /\ cmd.name \in {"format", "deploy"} => Stopped
        /\ cmd.name = "deploy" => Formatted
    BY DEF Stopped, Formatted
  <2> QED
    BY <1>1, <2>2, <2>3
<1> QED
  BY <1>1, <1>4, <1>5 DEF Reached

LEMMA StartDoneReached == ClusterInv /\ StartDone => Reached
<1> SUFFICES ASSUME ClusterInv, StartDone, Sure PROVE Reached
  BY DEF Reached
<1>1. cmd.name = "start" /\ Ready /\ cmd.host > Len(Hosts)
  BY DEF StartDone
<1>2. cmd.host \in Nat
  BY DEF ClusterInv, Types
<1>3. /\ split => \A i \in 1 .. cmd.host - 1, k \in 0 .. Instances - 1 : HasServer(Hosts[i], k)
      /\ ~split => \A i \in 1 .. cmd.host - 1 : HasSingle(Hosts[i])
  BY <1>1, StartProgress
<1>4. \A h \in HostSet : \E i \in 1 .. cmd.host - 1 : h = Hosts[i]
  BY <1>1, <1>2, HostFacts
<1>5. /\ split => \A h \in HostSet : \A k \in 0 .. Instances - 1 : HasServer(h, k)
      /\ ~split => \A h \in HostSet : HasSingle(h)
  BY <1>3, <1>4
<1>6. product = "yugabyte" => (Formatted => \A h \in HostSet : LastDisk \in mounted[h])
  BY <1>1 DEF ClusterInv, SeriesInv
<1>7. Formatted
  BY <1>1 DEF Formatted
<1> QED
  BY <1>1, <1>5, <1>6, <1>7 DEF Reached

LEMMA EndingInv == ClusterInv /\ (Done \/ Fail \/ StartUnbound \/ StartDone) => ClusterInv'
<1> SUFFICES ASSUME ClusterInv, Done \/ Fail \/ StartUnbound \/ StartDone PROVE ClusterInv'
  OBVIOUS
<1>1. CASE Done
  <2>1. cmd.name # "none" /\ End(0) /\ Live = {}
    BY <1>1, ReadyFacts DEF Done
  <2> QED
    BY <1>1, <2>1, DoneReached, EndInv
<1>2. CASE Fail
  <2>1. End(1) /\ job.state = "ended"
    BY <1>2 DEF Fail, JobFailed
  <2>2. Live = {} /\ cmd.name # "none"
    BY <2>1 DEF ClusterInv, JobInv, NoJob
  <2> QED
    BY <2>1, <2>2, EndInv
<1>3. CASE StartUnbound
  <2>1. cmd.name # "none" /\ End(1) /\ Live = {}
    BY <1>3, ReadyFacts DEF StartUnbound
  <2> QED
    BY <2>1, EndInv
<1>4. CASE StartDone
  <2>1. cmd.name # "none" /\ End(0) /\ Live = {}
    BY <1>4, ReadyFacts DEF StartDone
  <2> QED
    BY <1>4, <2>1, StartDoneReached, EndInv
<1> QED
  BY <1>1, <1>2, <1>3, <1>4

-----------------------------------------------------------------------------
(* A command is called.                                                        *)

LEMMA SetupPlanFacts ==
    /\ SetupPlan \in Seq(Commands) /\ <<"stop">> \in Seq(Commands)
    /\ product = "yugabyte" => SetupPlan = <<"stop", "format", "deploy", "start">>
<1>1. /\ {"stop", "clean", "format", "deploy", "start", "init"} \subseteq Commands
  BY DEF Commands
<1>2. <<"stop">> \in Seq(Commands)
  BY <1>1
<1>3. <<"clean", "format", "deploy", "start", "init">> \in Seq(Commands)
  BY <1>1
<1>4. <<"stop", "format", "deploy", "start">> \in Seq(Commands)
  BY <1>1
<1> QED
  BY <1>2, <1>3, <1>4 DEF SetupPlan

LEMMA CallSetupInv == ClusterInv /\ CallSetup => ClusterInv'
<1> SUFFICES ASSUME ClusterInv, CallSetup PROVE ClusterInv'
  OBVIOUS
<1>1. /\ cmd = Idle /\ setups < MaxSetups
      /\ plan' = SetupPlan /\ setups' = setups + 1 /\ failOnError' = FALSE
      /\ last' = NoCommand /\ product' = product /\ cmd' = cmd /\ split' = split
      /\ job' = job /\ remote' = remote /\ strayed' = strayed
      /\ mounted' = mounted /\ uploaded' = uploaded /\ servers' = servers
      /\ slot' = slot
  BY DEF CallSetup, jobVars, serverVars, layoutVars
<1>2. Types /\ JobInv
  BY DEF ClusterInv
<1>3. ~Sure' /\ Live' = Live /\ cmd'.name = "none"
  BY <1>1 DEF Sure, Live, Idle
<1>4. Types'
  <2>1. setups' \in 0 .. MaxSetups /\ plan' \in Seq(Commands)
    BY <1>1, <1>2, ClusterAssumption, SetupPlanFacts DEF Types
  <2>2. wrapper' \in [HostSet -> BOOLEAN] /\ deployed' \in [HostSet -> BOOLEAN]
    <3>1. PICK lost \in SUBSET HostSet, bare \in SUBSET HostSet :
            /\ wrapper' = [h \in HostSet |->
                 \/ h \notin lost \cup bare
                 \/ wrapper[h] /\ (h \in lost \/ product = "cockroach")]
            /\ deployed' = [h \in HostSet |->
                 deployed[h] /\ (h \in lost \/ product = "cockroach")]
      BY DEF CallSetup
    <3> QED
      BY <3>1
  <2>3. last' \in [name: Commands \cup {"none"}, exit: {0, 1}]
    BY <1>1 DEF NoCommand
  <2> QED
    BY <1>1, <1>2, <2>1, <2>2, <2>3 DEF Types
<1>5. JobInv'
  BY <1>1, <1>2, <1>3 DEF JobInv, NoJob, Idle
<1>6. PlanInv'
  <2>1. product' = "yugabyte" => plan' = <<"stop", "format", "deploy", "start">>
    BY <1>1, SetupPlanFacts
  <2> QED
    BY <1>3, <2>1 DEF PlanInv
<1> QED
  BY <1>3, <1>4, <1>5, <1>6 DEF ClusterInv, StopInv, SeriesInv, StartInv

LEMMA CallByHandInv == ClusterInv /\ CallByHand => ClusterInv'
<1> SUFFICES ASSUME ClusterInv, CallByHand PROVE ClusterInv'
  OBVIOUS
<1>1. /\ cmd = Idle /\ setups < MaxSetups
      /\ plan' \in {SetupPlan, <<"stop">>} /\ setups' = setups + 1 /\ failOnError' = TRUE
      /\ last' = NoCommand /\ product' = product /\ cmd' = cmd /\ split' = split
      /\ job' = job /\ remote' = remote /\ strayed' = strayed
      /\ deployed' = deployed /\ wrapper' = wrapper
      /\ mounted' = mounted /\ uploaded' = uploaded /\ servers' = servers
      /\ slot' = slot
  BY DEF CallByHand, jobVars, hostVars, serverVars, layoutVars
<1>2. Types /\ JobInv
  BY DEF ClusterInv
<1>3. /\ Live' = Live /\ cmd'.name = "none"
      /\ last'.name = "none" /\ last' # [name |-> "stop", exit |-> 0]
      /\ last' # [name |-> "start", exit |-> 0]
  BY <1>1 DEF Live, Idle, NoCommand
<1>4. Types'
  <2>1. setups' \in 0 .. MaxSetups
    BY <1>1, <1>2, ClusterAssumption DEF Types
  <2>2. plan' \in Seq(Commands)
    BY <1>1, SetupPlanFacts
  <2>3. last' \in [name: Commands \cup {"none"}, exit: {0, 1}]
    BY <1>1 DEF NoCommand
  <2> QED
    BY <1>1, <1>2, <2>1, <2>2, <2>3 DEF Types
<1>5. JobInv'
  BY <1>1, <1>2, <1>3 DEF JobInv, NoJob, Idle
<1>6. product = "yugabyte" =>
        plan' = <<"stop", "format", "deploy", "start">> \/ plan' = <<"stop">>
  BY <1>1, SetupPlanFacts
<1>7. PlanInv'
  BY <1>1, <1>3, <1>6 DEF PlanInv
<1>8. StopInv' /\ StartInv'
  BY <1>3 DEF StopInv, StartInv
<1>9. SeriesInv'
  <2>1. product = "yugabyte" => ~Stopped' /\ ~Formatted' /\ ~Deployed'
    <3>1. CASE plan' = <<"stop", "format", "deploy", "start">>
      BY <1>3, <3>1 DEF Stopped, Formatted, Deployed
    <3>2. CASE plan' = <<"stop">>
      BY <1>3, <3>2 DEF Stopped, Formatted, Deployed
    <3> QED
      BY <1>6, <3>1, <3>2
  <2> QED
    BY <1>1, <1>3, <2>1 DEF SeriesInv
<1> QED
  BY <1>4, <1>5, <1>7, <1>8, <1>9 DEF ClusterInv

LEMMA CallInv == ClusterInv /\ Call => ClusterInv'
<1> SUFFICES ASSUME ClusterInv, Call PROVE ClusterInv'
  OBVIOUS
<1>1. /\ cmd = Idle /\ plan # <<>>
      /\ cmd' = [Idle EXCEPT !.name = Head(plan)] /\ plan' = Tail(plan)
      /\ strayed' = (strayed /\ Head(plan) \notin {"stop", "clean"})
      /\ split' \in BOOLEAN
      /\ last' = NoCommand /\ product' = product /\ failOnError' = failOnError
      /\ setups' = setups /\ job' = job /\ remote' = remote
      /\ mounted' = mounted /\ uploaded' = uploaded /\ deployed' = deployed
      /\ servers' = servers /\ slot' = slot /\ wrapper' = wrapper
  BY DEF Call, hostVars, serverVars, layoutVars
<1>2. Types /\ JobInv /\ PlanInv /\ product \in Products /\ plan \in Seq(Commands)
  BY DEF ClusterInv, Types
<1>3. Head(plan) \in Commands /\ Tail(plan) \in Seq(Commands)
  BY <1>1, <1>2
<1>4. /\ cmd'.name = Head(plan) /\ cmd'.step = 0 /\ cmd'.host = 1 /\ cmd.name = "none"
      /\ cmd'.name \in Commands /\ cmd'.name # "none"
  BY <1>1, <1>3 DEF Idle, Commands
<1>5. job = NoJob /\ slot = 0 /\ Live = {} /\ Live' = {}
  BY <1>1, <1>2, <1>4 DEF JobInv, NoJob, Live
<1>6. Types'
  <2>1. cmd' \in [name: Commands \cup {"none"}, step: Nat, host: 1 .. Len(Hosts) + 1]
    BY <1>1, <1>3, HostFacts DEF Idle
  <2>2. last' \in [name: Commands \cup {"none"}, exit: {0, 1}] /\ strayed' \in BOOLEAN
    BY <1>1 DEF NoCommand
  <2> QED
    BY <1>1, <1>2, <1>3, <2>1, <2>2 DEF Types
<1>7. JobInv'
  <2>1. \A name : Jobs(name)' = Jobs(name)
    BY <1>1, JobsStay
  <2>2. cmd'.name # "start" => Len(Jobs(cmd'.name)) \in Nat
    BY <1>2, <1>4, JobsOf
  <2>3. cmd'.name # "start" => 0 \in 0 .. Len(Jobs(cmd.name)')
    BY <2>1, <2>2
  <2> QED
    BY <1>1, <1>4, <1>5, <2>3 DEF JobInv, NoJob
\* Which command of a series on YugabyteDB this is.
<1>8. product = "yugabyte" =>
        \/ cmd'.name = "stop" /\ plan' \in {<<>>, <<"format", "deploy", "start">>}
        \/ cmd'.name = "format" /\ plan' = <<"deploy", "start">> /\ Stopped
        \/ cmd'.name = "deploy" /\ plan' = <<"start">> /\ Stopped /\ Formatted
        \/ cmd'.name = "start" /\ plan' = <<>> /\ Stopped /\ Formatted /\ Deployed
  <2>1. SUFFICES ASSUME product = "yugabyte"
                 PROVE  \/ cmd'.name = "stop"
                             /\ plan' \in {<<>>, <<"format", "deploy", "start">>}
                        \/ cmd'.name = "format" /\ plan' = <<"deploy", "start">> /\ Stopped
                        \/ cmd'.name = "deploy" /\ plan' = <<"start">>
                             /\ Stopped /\ Formatted
                        \/ cmd'.name = "start" /\ plan' = <<>>
                             /\ Stopped /\ Formatted /\ Deployed
    OBVIOUS
  <2>2. plan \in {<<"stop">>, <<"stop", "format", "deploy", "start">>,
                  <<"format", "deploy", "start">>, <<"deploy", "start">>, <<"start">>}
    BY <1>1, <1>2, <1>4, <2>1 DEF PlanInv
  <2>3. CASE plan = <<"stop">>
    BY <1>1, <1>4, <2>3, TailOfPlan
  <2>4. CASE plan = <<"stop", "format", "deploy", "start">>
    BY <1>1, <1>4, <2>4, TailOfPlan
  <2>5. CASE plan = <<"format", "deploy", "start">>
    <3>1. Stopped
      BY <1>4, <2>5 DEF Stopped
    <3> QED
      BY <1>1, <1>4, <2>5, <3>1, TailOfPlan
  <2>6. CASE plan = <<"deploy", "start">>
    <3>1. Stopped /\ Formatted
      BY <1>4, <2>6 DEF Stopped, Formatted
    <3> QED
      BY <1>1, <1>4, <2>6, <3>1, TailOfPlan
  <2>7. CASE plan = <<"start">>
    <3>1. Stopped /\ Formatted /\ Deployed
      BY <1>4, <2>7 DEF Stopped, Formatted, Deployed
    <3> QED
      BY <1>1, <1>4, <2>7, <3>1, TailOfPlan
  <2> QED
    BY <2>2, <2>3, <2>4, <2>5, <2>6, <2>7
<1>9. PlanInv'
  BY <1>1, <1>4, <1>8 DEF PlanInv
<1>10. StopInv'
  <2>1. Len(Jobs("stop")') # 0
    <3>1. Len(Jobs("stop")) \in {1, 2}
      BY <1>2, JobsOf
    <3>2. Jobs("stop")' = Jobs("stop")
      BY <1>1, JobsStay
    <3> QED
      BY <3>1, <3>2
  <2> QED
    BY <1>4, <2>1 DEF StopInv
<1>11. SeriesInv'
  <2>1. SUFFICES ASSUME Sure', product = "yugabyte" PROVE SeriesInv'
    BY <1>1 DEF SeriesInv
  <2>2. cmd'.name # "stop" => Sure
    BY <1>1, <1>4, <1>8, <2>1 DEF Sure
  <2>3. \/ cmd'.name = "stop"
        \/ cmd'.name = "format" /\ Stopped
        \/ cmd'.name = "deploy" /\ Stopped /\ Formatted
        \/ cmd'.name = "start" /\ Stopped /\ Formatted /\ Deployed
    BY <1>8, <2>1
  <2>4. Sure =>
          /\ Stopped => \A h \in HostSet : servers[h] = {}
          /\ Formatted => \A h \in HostSet : LastDisk \in mounted[h]
          /\ Deployed => \A h \in HostSet : deployed[h]
    BY <2>1 DEF ClusterInv, SeriesInv
  <2>5. Stopped' => Sure /\ Stopped
    BY <1>4, <2>2, <2>3 DEF Stopped
  <2>6. Formatted' => Sure /\ Formatted
    BY <1>4, <2>2, <2>3 DEF Formatted
  <2>7. Deployed' => Sure /\ Deployed
    BY <1>4, <2>2, <2>3 DEF Deployed
  <2>8. cmd'.name = "start" => \A h \in HostSet : servers[h] = {}
    BY <2>2, <2>3, <2>4
  <2> QED
    BY <1>1, <1>4, <2>4, <2>5, <2>6, <2>7, <2>8 DEF SeriesInv
<1>12. StartInv'
  <2>1. 1 .. cmd'.host - 1 = {} /\ 0 .. slot' - 1 = {} /\ slot' = 0 /\ ~(cmd'.host > Len(Hosts))
    BY <1>1, <1>4, <1>5, HostFacts
  <2> QED
    BY <1>4, <2>1 DEF StartInv
<1> QED
  BY <1>6, <1>7, <1>9, <1>10, <1>11, <1>12 DEF ClusterInv

-----------------------------------------------------------------------------
(* The invariant, and what the commands that end with 0 promise.               *)

LEMMA InitClusterInv == Init => ClusterInv
<1> SUFFICES ASSUME Init PROVE ClusterInv
  OBVIOUS
<1>1. /\ product \in Products /\ failOnError = TRUE /\ plan = <<>> /\ setups = 0
      /\ cmd = Idle /\ last = NoCommand /\ split = TRUE
      /\ job = NoJob /\ remote = {} /\ strayed = FALSE
      /\ mounted = [h \in HostSet |-> {}] /\ uploaded = [h \in HostSet |-> FALSE]
      /\ deployed = [h \in HostSet |-> FALSE] /\ servers = [h \in HostSet |-> {}]
      /\ wrapper = [h \in HostSet |-> FALSE] /\ slot = 0
  BY DEF Init, Products, LayoutInit
<1>2. /\ cmd.name = "none" /\ Live = {} /\ cmd.host = 1
      /\ last # [name |-> "stop", exit |-> 0] /\ last # [name |-> "start", exit |-> 0]
  BY <1>1 DEF Idle, Live, NoCommand
<1>3. Types
  <2>1. job \in JobRecords
    <3>1. 0 \in 0 .. Timeout + KillTimeout
      BY ClusterAssumption
    <3> QED
      BY <1>1, <3>1 DEF JobRecords, NoJob
  <2>2. cmd \in [name: Commands \cup {"none"}, step: Nat, host: 1 .. Len(Hosts) + 1]
    BY <1>1, HostFacts DEF Idle
  <2>3. setups \in 0 .. MaxSetups /\ plan \in Seq(Commands) /\ slot \in 0 .. Instances
    BY <1>1, ClusterAssumption, SlotFacts
  <2>4. last \in [name: Commands \cup {"none"}, exit: {0, 1}]
    BY <1>1 DEF NoCommand
  <2> QED
    BY <1>1, <2>1, <2>2, <2>3, <2>4 DEF Types
<1>4. JobInv
  BY <1>1, <1>2 DEF JobInv, NoJob
<1>5. PlanInv
  BY <1>1, <1>2 DEF PlanInv
<1>6. StopInv /\ StartInv
  BY <1>2 DEF StopInv, StartInv
<1>7. SeriesInv
  <2>1. ~Stopped /\ ~Formatted /\ ~Deployed
    BY <1>1, <1>2 DEF Stopped, Formatted, Deployed
  <2> QED
    BY <1>2, <2>1 DEF SeriesInv
<1> QED
  BY <1>3, <1>4, <1>5, <1>6, <1>7 DEF ClusterInv

\* The inductive invariant: how far the command that runs has come, request by request,
\* and from which command of a series it may rely on what.
THEOREM ClusterInvariance == Spec => []ClusterInv
<1>1. ClusterInv /\ [Next]_vars => ClusterInv'
  <2> SUFFICES ASSUME ClusterInv, [Next]_vars PROVE ClusterInv'
    OBVIOUS
  <2>1. CASE Call
    BY <2>1, CallInv
  <2>2. CASE NextJob
    BY <2>2, NextJobInv
  <2>3. CASE Done \/ Fail \/ StartUnbound \/ StartDone
    BY <2>3, EndingInv
  <2>4. CASE StartMaster
    BY <2>4, StartMasterInv
  <2>5. CASE StartInstance
    BY <2>5, StartInstanceInv
  <2>6. CASE StartOnNextHost
    BY <2>6, StartOnNextHostInv
  <2>7. CASE StartSingle
    BY <2>7, StartSingleInv
  <2>8. CASE ProcessEnds
    BY <2>8, ProcessEndsQuiet, QuietInv
  <2>9. CASE Poll
    BY <2>9, PollQuiet, QuietInv
  <2>10. ASSUME NEW r \in remote, Execute(r) PROVE ClusterInv'
    BY <2>10, ExecuteTakes, TakesInv
  <2>11. ASSUME NEW r \in remote, Unreachable(r) PROVE ClusterInv'
    BY <2>11, UnreachableQuiet, QuietInv
  <2>12. CASE DieOfTerminate
    BY <2>12, DieOfTerminateQuiet, QuietInv
  <2>16. ASSUME NEW h \in HostSet, Crash(h) PROVE ClusterInv'
    BY <2>16, CrashQuiet, QuietInv
  <2>13. CASE CallSetup
    BY <2>13, CallSetupInv
  <2>14. CASE CallByHand
    BY <2>14, CallByHandInv
  <2>15. CASE UNCHANGED vars
    <3>1. Quiet
      BY <2>15 DEF Quiet, ClusterInv, Types, JobInv, vars, jobVars, hostVars, serverVars, Live
    <3> QED
      BY <3>1, QuietInv
  <2> QED
    BY <2>1, <2>2, <2>3, <2>4, <2>5, <2>6, <2>7, <2>8, <2>9, <2>10, <2>11, <2>12,
       <2>13, <2>14, <2>15, <2>16 DEF Next, Control, Environment
<1> QED
  BY <1>1, InitClusterInv, PTL DEF Spec

\* The state is of its type in every reachable state.
THEOREM TypeCorrect == Spec => []TypeOK
<1>1. ClusterInv => TypeOK
  <2> SUFFICES ASSUME ClusterInv PROVE TypeOK
    OBVIOUS
  <2>1. \A h \in HostSet : mounted[h] \subseteq Disks /\ servers[h] \subseteq Servers
    BY DEF ClusterInv, Types
  <2>2. \A h \in HostSet : Busy(h) \subseteq Disks
    BY <2>1 DEF Busy, Up, Servers
  <2>3. \A r \in remote : r.host \in HostSet
    BY DEF ClusterInv, Types, Requests
  <2>4. job.state \in {"none", "running", "ended"} /\ job.elapsed \in 0 .. Timeout + KillTimeout
    BY DEF ClusterInv, Types, JobRecords
  <2>5. /\ cmd.name \in Commands \cup {"none"} /\ cmd.host \in 1 .. Len(Hosts) + 1
        /\ last.exit \in {0, 1}
    BY DEF ClusterInv, Types
  <2> QED
    BY <2>1, <2>2, <2>3, <2>4, <2>5 DEF ClusterInv, Types, TypeOK, Products
<1> QED
  BY <1>1, ClusterInvariance, PTL

\* A stop that ends with 0 has stopped every server of every host, however jobs time
\* out, are killed and come in late, unless one of them has come in since.
THEOREM StopMeansDownAlways == Spec => []StopMeansDown
<1>1. ClusterInv => StopMeansDown
  BY DEF ClusterInv, StopInv, StopMeansDown, Sure, Idle
<1> QED
  BY <1>1, ClusterInvariance, PTL

\* A start that ends with 0 has started every instance on every host, on its disks.
THEOREM StartMeansStartedAlways == Spec => []StartMeansStarted
<1>1. ClusterInv => StartMeansStarted
  BY DEF ClusterInv, StartInv, StartMeansStarted, Sure, Idle, HasServer, HasSingle
<1> QED
  BY <1>1, ClusterInvariance, PTL

\* The last disk of a host is one of the last instance's.
LEMMA LastDiskGiven == DiskCount > 0 => LastDisk \in DisksOf(Instances - 1)
<1> SUFFICES ASSUME DiskCount > 0 PROVE LastDisk \in DisksOf(Instances - 1)
  OBVIOUS
<1> DEFINE n == DiskCount \div Instances
<1>1. Instances \in Nat \ {0} /\ DiskCount \in Nat /\ DiskCount % Instances = 0
  BY LayoutAssumption, ClusterAssumption
<1>2. n \in Nat /\ DiskCount = Instances * n
  BY <1>1
<1> HIDE DEF n
<1>3. n >= 1
  BY <1>1, <1>2
<1>4. n * (Instances - 1) = DiskCount - n /\ n * ((Instances - 1) + 1) = DiskCount
  BY <1>1, <1>2
<1>5. LastDisk \in Disks /\ n * (Instances - 1) <= LastDisk
      /\ LastDisk < n * ((Instances - 1) + 1)
  BY <1>1, <1>2, <1>3, <1>4 DEF LastDisk, Disks
<1> QED
  BY <1>5 DEF DisksOf, n

\* A series on YugabyteDB that went through leaves the last disk of every host mounted
\* and under a server.
THEOREM LastDiskMountedAlways == Spec => []LastDiskMounted
<1>1. ClusterInv => LastDiskMounted
  <2> SUFFICES ASSUME ClusterInv, failOnError, product = "yugabyte",
                      last = [name |-> "start", exit |-> 0], cmd = Idle, ~strayed,
                      NEW h \in HostSet
               PROVE  LastDisk \in mounted[h] /\ \E s \in servers[h] : LastDisk \in s.disks
    BY DEF LastDiskMounted
  <2>1. Sure /\ cmd.name = "none"
    BY DEF Sure, Idle
  <2>2. Formatted
    BY <2>1 DEF Formatted
  <2>3. LastDisk \in mounted[h] /\ mounted[h] \subseteq Disks
    BY <2>1, <2>2 DEF ClusterInv, SeriesInv, Types
  <2>4. DiskCount > 0
    BY <2>3, ClusterAssumption DEF LastDisk, Disks
  <2>5. IF split THEN \A k \in 0 .. Instances - 1 : HasServer(h, k) ELSE HasSingle(h)
    BY <2>1 DEF ClusterInv, StartInv
  <2>6. CASE split
    <3>1. HasServer(h, Instances - 1)
      BY <2>5, <2>6, LayoutAssumption
    <3> QED
      BY <2>3, <2>4, <3>1, LastDiskGiven DEF HasServer
  <2>7. CASE ~split
    BY <2>3, <2>5, <2>7 DEF HasSingle
  <2> QED
    BY <2>6, <2>7
<1> QED
  BY <1>1, ClusterInvariance, PTL

-----------------------------------------------------------------------------
(* generate_ydb_configs.py: what holds of every cluster the README allows, that  *)
(* of n >= 9 hosts, a multiple of three.                                       *)

LEMMA ThreeZones ==
    ASSUME NEW n \in Nat, HostsAccepted(n), n >= 9
    PROVE  PerZone(n) \in Nat /\ PerZone(n) >= 3 /\ n = 3 * PerZone(n)
  BY SMT DEF HostsAccepted, PerZone

\* The nine ring nodes are nodes of the cluster, and no two are the same (state storage
\* would count one node twice otherwise).
THEOREM RingNodesDistinct ==
    ASSUME NEW n \in Nat, HostsAccepted(n), n >= 9,
           NEW y \in 0 .. 2, NEW z \in 0 .. 2, NEW i \in 1 .. 3, NEW j \in 1 .. 3
    PROVE  /\ RingNode(n, y, i) \in 1 .. n
           /\ RingNode(n, y, i) = RingNode(n, z, j) => y = z /\ i = j
<1> DEFINE p == PerZone(n)
<1>1. p \in Nat /\ p >= 3 /\ n = 3 * p
  BY ThreeZones
<1> HIDE DEF p
<1>2. y \in {0, 1, 2} /\ z \in {0, 1, 2}
  BY SMT
<1>3. /\ RingNode(n, y, i) = y * p + i
      /\ RingNode(n, z, j) = z * p + j
  BY DEF RingNode, p
<1>4. 0 * p = 0 /\ 1 * p = p /\ 2 * p = p + p
  BY <1>1, SMT
<1> QED
  BY <1>1, <1>2, <1>3, <1>4, SMT

\* The fail domains of the three rings share no node and leave none out.
THEOREM FailDomainsPartition ==
    ASSUME NEW n \in Nat, HostsAccepted(n), n >= 9, NEW node \in 1 .. n
    PROVE  \E z \in 0 .. 2 :
             /\ node \in FailDomains(n, z)
             /\ \A y \in 0 .. 2 : node \in FailDomains(n, y) => y = z
<1> DEFINE p == PerZone(n)
<1>1. p \in Nat /\ p >= 3 /\ n = 3 * p
  BY ThreeZones
<1>2. \A z \in 0 .. 2 : FailDomains(n, z) = z * p + 1 .. (z + 1) * p
  BY DEF FailDomains
<1> HIDE DEF p
<1>3. /\ FailDomains(n, 0) = 1 .. p
      /\ FailDomains(n, 1) = p + 1 .. p + p
      /\ FailDomains(n, 2) = p + p + 1 .. p + p + p
  BY <1>1, <1>2, SMT
<1>4. \A y \in 0 .. 2 : y = 0 \/ y = 1 \/ y = 2
  BY SMT
<1>5. CASE node <= p
  BY <1>1, <1>3, <1>4, <1>5, SMT
<1>6. CASE p < node /\ node <= p + p
  BY <1>1, <1>3, <1>4, <1>6, SMT
<1>7. CASE p + p < node
  BY <1>1, <1>3, <1>4, <1>7, SMT
<1> QED
  BY <1>1, <1>5, <1>6, <1>7, SMT

\* Each zone of the ring nodes is a data center, as the comment of
\* generate_domains_section has it.
ZonesAreDataCenters(n) ==
    \A zone \in 0 .. 2 : \A i \in 1 .. 3 : DataCenter(RingNode(n, zone, i)) = zone + 1

\* That holds of nine hosts and of no other number that is accepted: the data centers go
\* by threes, the zones by n / 3.
THEOREM OnlyNineHostsMatch ==
    ASSUME NEW n \in Nat, HostsAccepted(n), n >= 9
    PROVE  ZonesAreDataCenters(n) <=> n = 9
<1> DEFINE p == PerZone(n)
<1>1. p \in Nat /\ p >= 3 /\ n = 3 * p
  BY ThreeZones
<1>2. \A z \in 0 .. 2 : \A i \in 1 .. 3 :
        DataCenter(RingNode(n, z, i)) = ((z * p + i) - 1) \div 3 + 1
  BY DEF DataCenter, RingNode
<1> HIDE DEF p
<1>3. ASSUME n = 9 PROVE ZonesAreDataCenters(n)
  <2>1. p = 3
    BY <1>1, <1>3, SMT
  <2>2. SUFFICES ASSUME NEW z \in 0 .. 2, NEW i \in 1 .. 3
                 PROVE  ((z * p + i) - 1) \div 3 = z
    BY <1>2, SMT DEF ZonesAreDataCenters
  <2> QED
    BY <2>1, SMT
<1>4. ASSUME ZonesAreDataCenters(n) PROVE n = 9
  <2>1. ((1 * p + 3) - 1) \div 3 + 1 = 1 + 1
    BY <1>2, <1>4, SMT DEF ZonesAreDataCenters
  <2>2. (p + 2) \div 3 = 1
    BY <1>1, <2>1, SMT
  <2> QED
    BY <1>1, <2>2, SMT
<1> QED
  BY <1>3, <1>4

\* The storage pool and the static group together ask for no more groups than four VDisks
\* on every disk have room for, at a replication of three.
THEOREM PoolFits ==
    ASSUME NEW n \in Nat, HostsAccepted(n), n >= 9
    PROVE  PoolSize(n) >= 0 /\ 3 * (PoolSize(n) + 1) <= 4 * n
  BY SMT DEF PoolSize
=============================================================================
