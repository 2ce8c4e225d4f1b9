----------------------------- MODULE CoreLayout -----------------------------
(* How control.py of CockroachDB (with one instance per disk) and of          *)
(* YugabyteDB (with several tservers per host) share the cores of a host out  *)
(* among its instances: the loop hands out one range after the other, and the *)
(* first instances get one of the remaining cores each.                        *)
EXTENDS Integers

CONSTANTS
    Cores,      \* Cores of the cluster config: what a host has
    Instances,  \* Disks, or tservers_per_host
    AtLeastOne  \* CockroachDB: max(1, ...); YugabyteDB: no such bound

ASSUME LayoutAssumption ==
    /\ Cores \in Nat
    /\ Instances \in Nat \ {0}
    /\ AtLeastOne \in BOOLEAN

VARIABLES
    slot,       \* instances that have their cores
    startCore,  \* start_core
    remainder,  \* cores_reminder
    taskSet     \* slot -> the range computed for taskset; a TaskSets in the config of
                \* YugabyteDB is passed on as it is instead, one entry for each slot

layoutVars == <<slot, startCore, remainder, taskSet>>

CoresPerInstance ==
    IF AtLeastOne /\ Cores \div Instances = 0 THEN 1 ELSE Cores \div Instances

Extra(r) == IF r > 0 THEN 1 ELSE 0

NoTaskSet == [first |-> 0, last |-> -1]

LayoutInit ==
    /\ slot = 0
    /\ startCore = 0
    /\ remainder = Cores % Instances
    /\ taskSet = [k \in 0 .. Instances - 1 |-> NoTaskSet]

\* Mutants: the next range begins with the last core of this one; the remaining cores
\* are not counted down.
AssignCoresOverlap ==
    /\ slot < Instances
    /\ LET endCore == startCore + CoresPerInstance - 1 + Extra(remainder) IN
         /\ taskSet' = [taskSet EXCEPT ![slot] = [first |-> startCore, last |-> endCore]]
         /\ startCore' = endCore
    /\ remainder' = remainder - Extra(remainder)
    /\ slot' = slot + 1
AssignCoresGreedy ==
    /\ slot < Instances
    /\ LET endCore == startCore + CoresPerInstance - 1 + Extra(remainder) IN
         /\ taskSet' = [taskSet EXCEPT ![slot] = [first |-> startCore, last |-> endCore]]
         /\ startCore' = endCore + 1
    /\ slot' = slot + 1
    /\ UNCHANGED remainder

\* One turn of the loop over the disks or tservers of a host.
AssignCores ==
    /\ slot < Instances
    /\ LET endCore == startCore + CoresPerInstance - 1 + Extra(remainder) IN
         /\ taskSet' = [taskSet EXCEPT ![slot] = [first |-> startCore, last |-> endCore]]
         /\ startCore' = endCore + 1
    /\ remainder' = remainder - Extra(remainder)
    /\ slot' = slot + 1

\* The loop over the hosts starts over with the next one.
NextHost ==
    /\ slot' = 0
    /\ startCore' = 0
    /\ remainder' = Cores % Instances
    /\ taskSet' = [k \in 0 .. Instances - 1 |-> NoTaskSet]

LayoutNext == AssignCores \/ NextHost

LayoutSpec == LayoutInit /\ [][LayoutNext]_layoutVars

-----------------------------------------------------------------------------
CoresOf(k) == taskSet[k].first .. taskSet[k].last

\* No two instances of a host are pinned to the same core.
CoresDisjoint ==
    \A j, k \in 0 .. slot - 1 : j # k => CoresOf(j) \cap CoresOf(k) = {}

\* Once every instance has its range, the ranges are the cores of the host: none is
\* left over and none lies beyond.  (A host with fewer cores than instances is
\* another matter: see the README.)
CoresComplete ==
    (slot = Instances /\ Cores >= Instances)
      => /\ startCore = Cores
         /\ \A k \in 0 .. Instances - 1 :
              0 <= taskSet[k].first /\ taskSet[k].first <= taskSet[k].last
                /\ taskSet[k].last < Cores

\* The cores of a host are shared out: no core to two instances, and where there is
\* one for each instance, all of them and no others.
CoresShared == CoresDisjoint /\ CoresComplete
=============================================================================
