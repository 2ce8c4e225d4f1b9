------------------------------ MODULE RingLayout ------------------------------
(* Where generate_ydb_configs.py puts the state storage ring, the fail domains   *)
(* of the static group and the storage groups of a YDB cluster of n hosts.        *)
EXTENDS Integers

\* generate_hosts_section exits with 1 otherwise.
HostsAccepted(n) == n # 0 /\ n % 3 = 0

\* data_center of the location of a node
DataCenter(node) == (node - 1) \div 3 + 1

PerZone(n) == n \div 3

\* The i-th ring node of a zone, i in range(1, 4)
RingNode(n, zone, i) == zone * PerZone(n) + i

\* The nodes of the fail domains of a ring of the static group
FailDomains(n, zone) == zone * PerZone(n) + 1 .. (zone + 1) * PerZone(n)

\* Groups that can be allocated on four VDisks per disk, less the static one
PoolSize(n) == (n * 4) \div 3 - 1
=============================================================================
