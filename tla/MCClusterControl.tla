-------------------------- MODULE MCClusterControl --------------------------
(* Two hosts with two disks and three cores, one of them with a proxy.       *)
EXTENDS ClusterControl, TLC

MCHosts == <<"host1", "host2">>
MCProxyHosts == {"host1"}
=============================================================================
