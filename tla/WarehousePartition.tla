------------------------- MODULE WarehousePartition -------------------------
(***************************************************************************)
(* How the TPC-C warehouses 1..W are split among the n TPC-C clients.      *)
(*                                                                         *)
(* class HostConfig of tpcc_helper.py is built once per client, in a       *)
(* process of its own each time: by generate-configs, which writes the     *)
(* number of warehouses into config.<k>.xml, and by get-load-args, which   *)
(* prints the first warehouse id.  The two halves meet only in the loader. *)
(***************************************************************************)
EXTENDS Integers

\* The rounded-up share that every client but the last one gets.
WarehousesPerHost(W, n) == (W + n - 1) \div n

\* The first warehouse of client k.
StartWarehouse(W, n, k) == 1 + WarehousesPerHost(W, n) * (k - 1)

\* The number of warehouses of client k: the last client takes the rest.
HostWarehouses(W, n, k) ==
    IF k = n THEN W - WarehousesPerHost(W, n) * (n - 1)
             ELSE WarehousesPerHost(W, n)

LastWarehouse(W, n, k) == StartWarehouse(W, n, k) + HostWarehouses(W, n, k) - 1

\* HostConfig(W, n, k) is built: no sys.exit(1), no AssertionError.
HostConfigOK(W, n, k) ==
    /\ k \in 1 .. n
    /\ HostWarehouses(W, n, k) > 0

\* A client that starts at id "first" and handles "count" warehouses.
WarehouseIds(first, count) == first .. (first + count - 1)

=============================================================================
