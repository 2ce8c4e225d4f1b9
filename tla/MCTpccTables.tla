---------------------------- MODULE MCTpccTables ----------------------------
(* Three of the nine tables, one warehouse in two batches; and the split   *)
(* keys of small numbers of warehouses against the loop that makes them.   *)
EXTENDS TpccTables, SplitKeys, TLC

MCDropOrder == <<"warehouse", "order_line", "stock">>
MCCreateOrder == <<"warehouse", "stock", "order_line">>

\* get_split_keys, literally: the list after the loop has passed "at".
Loop(step, end) ==
    LET from[at \in 0 .. end + step] ==
          IF at >= end THEN <<>> ELSE <<at>> \o from[at + step]
    IN  from[1 + step]

ASSUME SplitKeysAreTheLoops ==
    \A warehouses \in 1 .. 40, parts \in 1 .. 12 :
        LET shard == PerShard(warehouses, parts)
        IN  shard >= 2 =>
                WarehouseKeys(warehouses, shard) = Loop(shard, warehouses + 1)
=============================================================================
