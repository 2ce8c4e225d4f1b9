------------------------------ MODULE SplitKeys ------------------------------
(* The split keys and partition counts that CreateTables and EnableSplitByLoad *)
(* give the tables of TPC-C (get_split_keys, get_split_keys_str).               *)
EXTENDS Integers, Sequences

CONSTANTS
    MinPartitions,          \* DEFAULT_MIN_PARTITIONS
    MinWarehousesPerShard,  \* DEFAULT_MIN_WAREHOUSES_PER_SHARD
    ItemsNum,               \* ITEMS_NUM
    MinItemsPerShard        \* MIN_ITEMS_PER_SHARD

ASSUME SplitAssumption ==
    /\ MinPartitions \in Nat \ {0} /\ MinWarehousesPerShard \in Nat \ {0}
    /\ ItemsNum \in Nat /\ MinItemsPerShard \in Nat \ {0}

Larger(a, b) == IF a >= b THEN a ELSE b
Smaller(a, b) == IF a <= b THEN a ELSE b

\* calc_min_parts
MinParts(warehouses) == Larger(MinPartitions, warehouses \div MinWarehousesPerShard)

\* What the loop of get_split_keys appends: the points after "first" and before "end".
SplitPoints(first, step, end) ==
    [i \in 1 .. (end - 1 - first) \div step |-> first + i * step]

\* The warehouses of a shard: the parts are filled up evenly, and a table whose size
\* per warehouse is known gets no more than "limit" of them.
PerShard(warehouses, parts) == (warehouses + parts - 1) \div parts
PerShardOfLarge(warehouses, parts, limit) == Smaller(limit, PerShard(warehouses, parts))

\* Warehouse ids begin with 1.
WarehouseKeys(warehouses, perShard) ==
    IF perShard < 2 THEN <<>> ELSE SplitPoints(1, perShard, warehouses + 1)

ItemsPerShard(parts) == Larger(MinItemsPerShard, ItemsNum \div parts)

ItemKeys(parts) == SplitPoints(0, ItemsPerShard(parts), ItemsNum)

\* get_split_keys_str: AUTO_PARTITIONING_MIN_PARTITIONS_COUNT
ShardCount(parts, keys) == IF keys = <<>> THEN parts ELSE Larger(parts, Len(keys) + 1)
=============================================================================
