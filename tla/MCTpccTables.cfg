SPECIFICATION Spec
CONSTANTS
    DropOrder <- MCDropOrder
    CreateOrder <- MCCreateOrder
    OrderLine = "order_line"
    Stock = "stock"
    Warehouses = {w1}
    Batches = {b1, b2}
    MaxTries = 2
    MaxCalls = 2
    MaxFaults = 3
    MinPartitions = 50
    MinWarehousesPerShard = 100
    ItemsNum = 100000
    MinItemsPerShard = 100
INVARIANTS TypeOK ImportLoads ExitMeansDone ValidateSound MemRestored
PROPERTY HelperEnds
CHECK_DEADLOCK FALSE
