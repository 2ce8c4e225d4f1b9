SPECIFICATION Spec
CONSTANTS
    YcsbHosts = {"h1", "h2"}
    Workloads <- MCWorkloads
    Counts = {2, 10}
    Results <- MCResults
    Instances = {1, 2}
    InstanceData <- MCInstanceData
    Edges <- MCEdges
    Percentiles = {50, 90, 99}
    AllKinds <- MCKinds
    MaxFaults = 2
INVARIANT GoTotalsExact
CHECK_DEADLOCK FALSE
