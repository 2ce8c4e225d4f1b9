SPECIFICATION Spec
CONSTANTS
    Cores = 3
    Instances = 2
    AtLeastOne = TRUE
    Hosts <- MCHosts
    ProxyHosts <- MCProxyHosts
    DiskCount = 2
    MaxFaults = 2
    MaxSetups = 2
    Timeout = 0
    KillTimeout = 1
INVARIANTS TypeOK CoresShared LastDiskMounted StopMeansDown StartMeansStarted
PROPERTY CommandsEnd
CHECK_DEADLOCK FALSE
