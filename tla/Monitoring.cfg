\* Requirements, bindings and tokens change under a reconcile that may stop.
SPECIFICATION FairSpec
CONSTANTS
    Servers = {p1, p2}
    Off = Off
    NoToken = NoToken
    Foreign = Foreign
    MaxChanges = 2
    MaxFaults = 1
    HAProxyEnabled = TRUE
CHECK_DEADLOCK FALSE
INVARIANTS TypeOK TokenFitsServer
PROPERTIES HoldRule MonitoringConverges
