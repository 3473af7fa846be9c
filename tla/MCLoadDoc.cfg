SPECIFICATION Spec
CONSTANTS
    Names <- MCNames
    Addrs <- MCAddrs
    Configs <- MCConfigs
    Numbers <- MCNumbers
    IPs <- MCIPs
    IPv6 <- MCIPv6
    Env <- MCEnv
    Json <- MCJson
    Empty = ""
    Plans <- MCPlans
INVARIANTS
    LonePairsConfigured
CHECK_DEADLOCK FALSE
