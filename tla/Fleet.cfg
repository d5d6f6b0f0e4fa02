SPECIFICATION FairSpec
CONSTANTS
    Servers = {frps}
    Clients = {frpc}
    Jobs = {j1}
    Autostart = {}
    MaxShutdowns = 0
    MaxJobs = 2
    MaxRequests = 3
    MaxFalls = 1
INVARIANTS UpdatedProgramsRun NoneLeftBehind
PROPERTIES ClientsWaitForServers JobsEnd
CHECK_DEADLOCK FALSE
