SPECIFICATION Spec
CONSTANTS
    Servers = {frps}
    Clients = {frpc}
    Jobs = {j1}
    Autostart = {frps, frpc}
    MaxShutdowns = 1
    MaxJobs = 1
    MaxRequests = 1
    MaxFalls = 1
INVARIANT ExitsWithNothingRunning
CHECK_DEADLOCK FALSE
