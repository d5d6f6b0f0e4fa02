SPECIFICATION Spec
CONSTANTS
    Servers = {frps}
    Clients = {frpc}
    Jobs = {j1}
    Autostart = {frps, frpc}
    MaxShutdowns = 1
    MaxJobs = 1
    MaxRequests = 0
    MaxFalls = 1
PROPERTY KeepsStatusPromise
CHECK_DEADLOCK FALSE
