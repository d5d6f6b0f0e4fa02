SPECIFICATION Spec
CONSTANTS
    Procs = {frps}
    Threads = {t1}
    MaxRequests = 2
INVARIANT ActivatingHasRestart
