SPECIFICATION FairSpec
CONSTANTS
    Procs = {frps}
    Threads = {t1, t2}
    MaxRequests = 4
INVARIANTS TypeOK OneProcess StopsReachTheirProcess
PROPERTIES RestartOnlyLostByFailedStart KeepsStatusPromise StoppedInstanceEnds FallenInstanceRestarts
