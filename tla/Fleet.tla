------------------------------- MODULE Fleet --------------------------------
(***************************************************************************)
(* What acts on several instances at once in standalone mode: the start of *)
(* the container (standaloneBoot), the installation of a frp version       *)
(* (installFromArchive, one job at a time under updateMu), both starting   *)
(* frps before frpc through startServersFirst, and the stop of the         *)
(* container (handleShutdown).  They run beside the requests of operators  *)
(* and the restarts of the supervisor.                                     *)
(*                                                                         *)
(* The supervisor is taken here for what InstanceStatus promises (and      *)
(* Supervisor implements): a status per instance, changed by start, stop,  *)
(* the end of a program and its restart.  Instances are not deleted here.  *)
(***************************************************************************)
EXTENDS Naturals, FiniteSets

CONSTANTS
    Servers, Clients,   \* frps and frpc instances
    Jobs,               \* goroutines that install a version
    Autostart,          \* the instances to start with the container
    MaxShutdowns,       \* bound: ends of the container
    MaxJobs,            \* bound: installations begun
    MaxRequests,        \* bound: operator requests
    MaxFalls            \* bound: programs that end on their own

ASSUME FleetAssumption ==
    /\ MaxShutdowns \in Nat /\ MaxJobs \in Nat /\ MaxRequests \in Nat /\ MaxFalls \in Nat
    /\ Servers \cap Clients = {} /\ Autostart \subseteq Servers \cup Clients
    /\ {"boot", "operator", "supervisor", "shutdown", "none"} \cap Jobs = {}

VARIABLES
    status,      \* what the supervisor shows (see InstanceStatus)
    version,     \* the version the running process was launched from
    origin,      \* "update": launched by a job and not spoilt since; else "other"
    listening,   \* the frps that listen on their control port
    told,        \* the instances whose process has got a SIGTERM
    file,        \* the version of the installed programs
    lock,        \* the job that holds updateMu
    logRunning,  \* updateLog.running
    job, only, number, left, \* a job: its step, programs, version, what it has yet to do
    step, todo, cur,         \* startServersFirst: its step, the instances left, the one at hand
    started, waited, late,   \* the servers to wait for, the wait is done, its deadline passed
    silent,      \* servers a starter has started, that have neither listened nor ended since
    asked,       \* instances an operator has asked to start
    cut,         \* instances a job has stopped, that nobody has tried to start since
    phase,       \* of the panel: "up", "stopping" (after SIGTERM), "exited"
    toStop,      \* instances stopAllProcs has yet to stop
    jobs, requests, falls

Instances == Servers \cup Clients
Programs == {"frps", "frpc"}
ProgramOf(i) == IF i \in Servers THEN "frps" ELSE "frpc"
Starters == Jobs \cup {"boot"}

instVars == <<status, version, origin, listening, told, cut>>
jobVars == <<lock, logRunning, job, only, number, left, file>>
starterVars == <<step, todo, cur, started, waited, late>>
endVars == <<phase, toStop>>
bounds == <<jobs, requests, falls>>
vars == <<instVars, jobVars, starterVars, silent, asked, endVars, bounds>>

Running(i) == status[i] \in {"active", "stopping"}
Up == phase # "exited"

Init ==
    /\ status = [i \in Instances |-> "inactive"]
    /\ version = [i \in Instances |-> 0]
    /\ origin = [i \in Instances |-> "other"]
    /\ listening = {} /\ told = {}
    /\ file = [b \in Programs |-> 0]
    /\ lock = "none" /\ logRunning = FALSE
    /\ job = [j \in Jobs |-> "idle"] /\ only = [j \in Jobs |-> Programs]
    /\ number = [j \in Jobs |-> 0] /\ left = [j \in Jobs |-> {}]
    /\ step = [s \in Starters |-> "off"] /\ todo = [s \in Starters |-> {}]
    /\ cur = [s \in Starters |-> "none"]
    /\ started = [s \in Starters |-> {}]
    /\ waited = [s \in Starters |-> FALSE] /\ late = [s \in Starters |-> FALSE]
    /\ silent = [s \in Starters |-> {}]
    /\ asked = {}
    /\ cut = {}
    /\ phase = "up" /\ toStop = {}
    /\ jobs = 0 /\ requests = 0 /\ falls = 0

-----------------------------------------------------------------------------
(* The supervisor's operations on one instance.                            *)

\* p.start on an instance that runs: it is wanted (again), even if it is being stopped.
StartRunning(i) ==
    /\ Running(i)
    /\ status' = [status EXCEPT ![i] = "active"]
    /\ UNCHANGED <<version, origin, listening, told>>

\* p.start launches the program that is installed now ...
StartLaunch(i, who) ==
    /\ ~Running(i)
    /\ status' = [status EXCEPT ![i] = "active"]
    /\ version' = [version EXCEPT ![i] = file[ProgramOf(i)]]
    /\ origin' = [origin EXCEPT ![i] = IF who \in Jobs THEN "update" ELSE "other"]
    /\ UNCHANGED <<listening, told>>

\* ... or cannot launch it.
StartFails(i) == ~Running(i) /\ UNCHANGED <<status, version, origin, listening, told>>

\* p.stop up to its SIGTERM.
StopSent(i, who) ==
    /\ status' = [status EXCEPT ![i] = IF Running(i) THEN "stopping" ELSE "inactive"]
    /\ told' = IF Running(i) THEN told \cup {i} ELSE told
    /\ cut' = IF who \in Jobs /\ status[i] \in {"active", "activating"} THEN cut \cup {i} ELSE cut
    /\ UNCHANGED <<version, origin, listening>>

\* Nobody waits for the server i to listen any more: it does, or it has ended.
Heard(i) == silent' = [s \in Starters |-> silent[s] \ {i}]

\* A program ends: it was told to, or falls.  It is restarted if it is wanted.
Ends(i) ==
    /\ Up /\ Running(i)
    /\ \/ i \in told /\ UNCHANGED falls
       \/ i \notin told /\ falls < MaxFalls /\ falls' = falls + 1
    /\ status' = [status EXCEPT ![i] = IF @ = "stopping" THEN "inactive" ELSE "activating"]
    /\ listening' = listening \ {i}
    /\ told' = told \ {i}
    /\ Heard(i)
    /\ UNCHANGED <<version, origin, cut, jobVars, starterVars, asked, endVars,
                   jobs, requests>>

\* (Variant: a stop leaves the restart timer armed.)
RelaunchesStopped(i) ==
    /\ Up /\ status[i] \in {"activating", "inactive"}
    /\ \/ /\ StartLaunch(i, "supervisor")
       \/ /\ status' = [status EXCEPT ![i] = "inactive"]
          /\ UNCHANGED <<version, origin, listening, told>>
    /\ UNCHANGED <<cut, jobVars, starterVars, silent, asked, endVars, bounds>>

\* The restart of a fallen program, or its abandon.
Relaunches(i) ==
    /\ Up /\ status[i] = "activating"
    /\ \/ /\ StartLaunch(i, "supervisor")
       \/ /\ status' = [status EXCEPT ![i] = "inactive"]
          /\ UNCHANGED <<version, origin, listening, told>>
    /\ UNCHANGED <<cut, jobVars, starterVars, silent, asked, endVars, bounds>>

\* A frps is ready for its clients.
Listens(i) ==
    /\ Up /\ i \in Servers \ listening /\ Running(i)
    /\ listening' = listening \cup {i}
    /\ Heard(i)
    /\ UNCHANGED <<status, version, origin, told, cut, jobVars, starterVars, asked,
                   endVars, bounds>>

-----------------------------------------------------------------------------
(* startServersFirst, for a job and for the boot.                          *)

\* (Variant: the order of the list is not looked at.)
AnyOrder(ids) == ids

\* serversFirst: the instances that come next.
serversFirst(ids) == IF ids \cap Servers # {} THEN ids \cap Servers ELSE ids

Begin(s, ids) ==
    /\ step' = [step EXCEPT ![s] = "picking"]
    /\ todo' = [todo EXCEPT ![s] = ids]
    /\ UNCHANGED <<cur, started, waited, late, silent>>

\* The next instance is a frpc, the first one: the wait for the frps just started.
WaitBegins(s) ==
    /\ Up /\ step[s] = "picking" /\ ~waited[s]
    /\ \E i \in serversFirst(todo[s]) : i \in Clients
    /\ step' = [step EXCEPT ![s] = "waiting"]
    /\ waited' = [waited EXCEPT ![s] = TRUE]
    /\ UNCHANGED <<instVars, jobVars, todo, cur, started, late, silent, asked, endVars, bounds>>

Finishes(s) ==
    /\ Up /\ step[s] = "picking" /\ todo[s] = {}
    /\ step' = [step EXCEPT ![s] = "done"]
    /\ started' = [started EXCEPT ![s] = {}]
    /\ waited' = [waited EXCEPT ![s] = FALSE]
    /\ late' = [late EXCEPT ![s] = FALSE]
    /\ silent' = [silent EXCEPT ![s] = {}]
    /\ UNCHANGED <<instVars, jobVars, todo, cur, asked, endVars, bounds>>

\* The frps waitFrpsListening still waits for.
Pending(s) == {i \in started[s] : i \notin listening /\ Running(i)}

WaitEnds(s) ==
    /\ Up /\ step[s] = "waiting" /\ Pending(s) = {}
    /\ step' = [step EXCEPT ![s] = "picking"]
    /\ UNCHANGED <<instVars, jobVars, todo, cur, started, waited, late, silent, asked,
                   endVars, bounds>>

\* (Variant: the wait has no deadline.)
WaitsForEver(s) == FALSE /\ UNCHANGED vars

\* frpsReadyTimeout: "not listening yet, frpc started anyway".
WaitTimesOut(s) ==
    /\ Up /\ step[s] = "waiting" /\ Pending(s) # {}
    /\ step' = [step EXCEPT ![s] = "picking"]
    /\ late' = [late EXCEPT ![s] = TRUE]
    /\ UNCHANGED <<instVars, jobVars, todo, cur, started, waited, silent, asked, endVars, bounds>>

\* start(id): the program runs already, is launched and watched, or cannot be launched.
Starts(s) ==
    /\ Up /\ step[s] = "picking"
    /\ \E i \in serversFirst(todo[s]) :
          /\ i \in Clients => waited[s]
          /\ todo' = [todo EXCEPT ![s] = @ \ {i}]
          /\ cut' = cut \ {i}
          /\ \/ /\ StartRunning(i) \/ StartLaunch(i, s)
                /\ step' = [step EXCEPT ![s] = "observing"]
                /\ cur' = [cur EXCEPT ![s] = i]
                /\ silent' = [silent EXCEPT ![s] = @ \cup ({i} \cap (Servers \ listening))]
             \/ StartFails(i) /\ UNCHANGED <<step, cur, silent>>
    /\ UNCHANGED <<jobVars, started, waited, late, asked, endVars, bounds>>

\* start returns.  A server that is up is waited for, if its port is known.
Started(s) ==
    LET i == cur[s] IN
    /\ Up /\ step[s] = "observing"
    /\ step' = [step EXCEPT ![s] = "picking"]
    /\ cur' = [cur EXCEPT ![s] = "none"]
    /\ \/ /\ started' = [started EXCEPT ![s] = @ \cup ({i} \cap Servers)]
          /\ UNCHANGED silent
       \/ /\ i \notin silent[s] \cup listening   \* its process has ended: it stopped right away
          /\ UNCHANGED <<started, silent>>
       \/ /\ i \in Servers                \* its port is unknown
          /\ silent' = [silent EXCEPT ![s] = @ \ {i}]
          /\ UNCHANGED started
    /\ UNCHANGED <<instVars, jobVars, todo, waited, late, asked, endVars, bounds>>

StarterStep(s) ==
    WaitBegins(s) \/ Finishes(s) \/ WaitEnds(s) \/ WaitTimesOut(s) \/ Starts(s) \/ Started(s)

\* standaloneBoot: the instances of the "autostart" list, once.  It is a goroutine of its
\* own: requests are served, and updates begun, before it has read its list.
BootBegins ==
    /\ Up /\ step["boot"] = "off"
    /\ Autostart # {} /\ Begin("boot", Autostart)
    /\ UNCHANGED <<instVars, jobVars, asked, endVars, bounds>>

-----------------------------------------------------------------------------
(* The installation of a version of frp.                                   *)

\* updateMu.TryLock, updateLog.reset.  A second job is refused and changes nothing.
LockTaken(j, first) ==
    /\ Up /\ job[j] = "idle" /\ lock = "none"
    /\ jobs < MaxJobs /\ jobs' = jobs + 1
    /\ lock' = j /\ logRunning' = TRUE
    /\ job' = [job EXCEPT ![j] = first]
    /\ number' = [number EXCEPT ![j] = jobs + 1]
    /\ UNCHANGED <<instVars, left, file, starterVars, silent, asked, endVars, requests, falls>>

\* Installation or reinstallation: the job downloads the archive itself.
JobBegins(j) ==
    /\ LockTaken(j, "preparing")
    /\ \E bins \in SUBSET Programs : bins # {} /\ only' = [only EXCEPT ![j] = bins]

\* Upload: the handler holds updateMu while the archive comes in with the request ...
UploadBegins(j) == LockTaken(j, "receiving") /\ only' = only

\* ... and leaves it to a job once the archive is stored ...
UploadReceived(j) ==
    /\ Up /\ job[j] = "receiving"
    /\ job' = [job EXCEPT ![j] = "preparing"]
    /\ UNCHANGED <<instVars, lock, logRunning, only, number, left, file, starterVars, silent,
                   asked, endVars, bounds>>

\* ... or ends there: no file came, or it cannot be stored.
UploadRefused(j) ==
    /\ Up /\ job[j] = "receiving"
    /\ lock' = "none"
    /\ job' = [job EXCEPT ![j] = "idle"]
    /\ number' = [number EXCEPT ![j] = 0]
    /\ UNCHANGED <<instVars, logRunning, only, left, file, starterVars, silent,
                   asked, endVars, bounds>>

\* updateLog.finish, then updateMu.Unlock.
JobOver(j) ==
    /\ lock' = "none" /\ logRunning' = FALSE
    /\ job' = [job EXCEPT ![j] = "idle"]
    /\ only' = [only EXCEPT ![j] = Programs]
    /\ number' = [number EXCEPT ![j] = 0]

\* No version, no archive, or an archive without the programs: nothing was stopped.
PreparationFails(j) ==
    /\ Up /\ job[j] = "preparing"
    /\ JobOver(j)
    /\ UNCHANGED <<instVars, left, file, starterVars, silent, asked, endVars,
                   bounds>>

\* standaloneRunning: the instances to stop now and to start again at the end.
JobSnapshots(j) ==
    /\ Up /\ job[j] = "preparing"
    /\ LET running == {i \in Instances : Running(i) /\ ProgramOf(i) \in only[j]} IN
          /\ left' = [left EXCEPT ![j] = running]
          /\ todo' = [todo EXCEPT ![j] = running]
    /\ job' = [job EXCEPT ![j] = "stopping"]
    /\ UNCHANGED <<instVars, lock, logRunning, only, number, file, step, cur, started,
                   waited, late, silent, asked, endVars, bounds>>

\* (Variant: the instances are not stopped.)
JobStopsNothing(j) ==
    /\ Up /\ job[j] = "stopping"
    /\ \E i \in serversFirst(left[j]) : cur' = [cur EXCEPT ![j] = i]
    /\ job' = [job EXCEPT ![j] = "awaiting"]
    /\ UNCHANGED <<instVars, lock, logRunning, only, number, left, file, step, todo,
                   started, waited, late, silent, asked, endVars, bounds>>

\* stopRunningFrpServices stops them one after the other.
JobStops(j) ==
    /\ Up /\ job[j] = "stopping"
    /\ \E i \in serversFirst(left[j]) :
          StopSent(i, j) /\ cur' = [cur EXCEPT ![j] = i]
    /\ job' = [job EXCEPT ![j] = "awaiting"]
    /\ UNCHANGED <<lock, logRunning, only, number, left, file, step, todo, started, waited,
                   late, silent, asked, endVars, bounds>>

JobStopped(j) ==
    /\ Up /\ job[j] = "awaiting" /\ cur[j] \notin told
    /\ left' = [left EXCEPT ![j] = @ \ {cur[j]}]
    /\ cur' = [cur EXCEPT ![j] = "none"]
    /\ job' = [job EXCEPT ![j] = "stopping"]
    /\ UNCHANGED <<instVars, lock, logRunning, only, number, file, step, todo, started,
                   waited, late, silent, asked, endVars, bounds>>

\* The program does not stop: the job does not look at the result.
JobStopGivesUp(j) ==
    /\ Up /\ job[j] = "awaiting" /\ cur[j] \in told
    /\ left' = [left EXCEPT ![j] = @ \ {cur[j]}]
    /\ origin' = [origin EXCEPT ![cur[j]] = "other"]
    /\ cur' = [cur EXCEPT ![j] = "none"]
    /\ job' = [job EXCEPT ![j] = "stopping"]
    /\ UNCHANGED <<status, version, listening, told, cut, lock, logRunning, only,
                   number, file, step, todo, started, waited, late, silent, asked, endVars,
                   bounds>>

\* installFile for one program after the other.
JobReplaces(j) ==
    /\ Up /\ job[j] = "stopping" /\ left[j] = {}
    /\ \E b \in only[j] :
          /\ b = "frpc" => "frps" \notin only[j]
          /\ file' = [file EXCEPT ![b] = number[j]]
          /\ only' = [only EXCEPT ![j] = @ \ {b}]
    /\ UNCHANGED <<instVars, lock, logRunning, job, number, left, starterVars, silent, asked,
                   endVars, bounds>>

\* (Variant: the restart is not deferred, a failed installation returns at once.)
JobAborts(j) ==
    /\ Up /\ job[j] = "stopping" /\ left[j] = {}
    /\ IF only[j] = {}
       THEN /\ job' = [job EXCEPT ![j] = "restarting"]
            /\ Begin(j, todo[j])
            /\ UNCHANGED <<lock, logRunning, only, number>>
       ELSE JobOver(j) /\ UNCHANGED <<starterVars, silent>>
    /\ UNCHANGED <<instVars, left, file, asked, endVars, bounds>>

\* All programs are installed, or one could not be: the deferred restart in any case.
JobRestarts(j) ==
    /\ Up /\ job[j] = "stopping" /\ left[j] = {}
    /\ job' = [job EXCEPT ![j] = "restarting"]
    /\ Begin(j, todo[j])
    /\ UNCHANGED <<instVars, lock, logRunning, only, number, left, file, asked, endVars, bounds>>

JobEnds(j) ==
    /\ Up /\ job[j] = "restarting" /\ step[j] = "done"
    /\ JobOver(j)
    /\ step' = [step EXCEPT ![j] = "off"]
    /\ UNCHANGED <<instVars, left, file, todo, cur, started, waited, late, silent, asked,
                   endVars, bounds>>

\* The request of an upload: how fast its body comes is up to the client.
UploadStep(j) == UploadBegins(j) \/ UploadReceived(j) \/ UploadRefused(j)

JobStep(j) ==
    \/ PreparationFails(j) \/ JobSnapshots(j)
    \/ JobStops(j) \/ JobStopped(j) \/ JobStopGivesUp(j)
    \/ JobReplaces(j) \/ JobRestarts(j) \/ JobEnds(j)

-----------------------------------------------------------------------------
(* Operators, and the end of the container.                                *)

OperatorAsks(i) ==
    /\ Up /\ i \notin asked
    /\ requests < MaxRequests /\ requests' = requests + 1
    /\ asked' = asked \cup {i}
    /\ UNCHANGED <<instVars, jobVars, starterVars, silent, endVars, jobs, falls>>

OperatorStarts(i) ==
    /\ Up /\ i \in asked /\ asked' = asked \ {i}
    /\ cut' = cut \ {i}
    /\ StartRunning(i) \/ StartLaunch(i, "operator") \/ StartFails(i)
    /\ UNCHANGED <<jobVars, starterVars, silent, endVars, bounds>>

OperatorStops(i) ==
    /\ Up
    /\ requests < MaxRequests /\ requests' = requests + 1
    /\ StopSent(i, "operator")
    /\ UNCHANGED <<jobVars, starterVars, silent, asked, endVars, jobs, falls>>

\* SIGTERM or SIGINT: stopAllProcs lists the instances used so far ...
ShutdownBegins ==
    /\ MaxShutdowns > 0 /\ phase = "up" /\ phase' = "stopping"
    /\ \E known \in SUBSET Instances :
          {i \in Instances : status[i] # "inactive"} \subseteq known /\ toStop' = known
    /\ UNCHANGED <<instVars, jobVars, starterVars, silent, asked, bounds>>

\* ... stops each of them ...
ShutdownStops(i) ==
    /\ phase = "stopping" /\ i \in toStop
    /\ toStop' = toStop \ {i}
    /\ StopSent(i, "shutdown")
    /\ UNCHANGED <<jobVars, starterVars, silent, asked, phase, bounds>>

\* ... and the panel exits when the programs told to stop have ended.
ShutdownExits ==
    /\ phase = "stopping" /\ toStop = {} /\ told = {}
    /\ phase' = "exited"
    /\ UNCHANGED <<instVars, jobVars, starterVars, silent, asked, toStop, bounds>>

-----------------------------------------------------------------------------
Next ==
    \/ \E i \in Instances : \/ Ends(i) \/ Relaunches(i) \/ Listens(i)
                            \/ OperatorAsks(i) \/ OperatorStarts(i) \/ OperatorStops(i)
                            \/ ShutdownStops(i)
    \/ \E s \in Starters : StarterStep(s)
    \/ \E j \in Jobs : JobBegins(j) \/ UploadStep(j) \/ JobStep(j)
    \/ BootBegins \/ ShutdownBegins \/ ShutdownExits

\* Goroutines go on, a deadline passes (downloads have one), a program that is stopped
\* ends.  Nothing is assumed of UploadStep: the server sets no deadline for the body of a
\* request, so a client that stalls its upload keeps updateMu as long as it likes.
Fairness ==
    /\ \A i \in Instances : WF_vars(i \in told /\ Ends(i))
    /\ \A s \in Starters : WF_vars(StarterStep(s))
    /\ \A j \in Jobs : WF_vars(JobStep(j))
    /\ \A i \in Instances : WF_vars(ShutdownStops(i))
    /\ WF_vars(ShutdownExits)

Spec == Init /\ [][Next]_vars
FairSpec == Spec /\ Fairness

-----------------------------------------------------------------------------
(* Properties.                                                             *)

\* Every variable keeps its type.
TypeOK ==
    /\ status \in [Instances -> {"inactive", "active", "stopping", "activating"}]
    /\ version \in [Instances -> 0..MaxJobs]
    /\ origin \in [Instances -> {"update", "other"}]
    /\ listening \in SUBSET Servers
    /\ told \in SUBSET Instances /\ \A i \in listening \cup told : Running(i)
    /\ file \in [Programs -> 0..MaxJobs]
    /\ lock \in Jobs \cup {"none"} /\ logRunning \in BOOLEAN
    /\ job \in [Jobs -> {"idle", "receiving", "preparing", "stopping", "awaiting", "restarting"}]
    /\ only \in [Jobs -> SUBSET Programs] /\ number \in [Jobs -> 0..MaxJobs]
    /\ left \in [Jobs -> SUBSET Instances]
    /\ step \in [Starters -> {"off", "picking", "waiting", "observing", "done"}]
    /\ todo \in [Starters -> SUBSET Instances] /\ cur \in [Starters -> Instances \cup {"none"}]
    /\ started \in [Starters -> SUBSET Servers] /\ silent \in [Starters -> SUBSET Servers]
    /\ waited \in [Starters -> BOOLEAN] /\ late \in [Starters -> BOOLEAN]
    /\ asked \in SUBSET Instances
    /\ cut \in SUBSET Instances
    /\ phase \in {"up", "stopping", "exited"} /\ toStop \in SUBSET Instances
    /\ jobs \in Nat /\ requests \in Nat /\ falls \in Nat

\* A frpc is started only when every frps the same list starts has been tried, and
\* listens or has ended since, unless the deadline of the wait has passed.
ClientsWaitForServers ==
    [][\A s \in Starters :
          step[s] = "picking" /\ todo'[s] # todo[s] /\ todo[s] \ todo'[s] \subseteq Clients
             => todo[s] \cap Servers = {} /\ (late[s] \/ silent[s] = {})]_vars

\* A process that a job launched always runs the version that is installed: a later job
\* replaces the program only after it has stopped it, whatever starts, stops, falls and
\* restarts come between.
UpdatedProgramsRun ==
    \A i \in Instances :
        Running(i) /\ origin[i] = "update" => version[i] = file[ProgramOf(i)]

\* An instance a job has stopped, and that nobody has tried to start since, is on the
\* list of the job that holds updateMu: a job never ends, fails or is overtaken by another
\* with programs down that no list names.  (What StoppedByUpdateIsStarted rests on; with
\* updateMu free it says that every program an update has stopped was started.)
NoneLeftBehind == \A i \in cut : \E j \in Jobs : lock = j /\ i \in todo[j]

\* Whatever step of a job fails, the instances it stopped are started again.
StoppedByUpdateIsStarted ==
    \A i \in Instances :
        i \in cut ~> i \notin cut \/ phase # "up"

\* A job that has, or fetches, its archive.
Installing == \E j \in Jobs : lock = j /\ job[j] # "receiving"

\* Such a job ends and gives updateMu back, even if no frps ever listens and no program ever
\* obeys, with operators, falls and other uploads in between.  (An upload whose archive is
\* still to come is not held to it: see Fairness.)
JobsEnd == Installing ~> ~Installing \/ phase # "up"

\* One instance, seen as InstanceStatus promises: the orders to start it are those of
\* an operator, of the boot and of the job that found it running.
Promise(i) == INSTANCE InstanceStatus WITH
    Procs <- {i},
    Threads <- Starters \cup {"operator"},
    status <- [p \in {i} |-> status[p]],
    orders <- [p \in {i} |-> {s \in Starters : p \in todo[s]}
                             \cup (IF p \in asked THEN {"operator"} ELSE {})]

\* A stopped instance runs again only because one of them orders it.
KeepsStatusPromise ==
    /\ \A i \in Instances : Promise(i)!Init
    /\ [][\A i \in Instances : [Promise(i)!Next]_(Promise(i)!vars)]_vars

\* "running: task in progress (reset -> finish)": the log of updates is running only
\* while a job holds updateMu.  (An upload that is refused breaks this.)
RunningMeansJob == logRunning => lock # "none"

\* "frps and frpc are stopped cleanly before the panel exits."  (A start that comes
\* after the stop of its instance breaks this.)
ExitsWithNothingRunning == phase = "exited" => \A i \in Instances : ~Running(i)
=============================================================================
