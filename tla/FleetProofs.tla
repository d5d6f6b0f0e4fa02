----------------------------- MODULE FleetProofs -----------------------------
(***************************************************************************)
(* Proofs about Fleet.tla, for any instances, any number of jobs,          *)
(* operators, falls and ends of the container: what an update launched     *)
(* runs the installed version, frps come before frpc, what an update       *)
(* stopped is not left behind, and each instance is seen as InstanceStatus *)
(* promises.                                                               *)
(***************************************************************************)
EXTENDS Fleet, TLAPS

-----------------------------------------------------------------------------
(* The inductive invariant.                                                *)

\* updateMu: only its holder works, and it starts instances at the end only.
OneJob ==
    \A j \in Jobs : /\ job[j] # "idle" => lock = j
                    /\ step[j] # "off" => job[j] = "restarting"

\* While a job stops the programs it replaces, those an earlier job launched are still
\* on its list; the one at hand has been told to stop, and leaves the list when it ends.
StillToStop ==
    \A j \in Jobs, i \in Instances :
        job[j] \in {"stopping", "awaiting"} /\ Running(i) /\ origin[i] = "update" /\ ProgramOf(i) \in only[j]
           => i \in left[j] /\ (job[j] = "awaiting" /\ cur[j] = i => i \in told)

\* A server that is silent runs, does not listen, and is waited for (or about to be);
\* after the wait no server is left to start, and none is silent before the deadline.
SilentAreWaitedFor ==
    \A s \in Starters :
        /\ \A i \in silent[s] : Running(i) /\ i \notin listening
        /\ step[s] \in {"off", "done"} => silent[s] = {} /\ ~waited[s]
        /\ \A i \in silent[s] : i \in started[s] \/ (step[s] = "observing" /\ i = cur[s])
        /\ waited[s] => todo[s] \cap Servers = {}
        /\ waited[s] /\ step[s] # "waiting" /\ ~late[s] => silent[s] = {}

IInv == TypeOK /\ OneJob /\ UpdatedProgramsRun /\ StillToStop /\ SilentAreWaitedFor

USE DEF vars, instVars, jobVars, starterVars, endVars, bounds

LEMMA InitIInv == Init => IInv
<1> SUFFICES ASSUME Init PROVE IInv
  OBVIOUS
<1>1. TypeOK
  <2>1. /\ version \in [Instances -> 0..MaxJobs] /\ file \in [Programs -> 0..MaxJobs]
        /\ number \in [Jobs -> 0..MaxJobs]
    BY FleetAssumption DEF Init
  <2>2. /\ job \in [Jobs -> {"idle", "receiving", "preparing", "stopping", "awaiting", "restarting"}]
        /\ only \in [Jobs -> SUBSET Programs] /\ left \in [Jobs -> SUBSET Instances]
        /\ lock \in Jobs \cup {"none"} /\ logRunning \in BOOLEAN
    BY DEF Init
  <2>3. /\ step \in [Starters -> {"off", "picking", "waiting", "observing", "done"}]
        /\ todo \in [Starters -> SUBSET Instances] /\ cur \in [Starters -> Instances \cup {"none"}]
        /\ started \in [Starters -> SUBSET Servers] /\ silent \in [Starters -> SUBSET Servers]
        /\ waited \in [Starters -> BOOLEAN] /\ late \in [Starters -> BOOLEAN]
    BY DEF Init
  <2>4. /\ status \in [Instances -> {"inactive", "active", "stopping", "activating"}]
        /\ origin \in [Instances -> {"update", "other"}]
        /\ listening = {} /\ told = {} /\ asked = {} /\ cut = {} /\ phase = "up" /\ toStop = {}
        /\ jobs = 0 /\ requests = 0 /\ falls = 0
    BY DEF Init
  <2> QED
    BY <2>1, <2>2, <2>3, <2>4 DEF TypeOK
<1>2. OneJob /\ SilentAreWaitedFor
  BY DEF Init, OneJob, SilentAreWaitedFor, Starters
<1>3. UpdatedProgramsRun /\ StillToStop
  <2>1. (\A i \in Instances : ~Running(i)) /\ \A j \in Jobs : job[j] = "idle"
    BY DEF Init, Running
  <2> QED
    BY <2>1 DEF UpdatedProgramsRun, StillToStop
<1> QED
  BY <1>1, <1>2, <1>3 DEF IInv

-----------------------------------------------------------------------------
\* Every step keeps the types.
LEMMA StepTypes == IInv /\ [Next]_vars => TypeOK'
<1> SUFFICES ASSUME IInv, [Next]_vars
             PROVE  TypeOK'
  OBVIOUS
<1> USE DEF IInv, ProgramOf, TypeOK, Running, Instances, Programs, Starters, Up
<1>1. ASSUME NEW i \in Instances, Ends(i) PROVE TypeOK'
  BY <1>1, FleetAssumption DEF Ends, Heard
<1>2. ASSUME NEW i \in Instances, Relaunches(i) PROVE TypeOK'
  BY <1>2, FleetAssumption DEF Relaunches, StartLaunch
<1>3. ASSUME NEW i \in Instances, Listens(i) PROVE TypeOK'
  BY <1>3, FleetAssumption DEF Listens, Heard
<1>4. ASSUME NEW i \in Instances, OperatorAsks(i) PROVE TypeOK'
  BY <1>4, FleetAssumption DEF OperatorAsks
<1>5. ASSUME NEW i \in Instances, OperatorStarts(i) PROVE TypeOK'
  BY <1>5, FleetAssumption DEF OperatorStarts, StartRunning, StartLaunch, StartFails
<1>6. ASSUME NEW i \in Instances, OperatorStops(i) PROVE TypeOK'
  BY <1>6, FleetAssumption DEF OperatorStops, StopSent
<1>7. ASSUME NEW i \in Instances, ShutdownStops(i) PROVE TypeOK'
  BY <1>7, FleetAssumption DEF ShutdownStops, StopSent
<1>8. ASSUME NEW s \in Starters, WaitBegins(s) PROVE TypeOK'
  BY <1>8, FleetAssumption DEF WaitBegins, serversFirst
<1>9. ASSUME NEW s \in Starters, Finishes(s) PROVE TypeOK'
  BY <1>9, FleetAssumption DEF Finishes
<1>10. ASSUME NEW s \in Starters, WaitEnds(s) PROVE TypeOK'
  BY <1>10, FleetAssumption DEF WaitEnds, Pending
<1>11. ASSUME NEW s \in Starters, WaitTimesOut(s) PROVE TypeOK'
  BY <1>11, FleetAssumption DEF WaitTimesOut, Pending
<1>12. ASSUME NEW s \in Starters, Starts(s) PROVE TypeOK'
  BY <1>12, FleetAssumption DEF Starts, StartRunning, StartLaunch, StartFails, serversFirst
<1>13. ASSUME NEW s \in Starters, Started(s) PROVE TypeOK'
  BY <1>13, FleetAssumption DEF Started
<1>14. ASSUME NEW j \in Jobs, JobBegins(j) PROVE TypeOK'
  BY <1>14, FleetAssumption DEF JobBegins, LockTaken
<1>15. ASSUME NEW j \in Jobs, UploadStep(j) PROVE TypeOK'
  <2>1. CASE UploadBegins(j)
    BY <2>1, FleetAssumption DEF UploadBegins, LockTaken
  <2>2. CASE UploadReceived(j)
    BY <2>2, FleetAssumption DEF UploadReceived
  <2>3. CASE UploadRefused(j)
    BY <2>3, FleetAssumption DEF UploadRefused
  <2> QED
    BY <1>15, <2>1, <2>2, <2>3 DEF UploadStep
<1>16. ASSUME NEW j \in Jobs, PreparationFails(j) PROVE TypeOK'
  <2>1. JobOver(j) /\ UNCHANGED <<instVars, left, file, todo, cur, started, waited, late, asked, endVars, bounds>>
    BY <1>16 DEF PreparationFails
  <2>2. /\ lock' \in Jobs \cup {"none"} /\ logRunning' \in BOOLEAN
        /\ job' \in [Jobs -> {"idle", "receiving", "preparing", "stopping", "awaiting", "restarting"}]
        /\ only' \in [Jobs -> SUBSET Programs]
    BY <2>1 DEF JobOver
  <2>3. number' \in [Jobs -> 0..MaxJobs]
    BY <2>1, FleetAssumption DEF JobOver
  <2>4. /\ step' \in [Starters -> {"off", "picking", "waiting", "observing", "done"}]
        /\ silent' \in [Starters -> SUBSET Servers]
    BY <1>16 DEF PreparationFails
  <2> QED
    BY <2>1, <2>2, <2>3, <2>4
<1>17. ASSUME NEW j \in Jobs, JobSnapshots(j) PROVE TypeOK'
  BY <1>17, FleetAssumption DEF JobSnapshots
<1>18. ASSUME NEW j \in Jobs, JobStops(j) PROVE TypeOK'
  BY <1>18, FleetAssumption DEF JobStops, StopSent, serversFirst
<1>19. ASSUME NEW j \in Jobs, JobStopped(j) PROVE TypeOK'
  BY <1>19, FleetAssumption DEF JobStopped
<1>20. ASSUME NEW j \in Jobs, JobStopGivesUp(j) PROVE TypeOK'
  BY <1>20, FleetAssumption DEF JobStopGivesUp
<1>21. ASSUME NEW j \in Jobs, JobReplaces(j) PROVE TypeOK'
  BY <1>21, FleetAssumption DEF JobReplaces
<1>22. ASSUME NEW j \in Jobs, JobRestarts(j) PROVE TypeOK'
  BY <1>22, FleetAssumption DEF JobRestarts, Begin
<1>23. ASSUME NEW j \in Jobs, JobEnds(j) PROVE TypeOK'
  <2>1. JobOver(j) /\ UNCHANGED <<instVars, left, file, todo, cur, started, waited, late, asked, endVars, bounds>>
    BY <1>23 DEF JobEnds
  <2>2. /\ lock' \in Jobs \cup {"none"} /\ logRunning' \in BOOLEAN
        /\ job' \in [Jobs -> {"idle", "receiving", "preparing", "stopping", "awaiting", "restarting"}]
        /\ only' \in [Jobs -> SUBSET Programs]
    BY <2>1 DEF JobOver
  <2>3. number' \in [Jobs -> 0..MaxJobs]
    BY <2>1, FleetAssumption DEF JobOver
  <2>4. /\ step' \in [Starters -> {"off", "picking", "waiting", "observing", "done"}]
        /\ silent' \in [Starters -> SUBSET Servers]
    BY <1>23 DEF JobEnds
  <2> QED
    BY <2>1, <2>2, <2>3, <2>4
<1>24. CASE BootBegins
  BY <1>24, FleetAssumption DEF BootBegins, Begin
<1>25. CASE ShutdownBegins
  BY <1>25, FleetAssumption DEF ShutdownBegins
<1>26. CASE ShutdownExits
  BY <1>26, FleetAssumption DEF ShutdownExits
<1>27. CASE UNCHANGED vars
  BY <1>27
<1> QED
  BY <1>1, <1>2, <1>3, <1>4, <1>5, <1>6, <1>7, <1>8, <1>9, <1>10, <1>11, <1>12, <1>13, <1>14, <1>15, <1>16, <1>17, <1>18, <1>19, <1>20, <1>21, <1>22, <1>23, <1>24, <1>25, <1>26, <1>27 DEF Next, StarterStep, JobStep

\* Every step keeps one job at work.
LEMMA StepJobs == IInv /\ [Next]_vars => OneJob'
<1> SUFFICES ASSUME IInv, [Next]_vars
             PROVE  OneJob'
  OBVIOUS
<1> USE DEF IInv, TypeOK, OneJob, Starters
<1>1. ASSUME NEW i \in Instances, Ends(i) PROVE OneJob'
  BY <1>1, FleetAssumption DEF Ends, Heard
<1>2. ASSUME NEW i \in Instances, Relaunches(i) PROVE OneJob'
  BY <1>2, FleetAssumption DEF Relaunches, StartLaunch
<1>3. ASSUME NEW i \in Instances, Listens(i) PROVE OneJob'
  BY <1>3, FleetAssumption DEF Listens, Heard
<1>4. ASSUME NEW i \in Instances, OperatorAsks(i) PROVE OneJob'
  BY <1>4, FleetAssumption DEF OperatorAsks
<1>5. ASSUME NEW i \in Instances, OperatorStarts(i) PROVE OneJob'
  BY <1>5, FleetAssumption DEF OperatorStarts, StartRunning, StartLaunch, StartFails
<1>6. ASSUME NEW i \in Instances, OperatorStops(i) PROVE OneJob'
  BY <1>6, FleetAssumption DEF OperatorStops, StopSent
<1>7. ASSUME NEW i \in Instances, ShutdownStops(i) PROVE OneJob'
  BY <1>7, FleetAssumption DEF ShutdownStops, StopSent
<1>8. ASSUME NEW s \in Starters, WaitBegins(s) PROVE OneJob'
  BY <1>8, FleetAssumption DEF WaitBegins, serversFirst
<1>9. ASSUME NEW s \in Starters, Finishes(s) PROVE OneJob'
  BY <1>9, FleetAssumption DEF Finishes
<1>10. ASSUME NEW s \in Starters, WaitEnds(s) PROVE OneJob'
  BY <1>10, FleetAssumption DEF WaitEnds, Pending
<1>11. ASSUME NEW s \in Starters, WaitTimesOut(s) PROVE OneJob'
  BY <1>11, FleetAssumption DEF WaitTimesOut, Pending
<1>12. ASSUME NEW s \in Starters, Starts(s) PROVE OneJob'
  BY <1>12, FleetAssumption DEF Starts, StartRunning, StartLaunch, StartFails, serversFirst
<1>13. ASSUME NEW s \in Starters, Started(s) PROVE OneJob'
  BY <1>13, FleetAssumption DEF Started
<1>14. ASSUME NEW j \in Jobs, JobBegins(j) PROVE OneJob'
  BY <1>14, FleetAssumption DEF JobBegins, LockTaken
<1>15. ASSUME NEW j \in Jobs, UploadStep(j) PROVE OneJob'
  BY <1>15, FleetAssumption DEF UploadStep, UploadBegins, UploadReceived, UploadRefused, LockTaken
<1>16. ASSUME NEW j \in Jobs, PreparationFails(j) PROVE OneJob'
  BY <1>16, FleetAssumption DEF PreparationFails, JobOver
<1>17. ASSUME NEW j \in Jobs, JobSnapshots(j) PROVE OneJob'
  BY <1>17, FleetAssumption DEF JobSnapshots
<1>18. ASSUME NEW j \in Jobs, JobStops(j) PROVE OneJob'
  BY <1>18, FleetAssumption DEF JobStops, StopSent, serversFirst
<1>19. ASSUME NEW j \in Jobs, JobStopped(j) PROVE OneJob'
  BY <1>19, FleetAssumption DEF JobStopped
<1>20. ASSUME NEW j \in Jobs, JobStopGivesUp(j) PROVE OneJob'
  BY <1>20, FleetAssumption DEF JobStopGivesUp
<1>21. ASSUME NEW j \in Jobs, JobReplaces(j) PROVE OneJob'
  BY <1>21, FleetAssumption DEF JobReplaces
<1>22. ASSUME NEW j \in Jobs, JobRestarts(j) PROVE OneJob'
  BY <1>22, FleetAssumption DEF JobRestarts, Begin
<1>23. ASSUME NEW j \in Jobs, JobEnds(j) PROVE OneJob'
  BY <1>23, FleetAssumption DEF JobEnds, JobOver
<1>24. CASE BootBegins
  BY <1>24, FleetAssumption DEF BootBegins, Begin
<1>25. CASE ShutdownBegins
  BY <1>25, FleetAssumption DEF ShutdownBegins
<1>26. CASE ShutdownExits
  BY <1>26, FleetAssumption DEF ShutdownExits
<1>27. CASE UNCHANGED vars
  BY <1>27
<1> QED
  BY <1>1, <1>2, <1>3, <1>4, <1>5, <1>6, <1>7, <1>8, <1>9, <1>10, <1>11, <1>12, <1>13, <1>14, <1>15, <1>16, <1>17, <1>18, <1>19, <1>20, <1>21, <1>22, <1>23, <1>24, <1>25, <1>26, <1>27 DEF Next, StarterStep, JobStep

\* What a job launched is stopped before its program is replaced.
LEMMA StepUpdates == IInv /\ [Next]_vars => UpdatedProgramsRun' /\ StillToStop'
<1> SUFFICES ASSUME IInv, [Next]_vars
             PROVE  UpdatedProgramsRun' /\ StillToStop'
  OBVIOUS
<1> USE DEF IInv, OneJob, UpdatedProgramsRun, StillToStop, ProgramOf, TypeOK, Running, Instances, Programs, Starters, Up
<1>1. ASSUME NEW i \in Instances, Ends(i) PROVE UpdatedProgramsRun' /\ StillToStop'
  BY <1>1, FleetAssumption DEF Ends, Heard
<1>2. ASSUME NEW i \in Instances, Relaunches(i) PROVE UpdatedProgramsRun' /\ StillToStop'
  <2>1. CASE StartLaunch(i, "supervisor")
    BY <1>2, <2>1, FleetAssumption DEF Relaunches, StartLaunch
  <2>2. CASE status' = [status EXCEPT ![i] = "inactive"] /\ UNCHANGED <<version, origin, listening, told>>
    BY <1>2, <2>2, FleetAssumption DEF Relaunches
  <2> QED
    BY <1>2, <2>1, <2>2 DEF Relaunches
<1>3. ASSUME NEW i \in Instances, Listens(i) PROVE UpdatedProgramsRun' /\ StillToStop'
  BY <1>3, FleetAssumption DEF Listens, Heard
<1>4. ASSUME NEW i \in Instances, OperatorAsks(i) PROVE UpdatedProgramsRun' /\ StillToStop'
  BY <1>4, FleetAssumption DEF OperatorAsks
<1>5. ASSUME NEW i \in Instances, OperatorStarts(i) PROVE UpdatedProgramsRun' /\ StillToStop'
  BY <1>5, FleetAssumption DEF OperatorStarts, StartRunning, StartLaunch, StartFails
<1>6. ASSUME NEW i \in Instances, OperatorStops(i) PROVE UpdatedProgramsRun' /\ StillToStop'
  BY <1>6, FleetAssumption DEF OperatorStops, StopSent
<1>7. ASSUME NEW i \in Instances, ShutdownStops(i) PROVE UpdatedProgramsRun' /\ StillToStop'
  BY <1>7, FleetAssumption DEF ShutdownStops, StopSent
<1>8. ASSUME NEW s \in Starters, WaitBegins(s) PROVE UpdatedProgramsRun' /\ StillToStop'
  BY <1>8, FleetAssumption DEF WaitBegins, serversFirst
<1>9. ASSUME NEW s \in Starters, Finishes(s) PROVE UpdatedProgramsRun' /\ StillToStop'
  BY <1>9, FleetAssumption DEF Finishes
<1>10. ASSUME NEW s \in Starters, WaitEnds(s) PROVE UpdatedProgramsRun' /\ StillToStop'
  BY <1>10, FleetAssumption DEF WaitEnds, Pending
<1>11. ASSUME NEW s \in Starters, WaitTimesOut(s) PROVE UpdatedProgramsRun' /\ StillToStop'
  BY <1>11, FleetAssumption DEF WaitTimesOut, Pending
<1>12. ASSUME NEW s \in Starters, Starts(s) PROVE UpdatedProgramsRun' /\ StillToStop'
  BY <1>12, FleetAssumption DEF Starts, StartRunning, StartLaunch, StartFails, serversFirst
<1>13. ASSUME NEW s \in Starters, Started(s) PROVE UpdatedProgramsRun' /\ StillToStop'
  BY <1>13, FleetAssumption DEF Started
<1>14. ASSUME NEW j \in Jobs, JobBegins(j) PROVE UpdatedProgramsRun' /\ StillToStop'
  BY <1>14, FleetAssumption DEF JobBegins, LockTaken
<1>15. ASSUME NEW j \in Jobs, UploadStep(j) PROVE UpdatedProgramsRun' /\ StillToStop'
  BY <1>15, FleetAssumption DEF UploadStep, UploadBegins, UploadReceived, UploadRefused, LockTaken
<1>16. ASSUME NEW j \in Jobs, PreparationFails(j) PROVE UpdatedProgramsRun' /\ StillToStop'
  BY <1>16, FleetAssumption DEF PreparationFails, JobOver
<1>17. ASSUME NEW j \in Jobs, JobSnapshots(j) PROVE UpdatedProgramsRun' /\ StillToStop'
  BY <1>17, FleetAssumption DEF JobSnapshots
<1>18. ASSUME NEW j \in Jobs, JobStops(j) PROVE UpdatedProgramsRun' /\ StillToStop'
  BY <1>18, FleetAssumption DEF JobStops, StopSent, serversFirst
<1>19. ASSUME NEW j \in Jobs, JobStopped(j) PROVE UpdatedProgramsRun' /\ StillToStop'
  BY <1>19, FleetAssumption DEF JobStopped
<1>20. ASSUME NEW j \in Jobs, JobStopGivesUp(j) PROVE UpdatedProgramsRun' /\ StillToStop'
  BY <1>20, FleetAssumption DEF JobStopGivesUp
<1>21. ASSUME NEW j \in Jobs, JobReplaces(j) PROVE UpdatedProgramsRun' /\ StillToStop'
  BY <1>21, FleetAssumption DEF JobReplaces
<1>22. ASSUME NEW j \in Jobs, JobRestarts(j) PROVE UpdatedProgramsRun' /\ StillToStop'
  <2>1. UNCHANGED <<status, version, origin, told, file, only, left, cur>> /\ job' = [job EXCEPT ![j] = "restarting"]
    BY <1>22 DEF JobRestarts, Begin
  <2>2. UpdatedProgramsRun'
    BY <2>1
  <2>3. \A k \in Jobs : job'[k] \in {"idle", "receiving", "preparing", "restarting"}
    BY <1>22, <2>1 DEF JobRestarts
  <2>4. StillToStop'
    BY <2>3
  <2> QED
    BY <2>2, <2>4
<1>23. ASSUME NEW j \in Jobs, JobEnds(j) PROVE UpdatedProgramsRun' /\ StillToStop'
  BY <1>23, FleetAssumption DEF JobEnds, JobOver
<1>24. CASE BootBegins
  BY <1>24, FleetAssumption DEF BootBegins, Begin
<1>25. CASE ShutdownBegins
  BY <1>25, FleetAssumption DEF ShutdownBegins
<1>26. CASE ShutdownExits
  BY <1>26, FleetAssumption DEF ShutdownExits
<1>27. CASE UNCHANGED vars
  BY <1>27
<1> QED
  BY <1>1, <1>2, <1>3, <1>4, <1>5, <1>6, <1>7, <1>8, <1>9, <1>10, <1>11, <1>12, <1>13, <1>14, <1>15, <1>16, <1>17, <1>18, <1>19, <1>20, <1>21, <1>22, <1>23, <1>24, <1>25, <1>26, <1>27 DEF Next, StarterStep, JobStep

\* Servers are started and waited for first.
LEMMA StepSilent == IInv /\ [Next]_vars => SilentAreWaitedFor'
<1> SUFFICES ASSUME IInv, [Next]_vars
             PROVE  SilentAreWaitedFor'
  OBVIOUS
<1> USE DEF IInv, OneJob, SilentAreWaitedFor, TypeOK, Running, Instances, Programs, Starters, Up
<1>1. ASSUME NEW i \in Instances, Ends(i) PROVE SilentAreWaitedFor'
  BY <1>1, FleetAssumption DEF Ends, Heard
<1>2. ASSUME NEW i \in Instances, Relaunches(i) PROVE SilentAreWaitedFor'
  BY <1>2, FleetAssumption DEF Relaunches, StartLaunch
<1>3. ASSUME NEW i \in Instances, Listens(i) PROVE SilentAreWaitedFor'
  BY <1>3, FleetAssumption DEF Listens, Heard
<1>4. ASSUME NEW i \in Instances, OperatorAsks(i) PROVE SilentAreWaitedFor'
  BY <1>4, FleetAssumption DEF OperatorAsks
<1>5. ASSUME NEW i \in Instances, OperatorStarts(i) PROVE SilentAreWaitedFor'
  BY <1>5, FleetAssumption DEF OperatorStarts, StartRunning, StartLaunch, StartFails
<1>6. ASSUME NEW i \in Instances, OperatorStops(i) PROVE SilentAreWaitedFor'
  BY <1>6, FleetAssumption DEF OperatorStops, StopSent
<1>7. ASSUME NEW i \in Instances, ShutdownStops(i) PROVE SilentAreWaitedFor'
  BY <1>7, FleetAssumption DEF ShutdownStops, StopSent
<1>8. ASSUME NEW s \in Starters, WaitBegins(s) PROVE SilentAreWaitedFor'
  BY <1>8, FleetAssumption DEF WaitBegins, serversFirst
<1>9. ASSUME NEW s \in Starters, Finishes(s) PROVE SilentAreWaitedFor'
  BY <1>9, FleetAssumption DEF Finishes
<1>10. ASSUME NEW s \in Starters, WaitEnds(s) PROVE SilentAreWaitedFor'
  BY <1>10, FleetAssumption DEF WaitEnds, Pending
<1>11. ASSUME NEW s \in Starters, WaitTimesOut(s) PROVE SilentAreWaitedFor'
  BY <1>11, FleetAssumption DEF WaitTimesOut, Pending
<1>12. ASSUME NEW s \in Starters, Starts(s) PROVE SilentAreWaitedFor'
  BY <1>12, FleetAssumption DEF Starts, StartRunning, StartLaunch, StartFails, serversFirst
<1>13. ASSUME NEW s \in Starters, Started(s) PROVE SilentAreWaitedFor'
  BY <1>13, FleetAssumption DEF Started
<1>14. ASSUME NEW j \in Jobs, JobBegins(j) PROVE SilentAreWaitedFor'
  BY <1>14, FleetAssumption DEF JobBegins, LockTaken
<1>15. ASSUME NEW j \in Jobs, UploadStep(j) PROVE SilentAreWaitedFor'
  BY <1>15, FleetAssumption DEF UploadStep, UploadBegins, UploadReceived, UploadRefused, LockTaken
<1>16. ASSUME NEW j \in Jobs, PreparationFails(j) PROVE SilentAreWaitedFor'
  BY <1>16, FleetAssumption DEF PreparationFails, JobOver
<1>17. ASSUME NEW j \in Jobs, JobSnapshots(j) PROVE SilentAreWaitedFor'
  BY <1>17, FleetAssumption DEF JobSnapshots
<1>18. ASSUME NEW j \in Jobs, JobStops(j) PROVE SilentAreWaitedFor'
  BY <1>18, FleetAssumption DEF JobStops, StopSent, serversFirst
<1>19. ASSUME NEW j \in Jobs, JobStopped(j) PROVE SilentAreWaitedFor'
  BY <1>19, FleetAssumption DEF JobStopped
<1>20. ASSUME NEW j \in Jobs, JobStopGivesUp(j) PROVE SilentAreWaitedFor'
  BY <1>20, FleetAssumption DEF JobStopGivesUp
<1>21. ASSUME NEW j \in Jobs, JobReplaces(j) PROVE SilentAreWaitedFor'
  BY <1>21, FleetAssumption DEF JobReplaces
<1>22. ASSUME NEW j \in Jobs, JobRestarts(j) PROVE SilentAreWaitedFor'
  BY <1>22, FleetAssumption DEF JobRestarts, Begin
<1>23. ASSUME NEW j \in Jobs, JobEnds(j) PROVE SilentAreWaitedFor'
  BY <1>23, FleetAssumption DEF JobEnds, JobOver
<1>24. CASE BootBegins
  BY <1>24, FleetAssumption DEF BootBegins, Begin
<1>25. CASE ShutdownBegins
  BY <1>25, FleetAssumption DEF ShutdownBegins
<1>26. CASE ShutdownExits
  BY <1>26, FleetAssumption DEF ShutdownExits
<1>27. CASE UNCHANGED vars
  BY <1>27
<1> QED
  BY <1>1, <1>2, <1>3, <1>4, <1>5, <1>6, <1>7, <1>8, <1>9, <1>10, <1>11, <1>12, <1>13, <1>14, <1>15, <1>16, <1>17, <1>18, <1>19, <1>20, <1>21, <1>22, <1>23, <1>24, <1>25, <1>26, <1>27 DEF Next, StarterStep, JobStep

-----------------------------------------------------------------------------
\* The list of a starter at work only changes when it starts an instance.
ListKept == \A x \in Starters : step[x] = "picking" /\ todo'[x] # todo[x] => Starts(x)

\* Every step keeps the lists, or is a start.
LEMMA StepLists == IInv /\ [Next]_vars => ListKept
<1> SUFFICES ASSUME IInv, [Next]_vars
             PROVE  ListKept
  OBVIOUS
<1> USE DEF IInv, OneJob, ListKept, Starters, TypeOK
<1>1. ASSUME NEW i \in Instances, Ends(i) PROVE ListKept
  BY <1>1, FleetAssumption DEF Ends, Heard
<1>2. ASSUME NEW i \in Instances, Relaunches(i) PROVE ListKept
  BY <1>2, FleetAssumption DEF Relaunches, StartLaunch
<1>3. ASSUME NEW i \in Instances, Listens(i) PROVE ListKept
  BY <1>3, FleetAssumption DEF Listens, Heard
<1>4. ASSUME NEW i \in Instances, OperatorAsks(i) PROVE ListKept
  BY <1>4, FleetAssumption DEF OperatorAsks
<1>5. ASSUME NEW i \in Instances, OperatorStarts(i) PROVE ListKept
  BY <1>5, FleetAssumption DEF OperatorStarts, StartRunning, StartLaunch, StartFails
<1>6. ASSUME NEW i \in Instances, OperatorStops(i) PROVE ListKept
  BY <1>6, FleetAssumption DEF OperatorStops, StopSent
<1>7. ASSUME NEW i \in Instances, ShutdownStops(i) PROVE ListKept
  BY <1>7, FleetAssumption DEF ShutdownStops, StopSent
<1>8. ASSUME NEW s \in Starters, WaitBegins(s) PROVE ListKept
  BY <1>8, FleetAssumption DEF WaitBegins, serversFirst
<1>9. ASSUME NEW s \in Starters, Finishes(s) PROVE ListKept
  BY <1>9, FleetAssumption DEF Finishes
<1>10. ASSUME NEW s \in Starters, WaitEnds(s) PROVE ListKept
  BY <1>10, FleetAssumption DEF WaitEnds, Pending
<1>11. ASSUME NEW s \in Starters, WaitTimesOut(s) PROVE ListKept
  BY <1>11, FleetAssumption DEF WaitTimesOut, Pending
<1>12. ASSUME NEW s \in Starters, Starts(s) PROVE ListKept
  <2>1. \A x \in Starters \ {s} : todo'[x] = todo[x]
    BY <1>12 DEF Starts
  <2> QED
    BY <1>12, <2>1 DEF ListKept
<1>13. ASSUME NEW s \in Starters, Started(s) PROVE ListKept
  BY <1>13, FleetAssumption DEF Started
<1>14. ASSUME NEW j \in Jobs, JobBegins(j) PROVE ListKept
  BY <1>14, FleetAssumption DEF JobBegins, LockTaken
<1>15. ASSUME NEW j \in Jobs, UploadStep(j) PROVE ListKept
  BY <1>15, FleetAssumption DEF UploadStep, UploadBegins, UploadReceived, UploadRefused, LockTaken
<1>16. ASSUME NEW j \in Jobs, PreparationFails(j) PROVE ListKept
  BY <1>16, FleetAssumption DEF PreparationFails, JobOver
<1>17. ASSUME NEW j \in Jobs, JobSnapshots(j) PROVE ListKept
  BY <1>17, FleetAssumption DEF JobSnapshots
<1>18. ASSUME NEW j \in Jobs, JobStops(j) PROVE ListKept
  BY <1>18, FleetAssumption DEF JobStops, StopSent, serversFirst
<1>19. ASSUME NEW j \in Jobs, JobStopped(j) PROVE ListKept
  BY <1>19, FleetAssumption DEF JobStopped
<1>20. ASSUME NEW j \in Jobs, JobStopGivesUp(j) PROVE ListKept
  BY <1>20, FleetAssumption DEF JobStopGivesUp
<1>21. ASSUME NEW j \in Jobs, JobReplaces(j) PROVE ListKept
  BY <1>21, FleetAssumption DEF JobReplaces
<1>22. ASSUME NEW j \in Jobs, JobRestarts(j) PROVE ListKept
  BY <1>22, FleetAssumption DEF JobRestarts, Begin
<1>23. ASSUME NEW j \in Jobs, JobEnds(j) PROVE ListKept
  BY <1>23, FleetAssumption DEF JobEnds, JobOver
<1>24. CASE BootBegins
  BY <1>24, FleetAssumption DEF BootBegins, Begin
<1>25. CASE ShutdownBegins
  BY <1>25, FleetAssumption DEF ShutdownBegins
<1>26. CASE ShutdownExits
  BY <1>26, FleetAssumption DEF ShutdownExits
<1>27. CASE UNCHANGED vars
  BY <1>27
<1> QED
  BY <1>1, <1>2, <1>3, <1>4, <1>5, <1>6, <1>7, <1>8, <1>9, <1>10, <1>11, <1>12, <1>13, <1>14, <1>15, <1>16, <1>17, <1>18, <1>19, <1>20, <1>21, <1>22, <1>23, <1>24, <1>25, <1>26, <1>27 DEF Next, StarterStep, JobStep

\* The inductive invariant is kept.
LEMMA StepIInv == IInv /\ [Next]_vars => IInv'
  BY StepTypes, StepJobs, StepUpdates, StepSilent DEF IInv

-----------------------------------------------------------------------------
(* What the starters, the jobs and the supervisor keep has its type.       *)
THEOREM TypeCorrect == Spec => []TypeOK
<1>1. IInv => TypeOK
  BY DEF IInv
<1> QED
  BY InitIInv, StepIInv, <1>1, PTL DEF Spec

(* A process launched by an update runs the installed program, however many*)
(* updates follow each other: installFromArchive stops what it replaces,   *)
(* and updateMu keeps another job from launching anything meanwhile.       *)
THEOREM InstalledVersionRuns == Spec => []UpdatedProgramsRun
<1>1. IInv => UpdatedProgramsRun
  BY DEF IInv
<1> QED
  BY InitIInv, StepIInv, <1>1, PTL DEF Spec

(* startServersFirst, for a job and for the boot: a frpc is started when   *)
(* every frps of the list listens or has ended, or the deadline passed.    *)
THEOREM ServersComeFirst == Spec => ClientsWaitForServers
<1> DEFINE InOrder(s) ==
          step[s] = "picking" /\ todo'[s] # todo[s] /\ todo[s] \ todo'[s] \subseteq Clients
             => todo[s] \cap Servers = {} /\ (late[s] \/ silent[s] = {})
<1>1. ASSUME IInv, [Next]_vars, NEW s \in Starters PROVE InOrder(s)
  <2> SUFFICES ASSUME step[s] = "picking", todo'[s] # todo[s], todo[s] \ todo'[s] \subseteq Clients
               PROVE  todo[s] \cap Servers = {} /\ (late[s] \/ silent[s] = {})
    OBVIOUS
  <2>1. Starts(s)
    BY <1>1, StepLists DEF ListKept
  <2>2. PICK i \in serversFirst(todo[s]) : (i \in Clients => waited[s]) /\ todo' = [todo EXCEPT ![s] = @ \ {i}]
    BY <2>1 DEF Starts
  <2>3. i \in todo[s] /\ todo'[s] = todo[s] \ {i}
    BY <1>1, <2>2 DEF serversFirst, IInv, TypeOK
  <2>4. waited[s]
    BY <2>2, <2>3
  <2> QED
    BY <1>1, <2>4 DEF IInv, SilentAreWaitedFor
<1>2. IInv /\ [Next]_vars => [\A s \in Starters : InOrder(s)]_vars
  BY <1>1
<1> QED
  BY InitIInv, StepIInv, <1>2, PTL DEF Spec, ClientsWaitForServers

-----------------------------------------------------------------------------
(* Fleet implements InstanceStatus, for each instance.                     *)

\* The starters, and operators, that have yet to start i.
OrdersOf(i) == {s \in Starters : i \in todo[s]} \cup (IF i \in asked THEN {"operator"} ELSE {})

\* A starter at rest has nothing to start: a job's list is written when it is empty.
RestingListsEmpty ==
    /\ \A s \in Starters : step[s] = "done" => todo[s] = {}
    /\ step["boot"] = "off" => todo["boot"] = {}
    /\ \A j \in Jobs : job[j] \in {"idle", "receiving", "preparing"} => todo[j] = {}

\* What Promise(i) makes of the steps of Fleet, in terms of the status and orders of i.
LEMMA Stutters ==
    ASSUME NEW i \in Instances, status'[i] = status[i], OrdersOf(i)' = OrdersOf(i)
    PROVE  UNCHANGED Promise(i)!vars
<1>1. [p \in {i} |-> status[p]]' = [p \in {i} |-> status[p]]
  OBVIOUS
<1>2. [p \in {i} |-> OrdersOf(p)]' = [p \in {i} |-> OrdersOf(p)]
  OBVIOUS
<1> QED
  BY <1>1, <1>2 DEF Promise!vars, OrdersOf

\* A change of status as a stop, an end or a restart makes it.
LEMMA Moves ==
    ASSUME NEW i \in Instances, OrdersOf(i)' = OrdersOf(i),
           \/ status[i] = "active" /\ status'[i] \in {"stopping", "activating"}
           \/ status[i] = "activating" /\ status'[i] \in {"inactive", "active"}
           \/ status[i] = "stopping" /\ status'[i] = "inactive"
    PROVE  Promise(i)!Next
<1>1. [p \in {i} |-> OrdersOf(p)]' = [p \in {i} |-> OrdersOf(p)]
  OBVIOUS
<1>2. [p \in {i} |-> status[p]]' = [[p \in {i} |-> status[p]] EXCEPT ![i] = status'[i]]
  OBVIOUS
<1>3. [p \in {i} |-> status[p]][i] = status[i]
  OBVIOUS
<1>4. Promise(i)!Stop(i) \/ Promise(i)!End(i) \/ Promise(i)!Restart(i)
  BY <1>1, <1>2, <1>3 DEF Promise!Stop, Promise!End, Promise!Restart, Promise!Becomes, OrdersOf
<1> QED
  BY <1>4 DEF Promise!Next

\* A starter or an operator orders i.
LEMMA Ordered ==
    ASSUME NEW i \in Instances, NEW t \in Starters \cup {"operator"}, status'[i] = status[i],
           t \notin OrdersOf(i), OrdersOf(i)' = OrdersOf(i) \cup {t}
    PROVE  Promise(i)!Next
<1>1. [p \in {i} |-> OrdersOf(p)]' = [[p \in {i} |-> OrdersOf(p)] EXCEPT ![i] = @ \cup {t}]
  OBVIOUS
<1>2. [p \in {i} |-> status[p]]' = [p \in {i} |-> status[p]]
  OBVIOUS
<1>3. t \notin [p \in {i} |-> OrdersOf(p)][i]
  OBVIOUS
<1>4. Promise(i)!Order(i, t)
  BY <1>1, <1>2, <1>3 DEF Promise!Order, OrdersOf
<1> QED
  BY <1>4 DEF Promise!Next

\* It starts i, or cannot.
LEMMA Fulfilled ==
    ASSUME NEW i \in Instances, NEW t \in Starters \cup {"operator"},
           status'[i] \in {"active", status[i]},
           t \in OrdersOf(i), OrdersOf(i)' = OrdersOf(i) \ {t}
    PROVE  Promise(i)!Next
<1>1. [p \in {i} |-> OrdersOf(p)]' = [[p \in {i} |-> OrdersOf(p)] EXCEPT ![i] = @ \ {t}]
  OBVIOUS
<1>2. [p \in {i} |-> status[p]]' = [[p \in {i} |-> status[p]] EXCEPT ![i] = status'[i]]
  OBVIOUS
<1>3. t \in [p \in {i} |-> OrdersOf(p)][i]
  OBVIOUS
<1>4. status'[i] = status[i] => [p \in {i} |-> status[p]]' = [p \in {i} |-> status[p]]
  OBVIOUS
<1>5. Promise(i)!CarryOut(i, t) \/ Promise(i)!Withdraw(i, t)
  BY <1>1, <1>2, <1>3, <1>4 DEF Promise!CarryOut, Promise!Withdraw, Promise!Becomes, OrdersOf
<1> QED
  BY <1>5 DEF Promise!Next

-----------------------------------------------------------------------------
\* A list is only written when its starter begins, and only empty lists end.
LEMMA StepResting == IInv /\ RestingListsEmpty /\ [Next]_vars => RestingListsEmpty'
<1> SUFFICES ASSUME IInv, RestingListsEmpty, [Next]_vars
             PROVE  RestingListsEmpty'
  OBVIOUS
<1> USE DEF IInv, OneJob, RestingListsEmpty, Starters, TypeOK
<1>1. ASSUME NEW i \in Instances,
             \/ Ends(i) \/ Relaunches(i) \/ Listens(i) \/ OperatorAsks(i) \/ OperatorStarts(i)
             \/ OperatorStops(i) \/ ShutdownStops(i)
      PROVE  UNCHANGED <<job, step, todo>>
  BY <1>1 DEF Ends, Relaunches, Listens, OperatorAsks, OperatorStarts, OperatorStops, ShutdownStops
<1>2. ASSUME NEW s \in Starters, StarterStep(s) PROVE RestingListsEmpty'
  <2>1. step'[s] \in {"picking", "waiting", "observing"} \/ (step'[s] = "done" /\ todo'[s] = {})
    BY <1>2 DEF StarterStep, WaitBegins, Finishes, WaitEnds, WaitTimesOut, Starts, Started
  <2>2. job' = job /\ todo'[s] \subseteq todo[s]
    BY <1>2 DEF StarterStep, WaitBegins, Finishes, WaitEnds, WaitTimesOut, Starts, Started
  <2>3. \A x \in Starters \ {s} : step'[x] = step[x] /\ todo'[x] = todo[x]
    BY <1>2 DEF StarterStep, WaitBegins, Finishes, WaitEnds, WaitTimesOut, Starts, Started
  <2> QED
    BY <2>1, <2>2, <2>3
<1>3. ASSUME NEW j \in Jobs, JobBegins(j) \/ UploadStep(j) \/ JobStep(j) PROVE RestingListsEmpty'
  <2>1. CASE JobSnapshots(j)
    BY <2>1, FleetAssumption DEF JobSnapshots
  <2>2. CASE JobRestarts(j)
    BY <2>2, FleetAssumption DEF JobRestarts, Begin
  <2>3. CASE JobEnds(j)
    BY <2>3, FleetAssumption DEF JobEnds, JobOver
  <2>4. CASE JobBegins(j) \/ UploadStep(j) \/ PreparationFails(j)
    BY <2>4, FleetAssumption DEF JobBegins, UploadStep, UploadBegins, UploadReceived, UploadRefused,
       LockTaken, PreparationFails, JobOver
  <2>5. CASE JobStops(j) \/ JobStopped(j) \/ JobStopGivesUp(j) \/ JobReplaces(j)
    BY <2>5 DEF JobStops, JobStopped, JobStopGivesUp, JobReplaces
  <2> QED
    BY <1>3, <2>1, <2>2, <2>3, <2>4, <2>5 DEF JobStep
<1>4. CASE BootBegins
  BY <1>4, FleetAssumption DEF BootBegins, Begin
<1>5. CASE ShutdownBegins \/ ShutdownExits \/ UNCHANGED vars
  BY <1>5 DEF ShutdownBegins, ShutdownExits
<1> QED
  BY <1>1, <1>2, <1>3, <1>4, <1>5 DEF Next

\* Every step is, for each instance, one of InstanceStatus or none: the boot and a job order
\* a whole list at once, one order for each instance of it.
LEMMA StepKeepsPromise ==
    ASSUME IInv, RestingListsEmpty, [Next]_vars, NEW i \in Instances
    PROVE  [Promise(i)!Next]_(Promise(i)!vars)
<1> USE DEF IInv, TypeOK
<1> DEFINE Kept == OrdersOf(i)' = OrdersOf(i)
<1>1. ASSUME UNCHANGED <<todo, asked>> PROVE Kept
  BY <1>1 DEF OrdersOf
<1>2. ASSUME NEW k \in Instances, Ends(k) PROVE [Promise(i)!Next]_(Promise(i)!vars)
  <2>1. CASE k = i
    <3>1. Kept
      BY <1>1, <1>2 DEF Ends
    <3>2. \/ status[i] = "active" /\ status'[i] = "activating"
          \/ status[i] = "stopping" /\ status'[i] = "inactive"
      BY <1>2, <2>1 DEF Ends, Running
    <3> QED
      BY <3>1, <3>2, Moves
  <2>2. CASE k # i
    BY <1>1, <1>2, <2>2, Stutters DEF Ends
  <2> QED
    BY <2>1, <2>2
<1>3. ASSUME NEW k \in Instances, Relaunches(k) PROVE [Promise(i)!Next]_(Promise(i)!vars)
  <2>1. Kept
    BY <1>1, <1>3 DEF Relaunches
  <2>2. CASE k = i
    <3>1. status[i] = "activating" /\ status'[i] \in {"active", "inactive"}
      BY <1>3, <2>2 DEF Relaunches, StartLaunch
    <3> QED
      BY <2>1, <3>1, Moves
  <2>3. CASE k # i
    BY <1>3, <2>1, <2>3, Stutters DEF Relaunches, StartLaunch
  <2> QED
    BY <2>2, <2>3
<1>4. ASSUME NEW k \in Instances, NEW who, StopSent(k, who), UNCHANGED <<todo, asked>>
      PROVE  [Promise(i)!Next]_(Promise(i)!vars)
  <2>1. Kept
    BY <1>1, <1>4
  <2>2. CASE k = i /\ status[i] \in {"active", "activating"}
    <3>1. \/ status[i] = "active" /\ status'[i] = "stopping"
          \/ status[i] = "activating" /\ status'[i] = "inactive"
      BY <1>4, <2>2 DEF StopSent, Running
    <3> QED
      BY <2>1, <3>1, Moves
  <2>3. CASE ~(k = i /\ status[i] \in {"active", "activating"})
    <3>1. status'[i] = status[i]
      BY <1>4, <2>3 DEF StopSent, Running
    <3> QED
      BY <2>1, <3>1, Stutters
  <2> QED
    BY <2>2, <2>3
<1>5. ASSUME NEW k \in Instances, NEW t, StartRunning(k) \/ StartLaunch(k, t) \/ StartFails(k)
      PROVE  /\ k = i => status'[i] \in {"active", status[i]}
             /\ k # i => status'[i] = status[i]
  BY <1>5 DEF StartRunning, StartLaunch, StartFails
<1>6. ASSUME NEW k \in Instances, OperatorStarts(k) PROVE [Promise(i)!Next]_(Promise(i)!vars)
  <2>1. CASE k = i
    <3>1. "operator" \in OrdersOf(i) /\ OrdersOf(i)' = OrdersOf(i) \ {"operator"}
      BY <1>6, <2>1, FleetAssumption DEF OperatorStarts, OrdersOf, Starters
    <3> QED
      BY <1>5, <1>6, <2>1, <3>1, Fulfilled DEF OperatorStarts
  <2>2. CASE k # i
    <3>1. Kept
      BY <1>6, <2>2 DEF OperatorStarts, OrdersOf
    <3> QED
      BY <1>5, <1>6, <2>2, <3>1, Stutters DEF OperatorStarts
  <2> QED
    BY <2>1, <2>2
<1>7. ASSUME NEW k \in Instances, OperatorAsks(k) PROVE [Promise(i)!Next]_(Promise(i)!vars)
  <2>1. CASE k = i
    <3>1. "operator" \notin OrdersOf(i) /\ OrdersOf(i)' = OrdersOf(i) \cup {"operator"}
      BY <1>7, <2>1, FleetAssumption DEF OperatorAsks, OrdersOf, Starters
    <3> QED
      BY <1>7, <3>1, Ordered DEF OperatorAsks
  <2>2. CASE k # i
    <3>1. Kept
      BY <1>7, <2>2 DEF OperatorAsks, OrdersOf
    <3> QED
      BY <1>7, <3>1, Stutters DEF OperatorAsks
  <2> QED
    BY <2>1, <2>2
<1>8. ASSUME NEW s \in Starters, Starts(s) PROVE [Promise(i)!Next]_(Promise(i)!vars)
  <2>1. PICK k \in serversFirst(todo[s]) :
          /\ todo' = [todo EXCEPT ![s] = @ \ {k}] /\ asked' = asked
          /\ StartRunning(k) \/ StartLaunch(k, s) \/ StartFails(k)
    BY <1>8 DEF Starts
  <2>2. k \in todo[s] /\ k \in Instances
    BY <2>1 DEF serversFirst
  <2>3. CASE k = i
    <3>1. s \in OrdersOf(i) /\ OrdersOf(i)' = OrdersOf(i) \ {s}
      BY <2>1, <2>2, <2>3, FleetAssumption DEF OrdersOf, Starters
    <3> QED
      BY <1>5, <2>1, <2>2, <2>3, <3>1, Fulfilled
  <2>4. CASE k # i
    <3>1. Kept
      BY <2>1, <2>4 DEF OrdersOf
    <3> QED
      BY <1>5, <2>1, <2>2, <2>4, <3>1, Stutters
  <2> QED
    BY <2>3, <2>4
<1>9. ASSUME NEW s \in Starters, NEW ids \in SUBSET Instances, todo[s] = {},
             todo' = [todo EXCEPT ![s] = ids], UNCHANGED <<status, asked>>
      PROVE  [Promise(i)!Next]_(Promise(i)!vars)
  <2>1. CASE i \in ids
    <3>1. s \notin OrdersOf(i) /\ OrdersOf(i)' = OrdersOf(i) \cup {s}
      BY <1>9, <2>1, FleetAssumption DEF OrdersOf, Starters
    <3> QED
      BY <1>9, <3>1, Ordered
  <2>2. CASE i \notin ids
    <3>1. Kept
      BY <1>9, <2>2 DEF OrdersOf
    <3> QED
      BY <1>9, <3>1, Stutters
  <2> QED
    BY <2>1, <2>2
<1>10. ASSUME NEW j \in Jobs, JobSnapshots(j) PROVE [Promise(i)!Next]_(Promise(i)!vars)
  <2>1. PICK ids \in SUBSET Instances : todo' = [todo EXCEPT ![j] = ids]
    BY <1>10 DEF JobSnapshots
  <2>2. todo[j] = {} /\ j \in Starters /\ UNCHANGED <<status, asked>>
    BY <1>10 DEF JobSnapshots, RestingListsEmpty, Starters
  <2> QED
    BY <1>9, <2>1, <2>2
<1>11. CASE BootBegins
  <2>1. todo["boot"] = {} /\ "boot" \in Starters /\ UNCHANGED <<status, asked>>
    BY <1>11 DEF BootBegins, RestingListsEmpty, Starters
  <2> QED
    BY <1>9, <1>11, <2>1, FleetAssumption DEF BootBegins, Begin, Instances
<1>12. ASSUME NEW j \in Jobs, JobStops(j) PROVE [Promise(i)!Next]_(Promise(i)!vars)
  BY <1>4, <1>12 DEF JobStops, serversFirst
<1>13. ASSUME NEW k \in Instances, OperatorStops(k) \/ ShutdownStops(k)
       PROVE  [Promise(i)!Next]_(Promise(i)!vars)
  BY <1>4, <1>13 DEF OperatorStops, ShutdownStops
<1>14. ASSUME UNCHANGED <<status, todo, asked>> PROVE [Promise(i)!Next]_(Promise(i)!vars)
  BY <1>1, <1>14, Stutters
<1>15. ASSUME NEW j \in Jobs, JobRestarts(j) PROVE UNCHANGED <<status, todo, asked>>
  BY <1>15 DEF JobRestarts, Begin
<1>16. ASSUME NEW j \in Jobs,
              \/ JobBegins(j) \/ UploadStep(j) \/ PreparationFails(j) \/ JobStopped(j)
              \/ JobStopGivesUp(j) \/ JobReplaces(j) \/ JobEnds(j)
       PROVE  UNCHANGED <<status, todo, asked>>
  BY <1>16 DEF JobBegins, UploadStep, UploadBegins, UploadReceived, UploadRefused, LockTaken, PreparationFails, JobStopped, JobStopGivesUp,
     JobReplaces, JobEnds
<1>17. ASSUME NEW s \in Starters,
              WaitBegins(s) \/ Finishes(s) \/ WaitEnds(s) \/ WaitTimesOut(s) \/ Started(s)
       PROVE  UNCHANGED <<status, todo, asked>>
  BY <1>17 DEF WaitBegins, Finishes, WaitEnds, WaitTimesOut, Started
<1>18. ASSUME NEW k \in Instances, Listens(k) PROVE UNCHANGED <<status, todo, asked>>
  BY <1>18 DEF Listens
<1>19. CASE ShutdownBegins \/ ShutdownExits \/ UNCHANGED vars
  BY <1>14, <1>19 DEF ShutdownBegins, ShutdownExits
<1> QED
  BY <1>2, <1>3, <1>6, <1>7, <1>8, <1>10, <1>11, <1>12, <1>13, <1>14, <1>15, <1>16, <1>17,
     <1>18, <1>19 DEF Next, StarterStep, JobStep

\* Jobs, the boot and operators beside the supervisor: a stopped instance runs again only
\* because one of them has it on its list (startServersFirst) or has asked for it.
THEOREM PromiseKept == Spec => KeepsStatusPromise
<1>1. Init => RestingListsEmpty /\ \A i \in Instances : Promise(i)!Init
  <2> SUFFICES ASSUME Init PROVE RestingListsEmpty /\ \A i \in Instances : Promise(i)!Init
    OBVIOUS
  <2>1. (\A s \in Starters : todo[s] = {}) /\ asked = {} /\ \A i \in Instances : status[i] = "inactive"
    BY DEF Init
  <2>2. RestingListsEmpty
    BY <2>1 DEF RestingListsEmpty, Starters
  <2>3. ASSUME NEW i \in Instances PROVE Promise(i)!Init
    BY <2>1 DEF Promise!Init
  <2> QED
    BY <2>2, <2>3
<1>2. IInv /\ RestingListsEmpty /\ [Next]_vars
        => [\A i \in Instances : [Promise(i)!Next]_(Promise(i)!vars)]_vars
  BY StepKeepsPromise
<1> QED
  BY <1>1, <1>2, InitIInv, StepIInv, StepResting, PTL DEF Spec, KeepsStatusPromise

-----------------------------------------------------------------------------
(* What an update stops is on its list.                                    *)

\* The instances a job has yet to stop are among those it will start again.
StoppedAreListed ==
    \A j \in Jobs : job[j] \in {"stopping", "awaiting"} => left[j] \subseteq todo[j]

\* Lists of jobs change when the job takes its snapshot, and as it starts instances.
LEMMA StepListed == IInv /\ StoppedAreListed /\ [Next]_vars => StoppedAreListed'
<1> SUFFICES ASSUME IInv, StoppedAreListed, [Next]_vars
             PROVE  StoppedAreListed'
  OBVIOUS
<1> USE DEF IInv, OneJob, StoppedAreListed, Starters, TypeOK
<1>1. ASSUME NEW i \in Instances,
             \/ Ends(i) \/ Relaunches(i) \/ Listens(i) \/ OperatorAsks(i) \/ OperatorStarts(i)
             \/ OperatorStops(i) \/ ShutdownStops(i)
      PROVE  UNCHANGED <<job, left, todo>>
  BY <1>1 DEF Ends, Relaunches, Listens, OperatorAsks, OperatorStarts, OperatorStops, ShutdownStops
<1>2. ASSUME NEW s \in Starters, StarterStep(s) PROVE StoppedAreListed'
  <2>1. UNCHANGED <<job, left>> /\ \A x \in Starters \ {s} : todo'[x] = todo[x]
    BY <1>2 DEF StarterStep, WaitBegins, Finishes, WaitEnds, WaitTimesOut, Starts, Started
  <2>2. todo'[s] # todo[s] => step[s] # "off"
    BY <1>2 DEF StarterStep, WaitBegins, Finishes, WaitEnds, WaitTimesOut, Starts, Started
  <2> QED
    BY <2>1, <2>2
<1>3. ASSUME NEW j \in Jobs, JobBegins(j) \/ UploadStep(j) \/ JobStep(j) PROVE StoppedAreListed'
  <2>1. CASE JobSnapshots(j)
    BY <2>1 DEF JobSnapshots
  <2>2. CASE JobRestarts(j)
    BY <2>2 DEF JobRestarts, Begin
  <2>3. CASE JobEnds(j)
    BY <2>3 DEF JobEnds, JobOver
  <2>4. CASE JobBegins(j) \/ UploadStep(j) \/ PreparationFails(j)
    BY <2>4 DEF JobBegins, UploadStep, UploadBegins, UploadReceived, UploadRefused, LockTaken,
       PreparationFails, JobOver
  <2>5. CASE JobStops(j) \/ JobReplaces(j)
    BY <2>5 DEF JobStops, JobReplaces
  <2>6. CASE JobStopped(j) \/ JobStopGivesUp(j)
    BY <2>6 DEF JobStopped, JobStopGivesUp
  <2> QED
    BY <1>3, <2>1, <2>2, <2>3, <2>4, <2>5, <2>6 DEF JobStep
<1>4. CASE BootBegins
  BY <1>4, FleetAssumption DEF BootBegins, Begin
<1>5. CASE ShutdownBegins \/ ShutdownExits \/ UNCHANGED vars
  BY <1>5 DEF ShutdownBegins, ShutdownExits
<1> QED
  BY <1>1, <1>2, <1>3, <1>4, <1>5 DEF Next

\* Only a job that works adds to the instances left behind, and only one of its list; who
\* gives updateMu back, has an empty list.
LEMMA StepBehind ==
    IInv /\ RestingListsEmpty /\ StoppedAreListed /\ NoneLeftBehind /\ [Next]_vars => NoneLeftBehind'
<1> SUFFICES ASSUME IInv, RestingListsEmpty, StoppedAreListed, NoneLeftBehind, [Next]_vars
             PROVE  NoneLeftBehind'
  OBVIOUS
<1> USE DEF IInv, OneJob, NoneLeftBehind, Starters, TypeOK
<1>1. ASSUME NEW i \in Instances,
             \/ Ends(i) \/ Relaunches(i) \/ Listens(i) \/ OperatorAsks(i) \/ OperatorStarts(i)
             \/ OperatorStops(i) \/ ShutdownStops(i)
      PROVE  UNCHANGED <<lock, todo>> /\ cut' \subseteq cut
  BY <1>1, FleetAssumption DEF Ends, Relaunches, Listens, OperatorAsks, OperatorStarts,
     OperatorStops, ShutdownStops, StopSent
<1>2. ASSUME NEW s \in Starters, StarterStep(s) PROVE NoneLeftBehind'
  <2>1. CASE Starts(s)
    <3>1. PICK i \in serversFirst(todo[s]) : todo' = [todo EXCEPT ![s] = @ \ {i}] /\ cut' = cut \ {i}
      BY <2>1 DEF Starts
    <3>2. \A x \in Starters : todo[x] \ {i} \subseteq todo'[x]
      BY <3>1
    <3>3. lock' = lock
      BY <2>1 DEF Starts
    <3> QED
      BY <3>1, <3>2, <3>3
  <2>2. CASE WaitBegins(s) \/ Finishes(s) \/ WaitEnds(s) \/ WaitTimesOut(s) \/ Started(s)
    BY <2>2 DEF WaitBegins, Finishes, WaitEnds, WaitTimesOut, Started
  <2> QED
    BY <1>2, <2>1, <2>2 DEF StarterStep
<1>3. ASSUME NEW j \in Jobs, lock \in {"none", j}, todo[j] = {} PROVE cut = {}
  BY <1>3, FleetAssumption
<1>4. ASSUME NEW j \in Jobs, JobBegins(j) \/ UploadStep(j) \/ JobStep(j) PROVE NoneLeftBehind'
  <2>1. CASE JobBegins(j) \/ UploadBegins(j)
    <3>1. cut' = cut /\ lock = "none"
      BY <2>1 DEF JobBegins, UploadBegins, LockTaken
    <3>2. cut = {}
      BY <3>1, FleetAssumption
    <3> QED
      BY <3>1, <3>2
  <2>2. CASE UploadReceived(j) \/ UploadRefused(j) \/ PreparationFails(j) \/ JobSnapshots(j)
    <3>1. cut' = cut /\ job[j] \in {"receiving", "preparing"}
      BY <2>2 DEF UploadReceived, UploadRefused, PreparationFails, JobSnapshots
    <3>2. lock = j /\ todo[j] = {}
      BY <3>1 DEF RestingListsEmpty
    <3> QED
      BY <1>3, <3>1, <3>2
  <2>3. CASE JobStops(j)
    <3>1. PICK i \in serversFirst(left[j]) : StopSent(i, j)
      BY <2>3 DEF JobStops
    <3>2. i \in todo[j] /\ lock = j
      BY <2>3, <3>1 DEF JobStops, serversFirst, StoppedAreListed
    <3>3. UNCHANGED <<lock, todo>> /\ cut' \subseteq cut \cup {i}
      BY <2>3, <3>1 DEF JobStops, StopSent
    <3> QED
      BY <3>2, <3>3
  <2>4. CASE JobStopped(j) \/ JobStopGivesUp(j) \/ JobReplaces(j)
    BY <2>4 DEF JobStopped, JobStopGivesUp, JobReplaces
  <2>5. CASE JobRestarts(j)
    <3>1. UNCHANGED <<lock, cut>> /\ todo' = todo
      BY <2>5 DEF JobRestarts, Begin
    <3> QED
      BY <3>1
  <2>6. CASE JobEnds(j)
    <3>1. cut' = cut /\ lock = j /\ todo[j] = {}
      BY <2>6 DEF JobEnds, RestingListsEmpty
    <3> QED
      BY <1>3, <3>1
  <2> QED
    BY <1>4, <2>1, <2>2, <2>3, <2>4, <2>5, <2>6 DEF JobStep, UploadStep
<1>5. CASE BootBegins
  <2>1. UNCHANGED <<lock, cut>> /\ \A j \in Jobs : todo'[j] = todo[j]
    BY <1>5, FleetAssumption DEF BootBegins, Begin
  <2> QED
    BY <2>1
<1>6. CASE ShutdownBegins \/ ShutdownExits \/ UNCHANGED vars
  BY <1>6 DEF ShutdownBegins, ShutdownExits
<1> QED
  BY <1>1, <1>2, <1>4, <1>5, <1>6 DEF Next

\* What Spec keeps of the instances a job has stopped.
LEMMA CutInvariants ==
    Spec => [](IInv /\ RestingListsEmpty /\ StoppedAreListed /\ NoneLeftBehind)
<1>1. Init => RestingListsEmpty /\ StoppedAreListed /\ NoneLeftBehind
  <2> SUFFICES ASSUME Init PROVE RestingListsEmpty /\ StoppedAreListed /\ NoneLeftBehind
    OBVIOUS
  <2>1. (\A s \in Starters : todo[s] = {}) /\ (\A j \in Jobs : job[j] = "idle") /\ cut = {}
    BY DEF Init
  <2> QED
    BY <2>1 DEF RestingListsEmpty, StoppedAreListed, NoneLeftBehind, Starters
<1> QED
  BY <1>1, InitIInv, StepIInv, StepResting, StepListed, StepBehind, PTL DEF Spec

\* The deferred restart of installFromArchive leaves nothing behind: whatever fails, and
\* whatever operators, the boot and the end of the container do meanwhile, what a job has
\* stopped is on the list of the job at work until somebody tries to start it.
THEOREM UpdateLeavesNothingBehind == Spec => []NoneLeftBehind
  BY CutInvariants, PTL

\* So if a job ends that has its archive (JobsEnd, which the runs check under Fairness),
\* whatever a job has stopped is tried again: nothing is stopped before the archive is there,
\* and the job that ends has nothing left of it.  An upload that never comes in leaves no
\* program down.
THEOREM EndedUpdatesHaveRestarted == Spec /\ JobsEnd => StoppedByUpdateIsStarted
<1>1. ASSUME NEW i \in Instances
      PROVE  Spec /\ JobsEnd => (i \in cut ~> i \notin cut \/ phase # "up")
  <2>1. RestingListsEmpty /\ NoneLeftBehind
          => (i \in cut => Installing) /\ (~Installing => i \notin cut)
    BY DEF RestingListsEmpty, NoneLeftBehind, Installing
  <2> QED
    BY <2>1, CutInvariants, PTL DEF JobsEnd
<1> QED
  BY <1>1 DEF StoppedByUpdateIsStarted
=============================================================================
