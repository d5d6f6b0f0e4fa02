----------------------------- MODULE Supervisor -----------------------------
(***************************************************************************)
(* The process supervisor of standalone mode (src/panel/standalone.go).    *)
(* The panel runs frps and frpc itself: every instance has a frpProc whose *)
(* fields are guarded by p.mu.  A frpProc is touched by HTTP handlers      *)
(* (start, stop, restart, enable, disable, delete), by the goroutine that  *)
(* waits for the program to end, and by the timers that restart a program  *)
(* after an unexpected exit.  One action below is one critical section of  *)
(* p.mu, one wake-up of a waiting goroutine, or one event of the outside.  *)
(*                                                                         *)
(* Time is abstracted: a timer may fire at any moment after it was armed,  *)
(* a wait may always time out.  So restartDelay, failures and stableAfter, *)
(* which only choose durations, do not appear.                             *)
(***************************************************************************)
EXTENDS Naturals, FiniteSets

CONSTANTS
    Procs,        \* the instances (keys of procs)
    Threads,      \* goroutines that serve a request on an instance
    MaxRequests   \* bound: requests served in a behaviour

ASSUME SupervisorAssumption == MaxRequests \in Nat

VARIABLES
    cmd,          \* p.cmd # nil: the panel believes the program runs
    wanted,       \* p.wanted: restarted if it stops
    retry,        \* p.retry: "nil", a timer still "armed", or one that has "fired"
    timers,       \* armed timers of the instance, the one p.retry names included
    fired,        \* relaunch calls that have not read the instances yet
    found, gone,  \* relaunch calls that wait for p.mu, and what they read
    live,         \* operating system processes of the instance
    ended,        \* processes that have ended and that the panel has not reaped
    killed,       \* SIGKILL was sent to the running process
    visible,      \* standaloneInstances() lists the instance
    launchable,   \* launchLocked would succeed: program and config present, Start works
    autostart,    \* the "autostart" list of the panel's configuration
    op, on, pc,   \* what a thread does, on which instance, and where it is
    open,         \* the exited channel a thread waits on is still open
    requests      \* requests accepted so far

procVars == <<cmd, wanted, retry, timers, live, ended, killed>>
relaunchVars == <<fired, found, gone>>
fileVars == <<visible, launchable, autostart>>
threadVars == <<op, on, pc, open>>
vars == <<procVars, relaunchVars, fileVars, threadVars, requests>>

StartOps == {"start", "restart"}
Ops == StartOps \cup {"stop", "delete", "enable", "disable"}
Waiting == {"observing", "terminating", "killing"}
PCs == Waiting \cup {"idle", "begin", "starting", "forgetting", "removing"}

-----------------------------------------------------------------------------
Init ==
    /\ cmd = [p \in Procs |-> FALSE]
    /\ wanted = [p \in Procs |-> FALSE]
    /\ retry = [p \in Procs |-> "nil"]
    /\ timers = [p \in Procs |-> 0]
    /\ fired = [p \in Procs |-> 0]
    /\ found = [p \in Procs |-> 0]
    /\ gone = [p \in Procs |-> 0]
    /\ live = [p \in Procs |-> 0]
    /\ ended = [p \in Procs |-> 0]
    /\ killed = [p \in Procs |-> FALSE]
    /\ visible \in [Procs -> BOOLEAN]
    /\ launchable = visible
    /\ autostart \in SUBSET Procs
    /\ op = [t \in Threads |-> "start"]
    /\ on \in [Threads -> Procs]
    /\ pc = [t \in Threads |-> "idle"]
    /\ open = [t \in Threads |-> FALSE]
    /\ requests = 0

-----------------------------------------------------------------------------
(* The critical sections of a frpProc, shared by every caller.             *)

\* launchLocked after its checks: the process exists and a goroutine waits for it.
Launch(p) ==
    /\ cmd' = [cmd EXCEPT ![p] = TRUE]
    /\ live' = [live EXCEPT ![p] = @ + 1]
    /\ killed' = [killed EXCEPT ![p] = FALSE]
    /\ UNCHANGED ended

NoLaunch == UNCHANGED <<cmd, live, ended, killed>>

\* (Variant: the timer is taken for armed whenever it is cancelled.)
CancelRetryBlindly(p) ==
    /\ timers' = [timers EXCEPT ![p] = @ - 1]
    /\ retry' = [retry EXCEPT ![p] = "nil"]

\* p.retry.Stop(); p.retry = nil.  A timer that has fired is not stopped.
CancelRetry(p) ==
    /\ timers' = [timers EXCEPT ![p] = IF retry[p] = "armed" THEN @ - 1 ELSE @]
    /\ retry' = [retry EXCEPT ![p] = "nil"]

\* p.retry = time.AfterFunc(delay, relaunch): an older handle is overwritten.
ArmRetry(p) ==
    /\ timers' = [timers EXCEPT ![p] = @ + 1]
    /\ retry' = [retry EXCEPT ![p] = "armed"]

Goto(t, l) == pc' = [pc EXCEPT ![t] = l]

\* Where a thread goes on once its call of stop has succeeded.
AfterStop(o) == IF o = "restart" THEN "starting"
                ELSE IF o = "delete" THEN "forgetting" ELSE "idle"

\* Where it goes on when stop has failed: deletion does not look at the result.
AfterFailedStop(o) == IF o = "delete" THEN "forgetting" ELSE "idle"

-----------------------------------------------------------------------------
(* Requests.                                                               *)

\* A handler reads the instances; an unknown instance is refused at once.
Request(t, o, p) ==
    /\ pc[t] = "idle" /\ requests < MaxRequests
    /\ visible[p]
    /\ requests' = requests + 1
    /\ op' = [op EXCEPT ![t] = o]
    /\ on' = [on EXCEPT ![t] = p]
    /\ Goto(t, "begin")
    /\ UNCHANGED <<procVars, relaunchVars, fileVars, open>>

\* The thread is about to enter p.start (at once, or after the stop of a restart).
AtStart(t) == \/ pc[t] = "begin" /\ op[t] = "start"
              \/ pc[t] = "starting"

\* start, the program already runs: it only becomes wanted.
StartFindsRunning(t) ==
    LET p == on[t] IN
    /\ AtStart(t) /\ cmd[p]
    /\ wanted' = [wanted EXCEPT ![p] = TRUE]
    /\ Goto(t, "idle")
    /\ NoLaunch
    /\ UNCHANGED <<retry, timers, relaunchVars, fileVars, op, on, open, requests>>

\* start, launchLocked returns an error: the pending restart is already cancelled
\* and wanted keeps its value.
StartFails(t) ==
    LET p == on[t] IN
    /\ AtStart(t) /\ ~cmd[p] /\ ~launchable[p]
    /\ CancelRetry(p)
    /\ Goto(t, "idle")
    /\ NoLaunch
    /\ UNCHANGED <<wanted, relaunchVars, fileVars, op, on, open, requests>>

\* start launches the program and watches it for a moment.
StartLaunches(t) ==
    LET p == on[t] IN
    /\ AtStart(t) /\ ~cmd[p] /\ launchable[p]
    /\ CancelRetry(p)
    /\ Launch(p)
    /\ wanted' = [wanted EXCEPT ![p] = TRUE]
    /\ Goto(t, "observing")
    /\ open' = [open EXCEPT ![t] = TRUE]
    /\ UNCHANGED <<relaunchVars, fileVars, op, on, requests>>

\* The select of start: the program has ended, or startObserve has passed.
StartReturns(t) ==
    /\ pc[t] = "observing"
    /\ Goto(t, "idle")
    /\ open' = [open EXCEPT ![t] = FALSE]
    /\ UNCHANGED <<procVars, relaunchVars, fileVars, op, on, requests>>

AtStop(t) == pc[t] = "begin" /\ op[t] \in {"stop", "restart", "delete"}

\* stop: no longer wanted, no pending restart; SIGTERM to the running program.
\* Whether the program obeys SIGTERM is Dies below.
StopLocks(t) ==
    LET p == on[t] IN
    /\ AtStop(t)
    /\ wanted' = [wanted EXCEPT ![p] = FALSE]
    /\ CancelRetry(p)
    /\ Goto(t, IF cmd[p] THEN "terminating" ELSE AfterStop(op[t]))
    /\ open' = [open EXCEPT ![t] = cmd[p]]
    /\ NoLaunch
    /\ UNCHANGED <<relaunchVars, fileVars, op, on, requests>>

\* stop sees the exited channel closed.
StopSucceeds(t) ==
    /\ pc[t] \in {"terminating", "killing"} /\ ~open[t]
    /\ Goto(t, AfterStop(op[t]))
    /\ UNCHANGED <<procVars, relaunchVars, fileVars, op, on, open, requests>>

\* (Variant: the SIGKILL is forgotten, stop only waits longer.)
StopKillsNothing(t) ==
    /\ pc[t] = "terminating"
    /\ Goto(t, "killing")
    /\ UNCHANGED <<procVars, relaunchVars, fileVars, op, on, open, requests>>

\* stopTimeout: SIGKILL to the process this call saw (nothing if it has ended).
StopKills(t) ==
    LET p == on[t] IN
    /\ pc[t] = "terminating"
    /\ killed' = [killed EXCEPT ![p] = @ \/ open[t]]
    /\ Goto(t, "killing")
    /\ UNCHANGED <<cmd, wanted, retry, timers, live, ended, relaunchVars, fileVars,
                   op, on, open, requests>>

\* Still there three seconds after SIGKILL: "does not stop".
StopGivesUp(t) ==
    /\ pc[t] = "killing"
    /\ Goto(t, AfterFailedStop(op[t]))
    /\ open' = [open EXCEPT ![t] = FALSE]
    /\ UNCHANGED <<procVars, relaunchVars, fileVars, op, on, requests>>

\* setAutostart, under cfgMu: the configuration is written, or cannot be.
Lists(p, listed) ==
    autostart' \in {autostart, IF listed THEN autostart \cup {p} ELSE autostart \ {p}}

\* enable, disable: an error is answered.
SetAutostart(t) ==
    /\ pc[t] = "begin" /\ op[t] \in {"enable", "disable"}
    /\ Lists(on[t], op[t] = "enable")
    /\ Goto(t, "idle")
    /\ UNCHANGED <<procVars, relaunchVars, visible, launchable, op, on, open, requests>>

\* delete: standaloneForget takes the instance out of the autostart list
\* (it does not look at the result) ...
Forget(t) ==
    /\ pc[t] = "forgetting"
    /\ Lists(on[t], FALSE)
    /\ Goto(t, "removing")
    /\ UNCHANGED <<procVars, relaunchVars, visible, launchable, op, on, open, requests>>

\* ... then its config is removed, or kept and dismissed from the dashboard ...
Remove(t) ==
    LET p == on[t] IN
    /\ pc[t] = "removing"
    /\ visible' = [visible EXCEPT ![p] = FALSE]
    /\ \E kept \in BOOLEAN :
          launchable' = [launchable EXCEPT ![p] = kept /\ launchable[p]]
    /\ Goto(t, "idle")
    /\ UNCHANGED <<procVars, relaunchVars, autostart, op, on, open, requests>>

\* ... unless the config is shared or cannot be removed: refused, already stopped.
RemoveRefused(t) ==
    /\ pc[t] = "removing"
    /\ Goto(t, "idle")
    /\ UNCHANGED <<procVars, relaunchVars, fileVars, op, on, open, requests>>

-----------------------------------------------------------------------------
(* The end of a program and its restart.                                   *)

\* The program ends: on its own, on SIGTERM, or on SIGKILL.
Dies(p) ==
    /\ live[p] > 0
    /\ live' = [live EXCEPT ![p] = @ - 1]
    /\ ended' = [ended EXCEPT ![p] = @ + 1]
    /\ UNCHANGED <<cmd, wanted, retry, timers, killed, relaunchVars, fileVars,
                   threadVars, requests>>

\* (Variant: p.exited is not closed.)
ReapSilently(p) ==
    /\ ended[p] > 0
    /\ ended' = [ended EXCEPT ![p] = @ - 1]
    /\ cmd' = [cmd EXCEPT ![p] = FALSE]
    /\ IF wanted[p] THEN ArmRetry(p) ELSE UNCHANGED <<timers, retry>>
    /\ UNCHANGED <<wanted, live, killed, relaunchVars, fileVars, threadVars, requests>>

\* The waiting goroutine of launchLocked gets p.mu: a wanted program is scheduled
\* for restart, and every caller that watches the process is woken.
Reap(p) ==
    /\ ended[p] > 0
    /\ ended' = [ended EXCEPT ![p] = @ - 1]
    /\ cmd' = [cmd EXCEPT ![p] = FALSE]
    /\ IF wanted[p] THEN ArmRetry(p) ELSE UNCHANGED <<timers, retry>>
    /\ open' = [t \in Threads |-> open[t] /\ on[t] # p]
    /\ UNCHANGED <<wanted, live, killed, relaunchVars, fileVars, op, on, pc, requests>>

\* The timer p.retry names fires.
RetryFires(p) ==
    /\ retry[p] = "armed"
    /\ retry' = [retry EXCEPT ![p] = "fired"]
    /\ timers' = [timers EXCEPT ![p] = @ - 1]
    /\ fired' = [fired EXCEPT ![p] = @ + 1]
    /\ UNCHANGED <<cmd, wanted, live, ended, killed, found, gone, fileVars,
                   threadVars, requests>>

\* A timer whose handle was overwritten fires.
StrayTimerFires(p) ==
    /\ timers[p] > (IF retry[p] = "armed" THEN 1 ELSE 0)
    /\ timers' = [timers EXCEPT ![p] = @ - 1]
    /\ fired' = [fired EXCEPT ![p] = @ + 1]
    /\ UNCHANGED <<cmd, wanted, retry, live, ended, killed, found, gone, fileVars,
                   threadVars, requests>>

\* relaunch reads standaloneInstances() before it takes p.mu.
RelaunchReads(p) ==
    /\ fired[p] > 0
    /\ fired' = [fired EXCEPT ![p] = @ - 1]
    /\ \/ /\ visible[p]
          /\ found' = [found EXCEPT ![p] = @ + 1]
          /\ UNCHANGED gone
       \/ /\ ~visible[p]
          /\ gone' = [gone EXCEPT ![p] = @ + 1]
          /\ UNCHANGED found
    /\ UNCHANGED <<procVars, fileVars, threadVars, requests>>

\* A relaunch call that read the instance (or did not find it) ends.
FoundEnds(p) == found[p] > 0 /\ found' = [found EXCEPT ![p] = @ - 1] /\ UNCHANGED <<fired, gone>>
GoneEnds(p) == gone[p] > 0 /\ gone' = [gone EXCEPT ![p] = @ - 1] /\ UNCHANGED <<fired, found>>

\* relaunch under p.mu: stopped or started meanwhile, nothing to do.
RelaunchUseless(p) ==
    /\ ~wanted[p] \/ cmd[p]
    /\ retry' = [retry EXCEPT ![p] = "nil"]
    /\ NoLaunch
    /\ UNCHANGED <<wanted, timers, fileVars, threadVars, requests>>

\* The instance no longer exists: it is given up.
RelaunchGivesUp(p) ==
    /\ wanted[p] /\ ~cmd[p]
    /\ wanted' = [wanted EXCEPT ![p] = FALSE]
    /\ retry' = [retry EXCEPT ![p] = "nil"]
    /\ NoLaunch
    /\ UNCHANGED <<timers, fileVars, threadVars, requests>>

\* (Variants: p.runningLocked(), or p.wanted, is not looked at.)
RelaunchLaunchesTwice(p) ==
    /\ wanted[p] /\ launchable[p]
    /\ Launch(p)
    /\ retry' = [retry EXCEPT ![p] = "nil"]
    /\ UNCHANGED <<wanted, timers, fileVars, threadVars, requests>>

RelaunchLaunchesStopped(p) ==
    /\ ~cmd[p] /\ launchable[p]
    /\ Launch(p)
    /\ retry' = [retry EXCEPT ![p] = "nil"]
    /\ wanted' = [wanted EXCEPT ![p] = TRUE]
    /\ UNCHANGED <<timers, fileVars, threadVars, requests>>

RelaunchLaunches(p) ==
    /\ wanted[p] /\ ~cmd[p] /\ launchable[p]
    /\ Launch(p)
    /\ retry' = [retry EXCEPT ![p] = "nil"]
    /\ UNCHANGED <<wanted, timers, fileVars, threadVars, requests>>

\* (Variant: a failed relaunch is not tried again.)
RelaunchFailsOnce(p) ==
    /\ wanted[p] /\ ~cmd[p] /\ ~launchable[p]
    /\ retry' = [retry EXCEPT ![p] = "nil"]
    /\ NoLaunch
    /\ UNCHANGED <<wanted, timers, fileVars, threadVars, requests>>

\* The launch fails: another try later.
RelaunchFails(p) ==
    /\ wanted[p] /\ ~cmd[p] /\ ~launchable[p]
    /\ ArmRetry(p)
    /\ NoLaunch
    /\ UNCHANGED <<wanted, fileVars, threadVars, requests>>

RelaunchFound(p) ==
    /\ FoundEnds(p)
    /\ RelaunchUseless(p) \/ RelaunchLaunches(p) \/ RelaunchFails(p)

\* (Variant: an instance not found is left wanted.)
RelaunchGoneIgnored(p) ==
    /\ GoneEnds(p)
    /\ retry' = [retry EXCEPT ![p] = "nil"]
    /\ NoLaunch
    /\ UNCHANGED <<wanted, timers, fileVars, threadVars, requests>>

RelaunchGone(p) ==
    /\ GoneEnds(p)
    /\ RelaunchUseless(p) \/ RelaunchGivesUp(p)

-----------------------------------------------------------------------------
(* The outside: files and programs come and go (installation, other tools).*)

FilesAppear(p) ==
    /\ ~visible[p] \/ ~launchable[p]
    /\ visible' = [visible EXCEPT ![p] = TRUE]
    /\ launchable' = [launchable EXCEPT ![p] = TRUE]
    /\ UNCHANGED <<procVars, relaunchVars, autostart, threadVars, requests>>

ProgramBreaks(p) ==
    /\ launchable[p]
    /\ launchable' = [launchable EXCEPT ![p] = FALSE]
    /\ UNCHANGED <<procVars, relaunchVars, visible, autostart, threadVars, requests>>

-----------------------------------------------------------------------------
\* The steps of a request in progress.
StartStep(t) == StartFindsRunning(t) \/ StartFails(t) \/ StartLaunches(t) \/ StartReturns(t)
StopStep(t) == StopLocks(t) \/ StopSucceeds(t) \/ StopKills(t) \/ StopGivesUp(t)
FileStep(t) == SetAutostart(t) \/ Forget(t) \/ Remove(t) \/ RemoveRefused(t)
ThreadStep(t) == StartStep(t) \/ StopStep(t) \/ FileStep(t)

\* The steps of the goroutines and timers of an instance.
ProcStep(p) ==
    \/ Reap(p) \/ RetryFires(p) \/ StrayTimerFires(p)
    \/ RelaunchReads(p) \/ RelaunchFound(p) \/ RelaunchGone(p)

Outside(p) == Dies(p) \/ FilesAppear(p) \/ ProgramBreaks(p)

Next ==
    \/ \E t \in Threads : ThreadStep(t) \/ \E o \in Ops, p \in Procs : Request(t, o, p)
    \/ \E p \in Procs : ProcStep(p) \/ Outside(p)

\* Every goroutine the Go runtime runs goes on, an armed timer fires, and a program
\* that got SIGKILL ends.  Nothing obliges a user, the files or a healthy program.
Fairness ==
    /\ \A t \in Threads : WF_vars(ThreadStep(t))
    /\ \A p \in Procs :
          /\ WF_vars(Reap(p))
          /\ WF_vars(RetryFires(p)) /\ WF_vars(StrayTimerFires(p))
          /\ WF_vars(RelaunchReads(p))
          /\ WF_vars(RelaunchFound(p)) /\ WF_vars(RelaunchGone(p))
          /\ WF_vars(killed[p] /\ Dies(p))

Spec == Init /\ [][Next]_vars
FairSpec == Spec /\ Fairness

-----------------------------------------------------------------------------
(* Properties.                                                             *)

\* Every variable keeps its type.
TypeOK ==
    /\ cmd \in [Procs -> BOOLEAN]
    /\ wanted \in [Procs -> BOOLEAN]
    /\ retry \in [Procs -> {"nil", "armed", "fired"}]
    /\ timers \in [Procs -> Nat]
    /\ fired \in [Procs -> Nat] /\ found \in [Procs -> Nat] /\ gone \in [Procs -> Nat]
    /\ live \in [Procs -> Nat] /\ ended \in [Procs -> Nat]
    /\ killed \in [Procs -> BOOLEAN]
    /\ visible \in [Procs -> BOOLEAN] /\ launchable \in [Procs -> BOOLEAN]
    /\ autostart \in SUBSET Procs
    /\ op \in [Threads -> Ops] /\ on \in [Threads -> Procs]
    /\ pc \in [Threads -> PCs] /\ open \in [Threads -> BOOLEAN]
    /\ requests \in Nat

\* An instance never has two processes, however requests, timers that fired before
\* they were cancelled and the waiting goroutine interleave (two frps on one port,
\* two frpc with the same proxies), and p.cmd tells whether it has one.
OneProcess == \A p \in Procs : live[p] + ended[p] = IF cmd[p] THEN 1 ELSE 0

\* A thread that watches an exited channel still open watches the process that runs:
\* a stop never waits for, nor kills, a process launched after the one it saw.
WatchesTheProcess == \A t \in Threads : open[t] => pc[t] \in Waiting /\ cmd[on[t]]

\* A process that runs although its instance is stopped is not forgotten: it got SIGKILL,
\* it has ended, or a stop still waits for it and will kill it.  So a stop that loses a
\* race to a start, or a process that ignores SIGTERM, never leaves one behind that no
\* timeout will reach.  (What StoppedInstanceEnds rests on.)
StopUnderWay ==
    \A p \in Procs : cmd[p] /\ ~wanted[p] =>
        \/ killed[p] \/ ended[p] > 0
        \/ \E t \in Threads : on[t] = p /\ open[t] /\ pc[t] = "terminating"

\* A stop acts on the process that runs, and every process that runs although it is stopped
\* is in the reach of a stop, or has been.
StopsReachTheirProcess == WatchesTheProcess /\ StopUnderWay

\* A restart of p is on its way.
RestartDue(p) == timers[p] + fired[p] + found[p] + gone[p] > 0

\* status() shows "activating: pending restart" for a wanted instance that does not
\* run.  (A start request that fails to launch breaks this: see the README.)
ActivatingHasRestart == \A p \in Procs : wanted[p] /\ ~cmd[p] => RestartDue(p)

\* Nothing but a start request that fails to launch loses the restart of a wanted
\* instance: not a stop that lost a race, not a relaunch call that came too late.
RestartOnlyLostByFailedStart ==
    [][\A p \in Procs :
          /\ wanted[p] /\ ~cmd[p] /\ RestartDue(p)
          /\ wanted'[p] /\ ~cmd'[p] /\ ~RestartDue(p)'
          => \E t \in Threads : on[t] = p /\ StartFails(t)]_vars

\* The state an operator sees, "stopping" told apart from "active".
StatusOf(p) == IF cmd[p] THEN (IF wanted[p] THEN "active" ELSE "stopping")
                         ELSE (IF wanted[p] THEN "activating" ELSE "inactive")

\* The threads that have yet to carry out a start of p.
Ordering(t) == \/ op[t] \in StartOps /\ pc[t] \in {"begin", "starting"}
               \/ op[t] = "restart" /\ pc[t] \in {"terminating", "killing"}
OrdersFor(p) == {t \in Threads : on[t] = p /\ Ordering(t)}

Status == INSTANCE InstanceStatus WITH
    status <- [p \in Procs |-> StatusOf(p)],
    orders <- [p \in Procs |-> OrdersFor(p)]

\* The supervisor keeps the promise of InstanceStatus: a stopped instance runs again
\* only because a request starts it, never because of a timer or a relaunch in flight.
KeepsStatusPromise == Status!Spec

\* An instance that is stopped ends: SIGTERM, then SIGKILL, and somebody reaps it.
StoppedInstanceEnds ==
    \A p \in Procs : cmd[p] /\ ~wanted[p] ~> ~cmd[p] \/ wanted[p]

\* An instance that fell runs again, unless it is stopped or given up meanwhile, or
\* its program cannot be launched.
FallenInstanceRestarts ==
    \A p \in Procs : wanted[p] /\ ~cmd[p] /\ RestartDue(p)
                       ~> cmd[p] \/ ~wanted[p] \/ ~launchable[p]
=============================================================================
