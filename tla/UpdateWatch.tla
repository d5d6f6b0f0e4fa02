----------------------------- MODULE UpdateWatch -----------------------------
(***************************************************************************)
(* How a page follows the jobs of the server: the installation of frp from *)
(* the Updates section (assets/js/pages/updates.js), the reinstallation of *)
(* a service from the dashboard (pages/dashboard.js), the update of the    *)
(* panel.  Each asks for the log again and again until the end.            *)
(*                                                                         *)
(* Abstracted: the lines of a log, but for how it ends.  The server        *)
(* (src/panel/updates.go) is here as the page meets it: one job at a time, *)
(* its log reset before the request is answered, and for an upload before  *)
(* the archive comes in; a restart of the panel leaves both logs empty.    *)
(***************************************************************************)
EXTENDS Naturals, FiniteSets

CONSTANTS
    Followers,      \* bound: jobs followed
    MaxJobs,        \* bound: jobs of the server
    MaxWatchFaults  \* bound: requests that fail, restarts of the panel, sections opened or left

ASSUME UpdateWatchAssumption == {MaxJobs, MaxWatchFaults} \subseteq Nat

VARIABLES
    job,          \* what updateLog says: "none", "running", "success" or "failed"; running too: "receiving", an
                  \* upload whose archive is coming in, and "stuck", nothing is
    jobs,
    sectionShown, \* the Updates section: frpLog.term.isConnected
    follower,     \* the polls: of the section's log or the dashboard's, and where each is
    panelLog,     \* the last line of the panel's own log
    panelLanguage,   \* of the lines it writes
    panelFollow,  \* where the section is with the update of the panel
    watchFaults

watchVars == <<job, jobs, sectionShown, follower, panelLog, panelLanguage, panelFollow, watchFaults>>

\* asking: the request is under way; read: its answer; waiting: the timer runs.
Unused == [of |-> "section", step |-> "unused", read |-> "none"]
follows(k) == follower[k].step \in {"asking", "read", "waiting"}
moves(k, step) == follower' = [follower EXCEPT ![k].step = step]
faulty == watchFaults < MaxWatchFaults /\ watchFaults' = watchFaults + 1

WatchInit ==
    /\ job = "none" /\ jobs = 0 /\ sectionShown = FALSE /\ follower = [k \in Followers |-> Unused]
    /\ panelLog = "empty" /\ panelLanguage \in {"fr", "en"} /\ panelFollow = "no" /\ watchFaults = 0

SectionMount ==
    /\ ~sectionShown /\ faulty /\ sectionShown' = TRUE /\ panelFollow' = "no"
    /\ UNCHANGED <<job, jobs, follower, panelLog, panelLanguage>>

\* unmount: the timers go, and with them the polls they belong to.
SectionUnmount ==
    /\ sectionShown /\ faulty /\ sectionShown' = FALSE
    /\ follower' = [k \in Followers |-> IF follower[k].of = "section" /\ follower[k].step = "waiting"
                                        THEN [follower[k] EXCEPT !.step = "left"] ELSE follower[k]]
    /\ panelFollow' = IF panelFollow \in {"waiting", "reloading"} THEN "left" ELSE panelFollow
    /\ UNCHANGED <<job, jobs, panelLog, panelLanguage>>

\* POST install, reinstall, upload: the server has a job already, or resets its log: for a job ...
Busy == {"running", "receiving"}
startJob(first) == jobs < MaxJobs /\ job \notin Busy /\ job' = first /\ jobs' = jobs + 1
follow(k, of) ==
    follower[k].step = "unused" /\ follower' = [follower EXCEPT ![k] = [of |-> of, step |-> "asking", read |-> "none"]]

\* install, reinstall, confirmed; an answer that is lost starts the job and follows nothing.
StartFollowing ==
    /\ \E k \in Followers, of \in {"section", "dashboard"} :
          /\ of = "section" => sectionShown
          /\ \/ startJob("running") /\ follow(k, of) /\ UNCHANGED watchFaults
             \/ startJob("running") /\ faulty /\ UNCHANGED follower
             \/ job \in Busy /\ faulty /\ UNCHANGED <<job, jobs, follower>>
    /\ UNCHANGED <<sectionShown, panelLog, panelLanguage, panelFollow>>

\* ... or for an upload, from this page or another: the client may stall it for ever.
UploadBegins ==
    /\ startJob("receiving")
    /\ UNCHANGED <<sectionShown, follower, panelLog, panelLanguage, panelFollow, watchFaults>>

\* It is stored: the job runs, and the page that sent it follows it in the section that is shown then,
\* or nobody does (no section is shown, the answer is lost, another page sent it).
UploadReceived ==
    /\ job = "receiving" /\ job' = "running"
    /\ \/ sectionShown /\ \E k \in Followers : follow(k, "section")
       \/ UNCHANGED follower
    /\ UNCHANGED <<jobs, sectionShown, panelLog, panelLanguage, panelFollow, watchFaults>>

\* It cannot be stored: the log stays as if a job ran.
UploadRefused ==
    /\ job = "receiving" /\ job' = "stuck"
    /\ UNCHANGED <<jobs, sectionShown, follower, panelLog, panelLanguage, panelFollow, watchFaults>>

\* A job that has its archive, or fetches it.
JobEnds ==
    /\ job = "running" /\ job' \in {"success", "failed"}
    /\ UNCHANGED <<jobs, sectionShown, follower, panelLog, panelLanguage, panelFollow, watchFaults>>

PanelRestarts ==
    /\ IF panelLog = "restarting" THEN UNCHANGED watchFaults ELSE faulty
    /\ job' = (IF job \in Busy \cup {"stuck"} THEN "failed" ELSE job) /\ panelLog' = "empty"
    /\ UNCHANGED <<jobs, sectionShown, follower, panelLanguage, panelFollow>>

LogAnswered(k) ==
    /\ follower[k].step = "asking"
    /\ follower' = [follower EXCEPT ![k].step = "read", ![k].read = job]
    /\ UNCHANGED <<job, jobs, sectionShown, panelLog, panelLanguage, panelFollow, watchFaults>>

\* (Variant: only a success is taken for an end.)
TickTillSuccess(k) ==
    /\ follower[k].step = "read"
    /\ moves(k, IF follower[k].read # "success" THEN "waiting" ELSE "told")
    /\ UNCHANGED <<job, jobs, sectionShown, panelLog, panelLanguage, panelFollow, watchFaults>>

\* tick, once the log has come: the end is told, or a timer set, even when the section was left meanwhile.
Tick(k) ==
    /\ follower[k].step = "read"
    /\ moves(k, IF follower[k].read \in Busy \cup {"stuck"} THEN "waiting" ELSE "told")
    /\ UNCHANGED <<job, jobs, sectionShown, panelLog, panelLanguage, panelFollow, watchFaults>>

\* The request for the log fails: it is asked for again.
TickFails(k) ==
    /\ follower[k].step = "asking" /\ faulty /\ moves(k, "waiting")
    /\ UNCHANGED <<job, jobs, sectionShown, panelLog, panelLanguage, panelFollow>>

\* The timer: the poll of the section stops when its log is no longer in the page.
TickAgain(k) ==
    /\ follower[k].step = "waiting"
    /\ moves(k, IF follower[k].of = "section" /\ ~sectionShown THEN "left" ELSE "asking")
    /\ UNCHANGED <<job, jobs, sectionShown, panelLog, panelLanguage, panelFollow, watchFaults>>

\* update(), of the panel.
UpdatePanel ==
    /\ sectionShown /\ panelFollow \in {"no", "failed"} /\ panelLog # "working"
    /\ faulty /\ panelLog' = "working" /\ panelFollow' = "waiting"
    /\ UNCHANGED <<job, jobs, sectionShown, follower, panelLanguage>>

PanelUpdateEnds ==
    /\ panelLog = "working" /\ panelLog' \in {"error", "restarting"}
    /\ UNCHANGED <<job, jobs, sectionShown, follower, panelLanguage, panelFollow, watchFaults>>

\* The tick of the panel's log: the end is told by its French wording.
PanelTick ==
    /\ panelFollow = "waiting" /\ sectionShown
    /\ panelFollow' = IF panelLog = "restarting" /\ panelLanguage = "fr" THEN "reloading"
                      ELSE IF panelLog = "error" THEN "failed" ELSE "waiting"
    /\ UNCHANGED <<job, jobs, sectionShown, follower, panelLog, panelLanguage, watchFaults>>

\* location.reload(), 4 s later.
PageReloads ==
    /\ panelFollow = "reloading" /\ panelFollow' = "left" /\ sectionShown' = FALSE
    /\ follower' = [k \in Followers |-> IF follows(k) THEN [follower[k] EXCEPT !.step = "left"] ELSE follower[k]]
    /\ UNCHANGED <<job, jobs, panelLog, panelLanguage, watchFaults>>

\* What goes on by itself: jobs end, requests are answered, timers fire.  Not an upload.
FollowStep(k) == LogAnswered(k) \/ Tick(k) \/ TickAgain(k)
ServerEnds == JobEnds \/ PanelUpdateEnds
WatchNext ==
    \/ SectionMount \/ SectionUnmount \/ StartFollowing \/ ServerEnds \/ PanelRestarts
    \/ UploadBegins \/ UploadReceived \/ UploadRefused
    \/ \E k \in Followers : FollowStep(k) \/ TickFails(k)
    \/ UpdatePanel \/ PanelTick \/ PageReloads

WatchFairness == WF_watchVars(ServerEnds) /\ WF_watchVars(PanelTick) /\ \A k \in Followers : WF_watchVars(FollowStep(k))
WatchSpec == WatchInit /\ [][WatchNext]_watchVars /\ WatchFairness

WatchTypeOK ==
    /\ job \in {"none", "running", "success", "failed", "receiving", "stuck"} /\ jobs \in 0..MaxJobs
    /\ sectionShown \in BOOLEAN /\ watchFaults \in 0..MaxWatchFaults
    /\ follower \in [Followers -> [of : {"section", "dashboard"},
                                   read : {"none", "running", "success", "failed", "receiving", "stuck"},
                                   step : {"unused", "asking", "read", "waiting", "told", "left"}]]
    /\ panelLog \in {"empty", "working", "error", "restarting"} /\ panelLanguage \in {"fr", "en"}
    /\ panelFollow \in {"no", "waiting", "failed", "reloading", "left"}

(* Whoever follows a job is told of its end, unless the section was left,  *)
(* with requests that fail, a panel that restarts and a section opened     *)
(* again meanwhile; and the section is not left waiting for an update of   *)
(* the panel that has failed.  Not held to it: who reads a log that an     *)
(* upload has reset and left "running", or keeps so while its archive is   *)
(* to come (a client may stall there, and only a job that runs has to end);*)
(* a panel that has restarted before the page read so, or wrote so in      *)
(* English: its log is empty then, and the page asks for ever.             *)
FollowEnds ==
    /\ \A k \in Followers : follows(k) ~> (~follows(k) \/ job \in {"stuck", "receiving"})
    /\ panelFollow = "waiting" ~> (panelFollow # "waiting" \/ panelLog \in {"empty", "restarting"})
=============================================================================
