# frp-manager: a TLA+ verification of the panel

frp-manager is a web panel (Go, one process) for the tunnel programs frps and frpc:
it discovers their instances, starts and stops them, edits their configurations,
installs new versions, filters the ports they open, and lets several accounts do so.
In *standalone mode* (the Docker image) it is also their supervisor: there is no
systemd, the panel launches the programs and restarts them.

Its web interface is plain JavaScript, served by the panel; a Cloudflare worker counts the
anonymous statistics panels send.

This directory models the parts where several goroutines, timers, programs, requests and
pages meet. TLC checks the models on small instances; TLAPS proves the theorems for every
value of the constants. Paths below are under `src/panel/`, those of the web interface
(`*.js`) under `src/panel/templates/assets/js/`.

## 1. The system

| Component | Files | State it keeps | Operations |
|---|---|---|---|
| Process supervisor | `standalone.go` | one `frpProc` per instance: `cmd`, `wanted`, `retry`, `failures`, `exited`, under `p.mu`; the `autostart` list in the configuration | start, stop, restart/reload, enable/disable, forget, relaunch by timer, reaping |
| Start order | `frpsready.go` | none (local to a call) | `startServersFirst`, `waitFrpsListening` |
| Boot, shutdown | `standalone.go`, `main.go` | none | `standaloneBoot`, `handleShutdown`, `stopAllProcs` |
| frp installation, updates | `frpinstall.go`, `updates.go` | installed programs, `updateMu`, `updateLog`, `state.json`, `githubCache` | install by version, upload, check, panel update |
| Firewall | `firewall.go` | nftables table, `fwApplied`, `fwSeenOK`, `fwKnownList`, the `firewall` entry of the configuration | save, apply, periodic pass, verdicts, lists, AS prefixes |
| Accounts, sessions | `auth.go`, `users.go`, parts of `routes.go` | owner and accounts in the configuration, signed session cookies, failures per address | setup, login, logout, change password, create/edit/delete an account |
| Configuration store | `config.go` | `cfg()` snapshot, file, `cfgMu` | copy, patch, write (temporary file and rename), publish |
| Discovery and state cache | `system.go` | `detectCache`, `statusCache` under `detectMu`, `state.json` | `detectFrp`, `invalidateCache`, `loadState`, `saveState` |
| Routes | `routes.go` | none | instance control and deletion, configuration editing, ports, logs, settings |
| Instance creation | `instances.go` | files and units, `createMu` | create, duplicate, import; choice of free ports |
| Webhooks and monitor | `webhooks.go` | queue of 200 events, history of 50, cooldowns, seen and pending states | emit, worker, retries, monitor, update notices |
| OpenID Connect, passkeys | `oidc.go`, `passkeys.go` | pending flows, credentials | sign-in, linking, registration |
| Statistics | `stats.go` | day of the last signal | once a day |
| HTTP server | `server.go` | cookie keys, CSRF | dispatch, gate of the first setup |
| Text and addresses | `frptemplate.go`, `i18n.go`, `netutil.go`, `netaddr/` | none | pure functions |
| Web interface: texts | `toml.js` | none | read a configuration, merge the form into it, write the tunnels again |
| Web interface: live state | `store.js`, `main.js`, `api.js` | `store.instances`, the WebSocket and its timers | push, poll, connect again |
| Web interface: pages | `pages/dashboard.js`, `logs.js`, `config.js`, `tunnels.js`, `updates.js`, `firewall.js` and others | a draft or a view each (`S`, `rules`, `cards`) | load, edit, save, follow a job |
| Statistics receiver | `src/tools/stats-worker/` | tables `pings`, `ips`, `fails` | count a ping, limit, clean; the private page |
| Packaging, tools | `packaging/`, the rest of `tools/`, `install.sh` | | not part of the running panel |

**How they interact.** Every HTTP request is a goroutine. `main.go` also starts
`handleShutdown`, `standaloneBoot`, `fwSyncLoop`, `webhookWorker`,
`webhookMonitorLoop` and `statsLoop`. They share the configuration (an immutable map
that is replaced under `cfgMu`: readers keep whatever snapshot they took), the
`frpProc`s, `fwMu`, `updateMu`, the caches under `detectMu` and `state.json`. Locks are
taken in the order `detectMu`, `p.mu`; and `fwMu`, `fwKnownMu`. A program that ends is
reaped by a goroutine of `launchLocked`, which arms a timer; the timer runs `relaunch`.

A page has one thread, but every `await` lets other handlers in: the user goes on typing,
selects another instance or another page, and answers come in any order or not at all.
It shares the files with everybody else who writes them, and knows them by what it read
last. A request of the worker shares only the tables with the others.

**What is hard.** A timer that has fired cannot be cancelled; a snapshot of the
configuration (or of the instances) outlives the change that replaced it; stop and
restart wait with no lock held; jobs stop, replace and start programs that others
start and stop; SIGTERM may arrive at any of these moments; a write may fail after
its effect. In a page, an answer is about an instance that is no longer selected, a
draft is saved over what others wrote since, a connection drops between a push and the
poll that replaces it, and a request that failed may have been carried out.

**What makes each part correct.**

- Supervisor: one process per instance, always watched; a stopped instance stays
  stopped unless somebody starts it; a fallen one comes back; a stop ends.
- Start order, jobs: frps before frpc; what a job stops it tries to start again; the
  new version is what runs; jobs end; the log tells when a job runs.
- Firewall: the kernel ends up with the rules of the saved configuration, whatever
  order saves and passes take; no load for nothing; disabled means no filtering.
- Accounts: names differ; deleted accounts stay deleted; a password changes because
  somebody asked to change it; rights come from somebody who has them.
- Webhooks: only a change that lasts is announced, and in order; what a hook was last told
  is true; neither a full queue nor a hook that never answers blocks the panel.
- Texts: merging the form changes the keys touched and nothing else; saving a list of
  tunnels that was not touched keeps the file.
- Live state, dashboard, logs: once things are quiet the page shows what is there; a log
  never mixes two instances.
- Pages that save: nobody else's change is lost to a save that did not touch it; what is
  saved is well formed and the user's; a rule that would lock the user out is shown first.
- Follow-up of jobs: it ends when the job ends.
- Statistics receiver: the limits hold though requests overlap.
- `state.json` (planned): a value that was recorded is not lost.

`PROJECT.json` lists the hazards line by line, with the properties that cover each one;
section 6 has those no property covers.

## 2. The modules

| Module | Models | Used by |
|---|---|---|
| `InstanceStatus` | abstract: what standalone mode promises about an instance | `Supervisor` and `Fleet` implement it |
| `EventDelivery` | abstract: what the notifications promise a webhook | `Webhooks` implements it |
| `Supervisor` | the `frpProc` of `standalone.go`, the service and deletion routes | `SupervisorProofs` |
| `Fleet` | boot, installation jobs, start order, shutdown, operators | `FleetProofs` |
| `Firewall` | saves, passes, `fwApply`, the kernel table | `FirewallProofs` |
| `Accounts` | accounts, passwords, sessions, account management | `MCAccounts`, `AccountsProofs` |
| `SignIns` | passkeys and OpenID Connect: what an account is opened with | `MCAccounts`, `SignInsProofs` |
| `MCAccounts` | the two above, side by side, for TLC, with their symmetry | `SignInsProofs` |
| `Webhooks` | monitor, queue, worker, attempts, cooldown | `WebhooksProofs` |
| `ConnectionText` | `mergeConnection`: the form written into a hand-made file | `Web` |
| `TunnelText` | `parseToml`, `pairProxies`, `composeClientConfig`: a file of tunnels read and written again | `Web` |
| `StatusFeed` | the live state of the instances: push, poll, reconnection | `Web`, `PageProofs` |
| `Dashboard` | cards, switches of the automatic start, unused configurations | `Web`, `PageProofs` |
| `LogView` | the page of logs: loads, live streams, reconnection | `Web`, `PageProofs` |
| `ConfigPage` | the form of a configuration, with others who write the file | `Web`, `PageProofs` |
| `TunnelsPage` | the draft of the tunnels, the save bar, names and types | `Web`, `PageProofs` |
| `UpdateWatch` | how pages follow the jobs of the server | `Web`, `PageProofs` |
| `FirewallPage` | the draft of the rules and the test of the user's own address | `Web`, `PageProofs` |
| `StatsWorker` | the receiver of statistics and the gate of its private page | `Web`, `StatsWorkerProofs` |
| `Web` | the ten modules above, side by side, for TLC | `PageProofs` |
| `SupervisorProofs`, `FleetProofs`, `FirewallProofs`, `AccountsProofs`, `SignInsProofs`, `WebhooksProofs`, `StatsWorkerProofs`, `PageProofs` | theorems | |

Names follow the code. Definitions introduced by "(Variant: ...)" are the code with
one plausible mistake; they are not part of any specification and serve to show that
each property can fail. `PROJECT.json` ("mutants") says which property each one breaks.

### Supervisor

One action is one critical section of `p.mu`, one wake-up of a waiting goroutine, or
one event outside the panel. `cmd`, `wanted` and `retry` are the fields of the same
name; `timers` counts the armed timers (a handle that is overwritten leaves a stray
one: `StrayTimerFires`); `fired`, `found` and `gone` are the calls of `relaunch` before
and after they read the instances, which happens before `p.mu` is taken;
`live`/`ended` are the processes that run and those that have ended and not been
reaped; `open[t]` says whether the `exited` channel that thread `t` waits on is open.
Restart is stop, then start, with no lock between (`AfterStop`); deletion is stop,
taking out of the autostart list, and removal of the files, which may be refused
after the stop. `Lists` is `setAutostart`, whose write of the configuration may fail; so may
the one of a deletion, which looks at no error. `visible` and `launchable` are what the file system says: whether the
instance is listed, and whether `launchLocked` would succeed; they change freely.
Durations are abstracted: a timer fires at any time, a wait may time out at any time.

### Fleet

Takes each instance as `InstanceStatus` describes it (a status, changed by start, stop,
the end of a program and its restart) and adds what spans instances: `file`, the
installed version of each program, and `version`, the one each process was launched
from; a request that takes `updateMu` and either becomes a job at once or, for an upload,
once the archive has come in (`receiving`); a job that holds `updateMu`, takes the list of running instances, stops them
one after the other, replaces the programs (or fails at any point) and restarts
them in the deferred function; `startServersFirst` for the job and for the boot, with
its wait and its deadline (the boot is a goroutine, and may begin after requests and jobs);
operators who start (a request that is accepted and
carried out later) and stop; SIGTERM and `stopAllProcs`. `told` is the set of processes
that got SIGTERM. `origin`, `cut` and `silent` are history: who launched a process,
which instances a job stopped and nobody has tried to start since, and which servers
a starter started that have neither listened nor ended since.

### Firewall

`config` is the saved configuration, `table` the kernel's table, `applied`, `seenOK` and
`known` the panel's memory. A save loads (`fwApply`, under `fwMu`) and then writes the
configuration; either may fail. `fwSyncPass` is cut where it reads: the configuration
(`snap`), the ports and the text, `fwApplied`, the presence of the table, and the
application of `snap`. `Restart` forgets the panel's memory; `TableRemoved` is another
program that flushes nftables. A rule is a model value; what rules resolve to is one
set of ports, so that a text is its rules, its ports and whether it uses dynamic sets.

### Accounts

`account` is the configuration: per identifier a record or nobody; the owner is one of
them. A handler checks on what it reads when it begins (one action), and writes under
`cfgMu` later (another), then opens a session where the code does (a third). A hash is
its password and its salt; `old` is a hash of an earlier version, which the first
sign-in replaces. A cookie can be shown again, so `sessions` only grows; `Opens` is
`currentUser`. An edit always writes back the rights of the record it had read.

### SignIns

`holder` is the configuration again, here with what `Accounts` leaves out and without what it
has: the source of an account (a password, or OpenID Connect), its passkeys with their
counters, its e-mail and the identity (issuer, subject) it is linked to. As in `Accounts`, a
request is the checks on what it reads at its beginning, then the write under `cfgMu` (which
checks again what the code checks again: `WritesPasskey`, `Resolve`, `WritesHolder`), then
`startSession`. A sign-in by passkey compares the counter with the one it has read (`Ahead`),
and writes it later (`WritesCount`; if that fails the sign-in goes on). `device` is the counter
in a device, and an answer it has given can be posted once, at any time, which is what the
challenges allow. `Resolve` is `oidcResolveUser` as one section: the account linked to the
identity, or the only one ready for its e-mail, or a new one. A cookie keeps the identity of the
fingerprint and the passkey; `shown`, the identity the user has proved, is history. Identifiers
are random, so no account gets one that was used before.

### Webhooks

`actual` is what `detectFrp` shows of an instance: it runs, does not, has lost its program
or is not listed. A pass of `webhookMonitorLoop` reads all instances at once (`reading`)
and compares them one by one with `seen` and `pending`, its two maps; an announcement goes
through `Emit`, which drops it if the channel is full. The worker takes an event (`Takes`), then the
hooks that are active at that later moment (`Chooses`, `todo`), skips those in their cooldown (`hot`), and makes its
attempts (`tries`), each an action; one that fails may have reached the hook. `before`
(the reading before), `got` and `told` (what hooks received) and `excused` are history.
`told` and `before` serve the properties and guard nothing. Each hook wants every event.

### ConnectionText, TunnelText

A text is a sequence of lines, each a record (key, table head, tunnel head, comment,
`{{ if }}`, ...). `ConnectionText` follows `mergeConnection`: for each key touched, in the
order the form writes them, it finds the line, the inline table or the place of a new one,
then writes, inserts or removes; `SettingsOf` is a reading of the file made independently,
with which `MergeIsExact` compares the result. `TunnelText` reads a file into settings,
blocks and their comments, pairs the tunnels, lets the page do nothing, add or remove
one, and composes the whole file again.

### StatusFeed, Dashboard, LogView

`truth` is the number of changes so far, `channel` what is on its way on `/ws/status`,
`asked` the requests that have not been answered or handled; the timers, `everOpened` and
`failedOpenings` are those of `store.js`. Every answer is two actions: the server gives it,
the page handles it, so that answers and pushes cross. `Dashboard` has the cards, the
switches and the unused configurations, whose requests are numbered (`orphanSeq`): only the
last one is used. `LogView` has loads (`seq` in the code) and streams, which have their own
number; a line is the place it comes from and its rank there.

### ConfigPage, TunnelsPage, FirewallPage

Each has the file of each instance, what the page read last, the
draft, and the requests under way. A save of a form is a read of the file, a merge of the
touched keys and a POST; a save of the tunnels or of the rules writes the whole list. Others
write the files at any moment. Ghosts say what only others have written and which draft the
user has seen saved. For the rules, the server's verdict is asked first, if the panel knows the
user's address; frps are created and deleted meanwhile.

### UpdateWatch

`job` is what `updateLog` says (which an upload makes "running" while its archive comes in, and
leaves so if it is refused), `follower` the polls (of the section, of the dashboard),
`panelLog` the last line of the panel's own log. Restarts of the panel empty both logs.

### StatsWorker

One slot per request under way; every statement of D1 is an action, a request is not. The
clock ticks at any moment, so that a request may span midnight.

### Web

The ten modules share no variable: a page reaches another one only through the files and
the jobs of the server, and each module has "others" who write those. `part` picks one of
them; a behaviour is one of that part. This gives every part its own exploration in one run,
and no more: nothing is claimed of two parts together. What is proved of a part holds of `Web`
(`PartsKeepTheirWord`).

## 3. The runs

| Run | Instance | Shows |
|---|---|---|
| `supervisor` | 1 instance, 2 threads, 4 requests, fair; 190 k states | all supervisor properties below |
| `supervisor_failed_start` | 1 instance, 1 thread, 2 requests | *violation*: `ActivatingHasRestart` |
| `firewall` | 1 rule, 1 port, 2 savers, 2 saves, 2 faults, 1 port change, fair; 696 k states | `AppliedIsLoaded`, `FilterFollowsConfig`, `NoReloadForEver` |
| `firewall_disabled` | smaller | *violation*: `DisabledFiltersNothing` |
| `fleet` | 1 frps, 1 frpc, 2 installations, 3 requests, 1 fall, fair; 353 k states | jobs and operators |
| `fleet_boot` | boot of both, 1 job, 1 fall, SIGTERM at any moment; 406 k states | refinement of `InstanceStatus`, with boot and shutdown |
| `fleet_upload` | smaller | *violation*: `RunningMeansJob` |
| `fleet_shutdown` | smaller | *violation*: `ExitsWithNothingRunning` |
| `accounts` | one part at a time; `Accounts`: owner and 2 accounts, 3 names, 2 passwords, 2 rights, 2 requests; `SignIns`: owner and 2 accounts, 2 passkeys (one without a counter) of which an account may have 1, 2 identities, 1 e-mail, 3 requests; 480 k states up to symmetry | account and sign-in properties |
| `accounts_rehash` | owner and 1 account | *violation*: `RehashKeepsThePassword` |
| `webhooks` | 1 instance, 2 hooks (one with a cooldown), queue of 1, 2 attempts, 3 steps of the outside, fair; 258 k states | webhook properties |
| `web` | one part at a time, see below, fair; 563 k states | properties of the web interface and of the receiver |

**Properties.** `OneProcess`: never two processes of an instance, and `cmd` knows.
`StopsReachTheirProcess`: a stop waits for the process that is there, never for a later one
(`WatchesTheProcess`), and a process that runs although it is stopped has been killed, has ended, or
has a stop that waits for it (`StopUnderWay`).
`RestartOnlyLostByFailedStart`: the restart of a wanted instance is lost in one way only,
the one of the first finding. `KeepsStatusPromise`: refinement of `InstanceStatus`, so a
timer or a relaunch in flight never starts what was stopped. `StoppedInstanceEnds`,
`FallenInstanceRestarts`: liveness of stop and of the restart.
`ClientsWaitForServers`: a frpc is started once every frps of the list has been tried,
and listens or has ended, unless the deadline has passed. `UpdatedProgramsRun`: what a
job launched always runs the installed version, since a later job stops it first.
`NoneLeftBehind`: what a job has stopped is on the list of the job at work until it has tried to
start it, wherever it fails; with `updateMu` free, nothing is left. `JobsEnd`: every job that has its archive, or fetches it,
ends, whatever uploads stall; so all that an update stopped is tried again (`StoppedByUpdateIsStarted`, proved of the two). `AppliedIsLoaded`: a pass that skips the load because nothing
changed never leaves other rules in the kernel. `FilterFollowsConfig`: once saves, faults
and port changes are over, the table of an enabled firewall is the saved one.
`NoReloadForEver`: and it is not loaded over and over. `UserNamesDiffer`,
`DeletedStaysDeleted`, `PasswordsChangeOnRequest`, `RightsComeFromAbove`: section 1.
`CredentialsAreOnesOwn`: a passkey is on one account, once, and within the number allowed; an
identity is linked to one account; a session that opens an account was opened with its identity.
`CounterOnlyOvertaken`: a counter goes back only in the way told in section 4.
`OnlyWhatHeldIsAnnounced`: what the monitor takes for a new state, the reading before
showed too.
`KeepsDeliveryPromise`: refinement of `EventDelivery`; a hook is sent the first event due to it,
and what was sent, skipped, given up or forgotten is never due again; so attempts and drops never
turn events round (`ReceivedInOrder`, proved too).
`QueueDrains`: every event gets its turn although no hook answers. `LastWordIsTrue`: a
hook without a cooldown knows the state of a quiet instance, unless a notification was
lost to a full queue, a send given up, a change of hooks, a restart or an absence of the
program (each sets `excused`; a hook with a cooldown may well be left with older news).
`LastWordDue`, with the same excuse and at every moment: the last thing such a hook was told, or is
due to be told, of an instance is the state the monitor goes by.
Each module has one type invariant, `TypeOK` (`WebTypeOK` for the ten of `Web`,
`AccountsTypeOK` for the two of `MCAccounts`). Those of `Fleet` and `Firewall` are in no run, since
they are proved for every instance; `fleet` and `fleet_boot` are one module, and what is
proved of it (`ClientsWaitForServers`) is checked in the first only.

Of the parts of `Web`:

- `MergeIsExact`: the form changes the keys touched in it and nothing else; every other setting
  keeps its value and the template blocks that guard it; comments, templates, tunnels stay, in
  order; or the file is refused.
- `SaveKeepsFile`: a save keeps what the page does not show: settings under their table, each
  comment once, where it belongs, every tunnel neither removed nor added with all its keys; saved
  again, the file stays as it is.
- `PageCatchesUp`: once changes and faults have ended the page shows the instances as they are,
  pushed or asked for.
- `StaleIsPending`: at every moment before, a page with an older state has a way to learn of it: its
  connection is being opened, it is down and the page polls, or it is open and a push is on its
  way or due (or an older answer has overtaken one).
- `DashboardSettles`: with nothing under way, the switches say what is enabled and the
  configurations listed are those no service uses.
- `LogShowsSelection`: lines of the selected place and no other, each once, in order; without a
  lost connection none is missing in between.
- `SaveKeepsOthers`: what others wrote in a file stays until the user changes that very setting.
- `SavedTunnelsAreSound`: frpc never gets two tunnels of one name, and a save takes no tunnel away
  that the user did not remove or change.
- `FollowEnds`: whoever follows a job that runs is told of its end.
- `RulesInTheOpen`: the user is not cut off by rules applied here without having been told, and
  every rule of the draft can be seen under one of the frps.
- `StatsLimits`: the limits of the receiver hold but for the requests that overlap, and no count
  of a day still kept is lost.

Section 4 says what they are not held to.

**Bounds, and why they are enough.** Instances do not share state in the supervisor
(each has its own `frpProc` and lock), so one is enough; two threads and four requests
give every overlap of two requests with timers and a fall, and sequences of them. The
firewall reacts to one rule and one port as to several (texts are only compared); two
saves overlap each other and a pass, and two faults combine (a refused load and a
restart). In the fleet one frps and one frpc are needed for the order; two
installations show a second job that meets what the first left. In `accounts` the
initial states are *all* sets of accounts, so two requests give every pair of
overlapping handlers from any situation; an edit gives one field beside the rights.
For the sign-ins they are all sets of accounts with their passkeys or e-mails; three requests
put a third one (an edit, a deletion, another sign-in) between the halves of two, which is what
a counter that goes back, a passkey added twice or an account linked twice would take; the owner
has no passkey at first and may add one.
In `webhooks` the instances are compared one by one and share only the queue; a queue of
one is filled by an event while the worker holds another; three steps of the outside are
the least for a change that does not last followed by one that does, and for a full queue.
In `web` a text has up to three lines of twenty kinds and a file up to four parts of ten, enough
for a key shadowed, nested, guarded or missing, and for a comment on either side of a block;
two instances are the least for a late answer about another one; four acts on the logs open a
stream, lose its connection and stop it with a line missing; three faults let a
connection drop, a poll fail and a tab hide; the keys `a`, `s.x` and `s.t.y` give the three depths
of tables; three requests, two at once, of two addresses that may send two pings each reach each limit
(a day is full after one); two faults of the watch lose a request and restart the panel; three acts
show a form, then save it (with brackets to take off) or edit it, and select another instance
meanwhile; on the dashboard what the user does, what others do and the requests that fail have one
bound together, and two of them meet in every order.
Every bound is a constant in a guard (`MaxRequests`, `MaxSaves`, `MaxFaults`, `MaxChanges`,
`MaxJobs`, `MaxFalls`, `MaxShutdowns`, `MaxOutside`, those of `Web.cfg`); after it the environment stops and the panel goes
on, which is when liveness is judged. `fleet`, `fleet_boot`, `accounts` and `web` may stop (the
panel has exited, nobody asks anything more, users go away), hence no deadlock check there.

**Fairness and why the code justifies it.** Weak fairness only, for steps the Go runtime
or the kernel must take: a goroutine in the middle of a request or a job, a timer that
is armed, the loops of `fwSyncPass`, `webhookMonitorLoop` and `webhookWorker` (whose pauses
and requests are bounded in time), a deadline
(`stopTimeout`, `frpsReadyTimeout`), a process that got SIGKILL (in `Fleet`, which leaves out
the SIGKILL of `stop`, one that was told to end). In `web`, the timers of a page
fire (`PollTick`, `PanelTick`), a request is answered or fails and its answer is handled
(`FeedProgress`, `FollowStep`), and a job of the server ends (`ServerEnds`: `JobsEnd` of `Fleet`).
Nothing is assumed of an upload: its handler reads the body of the request with `updateMu` held and no
deadline (`updates.go:565`; `main.go:155` sets one for the headers only), so its client may stall it
for ever, and `UploadStep` has no fairness. No user has to act, no healthy program has to end,
no file has to appear, no hook has to answer. nft may refuse `MaxFaults` loads, not all of them.

## 4. What the violations show

1. `ActivatingHasRestart`: `start` cancels the pending restart, then fails to launch and
   returns; `wanted` stays true and nothing is pending. The status stays "activating",
   which the comment at `standalone.go:424` calls "pending restart".
2. `DisabledFiltersNothing`: a pass that read the enabled configuration loads it after a
   save has disabled the firewall and answered that nothing is filtered any more; later
   passes return at once, so the rules stay until the next save.
3. `RunningMeansJob`: an upload refused for its file leaves `updateLog.running` set.
4. `ExitsWithNothingRunning`: `stopAllProcs` takes its list once; a start carried out after
   it leaves a program behind when the panel exits.
5. `RehashKeepsThePassword`: the rehash of a sign-in overwrites a password that was changed
   between the verification and the rehash.

**Met in the sign-ins.** The counter of a passkey is compared with the one read at the
beginning (`passkeys.go:647`) and written later without another look (`passkeys.go:872`). Two sign-ins by one passkey that
overlap may be written in the other order, and an answer signed between the two counters is
accepted afterwards; `CounterOnlyOvertaken` says that nothing else turns a counter back.

**Met in the updates.** `POST /api/update/upload` takes `updateMu`, then waits for the archive
(`updates.go:560-578`) without a deadline: a client that stalls there keeps every other update
refused and the log at "running". `JobsEnd` and `FollowEnds` begin when the archive is there; no
program has been stopped before that (`EndedUpdatesHaveRestarted`).

**Met in the web interface and the receiver.** The properties of `Web` leave out the following,
which the models reproduce (each has its action, and a state that says it happened). They are
what the code does, at the lines given; no text of the repository promises otherwise.

- `MergeIsExact`: a table inserted before a template block that guards both a setting and the
  first tunnel (`toml.js:1243`).
- `SaveKeepsFile`: a file of tunnels alone, whose first comments belong to nobody
  (`OnlyBlocks`); visitors without a name, and keys that have the default's value, are not written.
- `PageCatchesUp`: an answer asked before what was pushed since replaces it, until the next push
  (`store.js:114`, `store.js:178`); a hidden tab does not poll.
- `ConfigPage`: selecting another instance while a save reads the file writes the first one's
  content to the second one's file (`config.js:405`: the POST takes `S.iid` after the `await`);
  what is typed during the POST counts as saved (`config.js:417`).
- `TunnelsPage`: a load that fails leaves the empty list as the reference (`tunnels.js:164`); a
  list brought by an answer about another instance can be saved there (`tunnels.js:787`); a save
  without an answer drops the draft (`tunnels.js:796`).
- `FollowEnds`: the page looks for the word "Redémarrage" in a log that is in English for an
  English panel (`updates.js:310`, `updates.go:428`), and asks for ever for the log of a panel that
  has restarted before it read it.
- `FirewallPage`: rules are applied untested when they are changed, or a frps is created, while the
  test of the user's address is under way (`firewall.js:919`), when that test fails, and when the panel
  does not know the address (`firewall.js:921`); the load that follows an application drops what was edited
  since.
- `Dashboard`: "Detect again" clears `orphanKey` but the cards are only drawn again when
  something else has changed (`dashboard.js:72`); a list that could not be read is not asked for
  again, and an answer that is not ok empties it (`dashboard.js:479-482`); a switch whose answer was lost goes back although the setting was
  made (`dashboard.js:191`).
- `LogShowsSelection`: the lines between a lost connection and the next one are not shown.
- `StatsLimits`: a request that spans midnight starts an address's count again; and the limits are
  those of overlapping requests (a limit, and as many as were under way), looser than the comments
  of `logic.js`; a refused password counts once it is written.

## 5. What is proved

For all sets `Procs` and `Threads`, and any bounds, `SupervisorProofs` proves:

- `TypeCorrect`: `Spec => []TypeOK`.
- `OneProcessAlways`, `WatchersAlways`: `Spec => []OneProcess`, `Spec => []WatchesTheProcess`.
  The inductive invariant is the conjunction of the two with `TypeOK`: neither is
  inductive alone, since a launch needs `~cmd` to mean that no process is left, and a
  thread that waits keeps its claim over a reaping only because the reaping closes
  the channel of every thread that watches that instance.
- `StatusRefinement`: `Spec => KeepsStatusPromise`. Every step maps to a step of
  `InstanceStatus` or to a stutter. It rests on the same invariant and on a small one
  (`StartingIsRestart`: a thread at the start after a stop carries out a restart), which
  says that such a thread still holds its order.
- `OnlyFailedStartsLoseRestarts`: `Spec => RestartOnlyLostByFailedStart`. A restart that is due is an
  armed timer or a call of `relaunch` at some point of its way; each step of these hands it
  on or makes it useless (the instance runs, or is not wanted any more), and of the requests
  only a start that fails and a stop take it back.
- `StopReaches`: `Spec => []StopsReachTheirProcess`. Of its second half, only two steps could
  leave a process out of reach: a stop that gives its wait up, which has then killed the process it
  waited for, and a step that takes `wanted` back, which is a stop that begins to wait. For the others, `WatchersAlways` says that the
  process waited for is still the one that runs (`RequestsReach`, `GoroutinesReach`).

For all `Rules`, `Ports`, `Savers` and bounds, `FirewallProofs` proves `TypeCorrect`
(`Spec => []TypeOK`) and `AppliedAlways` (`Spec => []AppliedIsLoaded`); here the type
invariant is enough, because `applied` is only ever assigned together with `table`.

For all `Servers`, `Clients`, `Jobs`, `Autostart` and bounds, `FleetProofs` proves:

- `TypeCorrect`, and `InstalledVersionRuns`: `Spec => []UpdatedProgramsRun`. The property is not
  inductive: a job that replaces a program must have no process of it left that an earlier job
  launched. `StillToStop` says where those processes are at any moment of the job (on the list
  it took, or told to end), and `OneJob` (`updateMu`) that nobody but the job launches for an
  update meanwhile.
- `ServersComeFirst`: `Spec => ClientsWaitForServers`. `SilentAreWaitedFor` keeps the servers that
  have been started and say nothing among those that are waited for; when the wait ends in
  time there are none, and from then on the list has no server left to start.
- `PromiseKept`: `Spec => KeepsStatusPromise`. Seen from one instance, every step is a step of
  `InstanceStatus` or none, also where the boot or a job orders a whole list at once. It needs
  `RestingListsEmpty`: a list is empty when it is written, so no order is ever lost or given twice.
- `UpdateLeavesNothingBehind`: `Spec => []NoneLeftBehind`. `StoppedAreListed`: what a job has yet to
  stop is among what it will start again. An instance leaves that list only by being tried, and
  `updateMu` is given back with the list empty (`RestingListsEmpty`).
- `EndedUpdatesHaveRestarted`: `Spec /\ JobsEnd => StoppedByUpdateIsStarted`. Liveness on condition of
  the liveness that the run checks: a job that has ended has left nothing behind, and one that has
  no archive yet (a stalled upload, of which `JobsEnd` says nothing) has stopped nothing.

For all `Uids`, `Names`, `Passwords`, `Perms`, `Threads` and any number of requests, `AccountsProofs`
proves `TypeCorrect`, `NamesDiffer`, `NoAccountComesBack` (`Spec => []UserNamesDiffer`, `Spec =>
[]DeletedStaysDeleted`) and the action properties `PasswordsAreAskedFor` and
`NoRightFromNowhere`. Types alone do not keep names apart: a creation writes a record for an identifier it
was given long before, so `CreateAlone` says that nobody has or wants that identifier
meanwhile, and that it was never deleted; `OwnerThere` that the owner a rename is about exists; `Salted` that a new hash has a salt
of its own. Each request is split into what is checked when it is accepted (`Checked`) and
what a handler may do to the account it is about (`Rewritten`); the theorems look at those
few cases instead of at the twenty actions.

For all accounts, passkeys, issuers, subjects, e-mails, handlers and any limits and number of
requests, `SignInsProofs` proves `SignInsTypeCorrect`, `OwnCredentials` (`SignInsSpec =>
[]CredentialsAreOnesOwn`) and `CounterGoesBackOnlyOvertaken` (`SignInsSpec =>
CounterOnlyOvertaken`). A session is opened after the lock is gone, so the invariant says what is
still true then: what a sign-in has shown is the identity of the account it is about, or that
account is gone, and no identifier comes back (`SignInsHold`, `GoneStayGone`). Accounts with a
password are never linked (`LocalsUnlinked`), so `Resolve` finds every account with the identity
where it looks. For passkeys, `StepPasskeysKept` reduces the steps to the two that leave a record
that was not there: an addition, and a counter that is written. `AccountsTypeCorrect`
(`AccountsSpec => []AccountsTypeOK`) puts the two modules together: `SideBySide` says that a
behaviour of `MCAccounts` is one of `Accounts` and one of `SignIns`.

For all `Instances`, hooks, queues and bounds, `WebhooksProofs` proves `TypeCorrect`,
`AnnouncedChangesHeld` and `OrderKept` (`OnlyWhatHeldIsAnnounced` and `ReceivedInOrder`). The order
rests on one chain: what a hook received is older than the event at hand, which is older than
the queue, which is in order. Two more results rest on it:

- `DeliveryRefinement`: `Spec => KeepsDeliveryPromise`. Taking an event off the queue, an attempt of
  which the panel learns nothing and a cooldown that ends are stutters or deliveries that leave the event due;
  the chain says that the event the worker holds is the first that is due to whoever it still has
  to serve, so that sending it, skipping it and giving it up are steps of the promise.
- `LastWordRight`: `Spec => []LastWordDue`. By the same chain an event that is emitted is the last one
  due about its instance, and one that is sent is the first; so a word only changes hands, from
  the monitor to the queue, to the worker and to the hook. Once excused, always excused (`ExcusesStay`).

For all sets of addresses and of slots, and any limits, `StatsWorkerProofs` proves `StatsTypeCorrect`
and `LimitsHold` (`StatsSpec => []StatsLimits`). The bounds hold at the limit plus the requests
under way: the invariant counts, for each table, the rows there are and the requests that
have passed the test and not yet written, whose sum grows only when the test passes.

For six parts of the web interface `PageProofs` proves, for any instances, keys, rules, tunnels,
loads and acts of the user:

- `NobodyCutOffUnawares`: `FwPageSpec => []RulesInTheOpen`. `Tested` says that what is sent was tested
  or the user told, as long as the draft is still the one that was tested (`same`); a verdict
  only gets better when a frps is deleted, and a new one was not tested for (`MoreFrps`). That every rule can be seen is the case of
  `shownRule` for rules whose frps is gone.
- `FormWritesItsOwn`: `ConfigSpec => []SaveKeepsOthers`. `ChangesAreEdits` (a field that differs from
  what was loaded is one the user changed) and `SaveIsOwn` (what a save will write has, outside
  the keys of the user, what the file has) carry it from the form to the POST.
- `SelectionShown`: `LogSpec => []LogShowsSelection`. `LoadsHold`: only the last load may still fill the
  page, and it is about what is selected. `StreamHolds`: a stream goes on right after the last
  line shown; one that never opened has shown nothing, one that opens again was broken.
  `LastLines` and `Shown` are what `lastLines` keeps of a sequence.
- `TunnelsStaySound`: `TunnelsSpec => []SavedTunnelsAreSound`. It rests on the algebra of the list:
  `SplitReadable` (written out, a list without two of one name is still one, with the same names)
  and `PairedBack` (what the page makes of a file, `pairProxies`, is written back by `splitPair`
  as it was). Names are sequences, so that `-tcp`, `-udp` and the ports of a range may meet a name
  that was typed. `BasisSound` and `PostSound` say that no name is lost on the way file, list,
  POST, file but those the user took away, unless the file or the list was replaced meanwhile;
  TLC checked them first.
- `DashboardAgrees`: `DashSpec => []DashboardSettles`. `SwitchHolds`: at most one request of a switch is
  in the page, and the switch shows what its answer will make true. `OrphansHold`: the last load
  of the list is about the instances shown, and a list read with those is the list of now.
- `StaleNeverForgotten`: `WebSpec => []StaleIsPending`. `OfThePast`: nothing known, pushed or answered is
  later than the instances; `PushedIsKnown`: on an open connection, what was pushed last is at the
  end of the channel, or known, or was overtaken; and a page whose connection is down polls.
- `WebTypeCorrect`: `WebSpec => []WebTypeOK`, the types and bounds of all the parts. They need what the
  answers under way contain (`ConfigShapes`, `FwShapes`), how many there are (`Few`), when a
  connection is tried again (`FeedHolds`) and that the lines shown have been logged (`LogBounds`).
- `PartsKeepTheirWord`: `WebSpec` implies the invariants of the five pages and `StatsLimits`, since a
  behaviour of `Web` is one of each part (`EachPart`).

The assumptions are those of the modules: the bounds are natural numbers, names of
constants differ, `Slots` and `Members` are finite. The properties were checked by TLC first.

**Model-checked only**: every liveness property (`StoppedInstanceEnds`,
`FallenInstanceRestarts`, `JobsEnd`, `FilterFollowsConfig`,
`NoReloadForEver`, `QueueDrains`, `LastWordIsTrue`, `PageCatchesUp`, `FollowEnds`): liveness under
fairness and ENABLED are out of the prover's reach. What four of them rest on is proved as an
invariant: that a stop, an update, a notification and a page never lose the thing that fairness
has to bring about (`StopUnderWay`, `NoneLeftBehind`, `LastWordDue`, `StaleIsPending`). Out of reach
as well are inductions over data, which `MergeIsExact` and `SaveKeepsFile` would need: TLC checks them for every text within the bounds.
Every other invariant of the runs that are to pass is proved.

## 6. What is not modelled

Cryptography, cookies and HTTP plumbing; parsing, formatting and translation; Docker and
systemd (the panel passes requests on to them); the text of the nftables ruleset, the
lists and prefixes; downloads, checksums and archives; packaging and tools. Of the web
interface: the router, widgets, themes and translations, the pages of settings, users,
notifications and passkeys, the buttons that start and stop (`Supervisor` has their
requests), the published lists and the live view of the firewall, the editor of visitors,
the checks for updates. Of the receiver: the private page itself, the cache of GitHub's
counts, the redirections. In `Accounts` and `SignIns`: roles and
instance scopes, roles by group, the limit of attempts and `--reset-password`; the exchange with
the provider, the flow cookie, WebAuthn's formats and signatures; the two modules are not checked
together (a password and a passkey of one account meet only in its record). In `Fleet`: deletion, several jobs waiting at once (a
second one is refused and changes nothing), containers and systemd services. In `Webhooks`:
the filters of a hook, its history, test sends and the notices of new versions.

**Hazards no property covers.** A restart lets go of the lock between its stop and its start
(`standalone.go:454`); a start that finds the program being stopped makes it wanted again
(`standalone.go:364`); a deletion forgets the instance before its files go (`routes.go:826`) and one
that is refused for a shared configuration has stopped it (`routes.go:844`); an update starts
again what an operator stopped meanwhile (`frpinstall.go:730`), and one whose second program
fails leaves the old `installed_version` (`frpinstall.go:739`); the dynamic sets stay off after a refusal that
was passing (`firewall.go:1349`); a session takes the fingerprint of the hash at its opening
(`auth.go:443`); an edit writes back rights it had read (`users.go:366`); the owner's name is checked
outside `cfgMu` (`routes.go:427`); `--reset-password` is overwritten by a running panel (`auth.go:815`); `state.json`
is read, changed and written without a lock by six places (`webhooks.go:385`), and truncated
before it is written (`system.go:99`); a full queue drops an event (`webhooks.go:117`); a cooldown
starts before the send it counts (`webhooks.go:352`); an older answer overtakes a push (`store.js:177`; on
an open connection no property asks for more before the next change); the list of tunnels replaces what
others wrote meanwhile (`tunnels.js:787`); a save goes to the instance selected since
(`config.js:406`); a connection that is half open and pushes nothing is not modelled. The models show most of these steps; the
code means them or accepts them, so there is nothing to hold it to, or their part is in the plan.

## 7. Plan

1. *Done*: the modules of section 2 and the proofs of section 5.
2. `StateFile`: the unlocked read, change and write of `state.json` by the update notices
   (`webhookStateNote`), the update check, installations and the detection of the version;
   with it the notices of new versions, each of which is to be announced once.
3. `Algorithms`, checked over bounded inputs against reference definitions:
   `restartDelay`, `fwRuleset` against `fwVerdicts`, port ranges, `rewriteListenPorts` and
   `pickPort`, `expandPermissions`, comparison of versions, the lock-out of sign-ins.
4. Widening: instance creation with rollback, the flow of OpenID Connect, the discovery cache, the
   pages of accounts and notifications.
5. Theorems: of an invariant of `UpdateWatch` that says which log a follower has read, and of the
   modules of points 2 and 3 as they come.

Bounds foreseen for the new run: two writers of `state.json`, two keys, one restart; inputs of
a few elements for the algorithms.
