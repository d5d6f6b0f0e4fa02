----------------------------- MODULE StatusFeed -----------------------------
(***************************************************************************)
(* What a page of the panel knows of the instances (assets/js/store.js,    *)
(* main.js, api.js).  The page comes with a first state, or asks for it;   *)
(* then /ws/status pushes every change, and when that connection is down   *)
(* the page asks /api/status at intervals and tries the connection again.  *)
(*                                                                         *)
(* Abstracted: the state of the instances is the number of changes so far; *)
(* timers may fire at any moment.  The server (routes.go) is reduced to    *)
(* what it sends: what changed, in order, and for an answer the state of   *)
(* that moment.                                                            *)
(***************************************************************************)
EXTENDS Naturals, Sequences, FiniteSets

CONSTANTS
    MaxChanges,          \* bound: changes of the instances
    MaxFaults,           \* bound: connections lost or refused, requests failed, tabs hidden or shown
    MaxAsked,            \* bound: requests under way
    MAX_FAILED_OPENINGS

ASSUME StatusFeedAssumption ==
    MaxChanges \in Nat /\ MaxFaults \in Nat /\ MaxAsked \in Nat \ {0} /\ MAX_FAILED_OPENINGS \in Nat \ {0}

VARIABLES
    truth,       \* the state of the instances
    pushed,      \* what the server last pushed on the open connection
    channel,     \* what is on its way on it
    statusSocket,  \* "none", "opening" or "open"
    everOpened,  \* `opened` of that connection
    failedOpenings, retryTimer, pollTimer, visible,
    asked,       \* requests for the state: not answered yet ([at |-> "page"]), or the answer
    known,       \* store.instances; Unread at first
    boot,        \* boot(): "started", "detecting", or "done": the page is mounted, the feed started
    overtaken,   \* an answer has replaced a later state that was pushed before it came
    faults

feedVars == <<truth, pushed, channel, statusSocket, everOpened, failedOpenings, retryTimer, pollTimer,
              visible, asked, known, boot, overtaken, faults>>
socketVars == <<pushed, channel, statusSocket, everOpened, failedOpenings, retryTimer, pollTimer>>

Unread == 0
Pending == MaxChanges + 2
statusLive == statusSocket = "open"
fault == faults < MaxFaults /\ faults' = faults + 1

\* loadBoot: the page may come with its state; else detect() will be asked for it.
FeedInit ==
    /\ truth = 1 /\ known \in {Unread, 1}
    /\ pushed = Unread /\ channel = <<>> /\ statusSocket = "none" /\ everOpened = FALSE
    /\ failedOpenings = 0 /\ retryTimer = FALSE /\ pollTimer = FALSE
    /\ visible = TRUE /\ asked = <<>> /\ boot = "started" /\ overtaken = FALSE /\ faults = 0

Change ==
    /\ truth <= MaxChanges /\ truth' = truth + 1
    /\ UNCHANGED <<socketVars, visible, asked, known, boot, overtaken, faults>>

ask == /\ Len(asked) < MaxAsked
       /\ asked' = Append(asked, Pending)

\* boot() without an embedded state: detect() before anything else; it may fail.
BootDetect ==
    /\ boot = "started" /\ known = Unread /\ ask /\ boot' = "detecting"
    /\ UNCHANGED <<truth, socketVars, visible, known, overtaken, faults>>

\* boot(), its end: connectStatus.
BootDone ==
    /\ boot = "detecting" \/ (boot = "started" /\ known # Unread)
    /\ asked = <<>> /\ boot' = "done" /\ statusSocket' = "opening" /\ everOpened' = FALSE
    /\ UNCHANGED <<truth, pushed, channel, failedOpenings, retryTimer, pollTimer, visible, asked, known,
                   overtaken, faults>>

\* onopen.
SocketOpens ==
    /\ statusSocket = "opening"
    /\ statusSocket' = "open" /\ everOpened' = TRUE /\ failedOpenings' = 0 /\ pollTimer' = FALSE
    /\ pushed' = Unread /\ channel' = <<>>
    /\ UNCHANGED <<truth, retryTimer, visible, asked, known, boot, overtaken, faults>>

\* wsStatus: the state, when it is not the last one sent.
ServerPushes ==
    /\ statusLive /\ pushed # truth
    /\ pushed' = truth /\ channel' = Append(channel, truth)
    /\ UNCHANGED <<truth, statusSocket, everOpened, failedOpenings, retryTimer, pollTimer, visible, asked,
                   known, boot, overtaken, faults>>

\* onmessage.
PushArrives ==
    /\ statusLive /\ channel # <<>>
    /\ known' = Head(channel) /\ channel' = Tail(channel)
    /\ overtaken' = (overtaken /\ Len(channel) > 1)
    /\ UNCHANGED <<truth, pushed, statusSocket, everOpened, failedOpenings, retryTimer, pollTimer, visible,
                   asked, boot, faults>>

\* (Variant: polling does not start when the connection is tried again.)
SocketClosesQuietly ==
    /\ statusSocket # "none" /\ fault
    /\ statusSocket' = "none" /\ channel' = <<>> /\ UNCHANGED pollTimer
    /\ failedOpenings' = IF everOpened THEN failedOpenings ELSE failedOpenings + 1
    /\ retryTimer' = (everOpened \/ failedOpenings + 1 < MAX_FAILED_OPENINGS)
    /\ UNCHANGED <<truth, pushed, everOpened, visible, asked, known, boot, overtaken>>

\* onclose: polling starts; a connection that never opened is not tried for ever.
SocketCloses ==
    /\ statusSocket # "none" /\ fault
    /\ statusSocket' = "none" /\ channel' = <<>> /\ pollTimer' = TRUE
    /\ failedOpenings' = IF everOpened THEN failedOpenings ELSE failedOpenings + 1
    /\ retryTimer' = (everOpened \/ failedOpenings + 1 < MAX_FAILED_OPENINGS)
    /\ UNCHANGED <<truth, pushed, everOpened, visible, asked, known, boot, overtaken>>

\* connectStatus, from the timer.
Reconnects ==
    /\ retryTimer /\ retryTimer' = FALSE
    /\ statusSocket' = "opening" /\ everOpened' = FALSE
    /\ UNCHANGED <<truth, pushed, channel, failedOpenings, pollTimer, visible, asked, known, boot, overtaken,
                   faults>>

\* refreshStatus, at the interval of startPolling when the tab is in front.
PollTick ==
    /\ boot = "done" /\ pollTimer /\ visible /\ ~statusLive /\ ask
    /\ UNCHANGED <<truth, socketVars, visible, known, boot, overtaken, faults>>

\* detect(), from the dashboard, whether or not the feed is live.
PageDetects ==
    /\ boot = "done" /\ fault /\ ask
    /\ UNCHANGED <<truth, socketVars, visible, known, boot, overtaken>>

ServerAnswers ==
    /\ \E i \in DOMAIN asked : asked[i] = Pending /\ asked' = [asked EXCEPT ![i] = truth]
    /\ UNCHANGED <<truth, socketVars, visible, known, boot, overtaken, faults>>

without(i) == SubSeq(asked, 1, i - 1) \o SubSeq(asked, i + 1, Len(asked))

\* The answers come in any order, and nothing is compared with what is known.
AnswerArrives ==
    /\ \E i \in DOMAIN asked :
          /\ asked[i] # Pending
          /\ known' = asked[i] /\ asked' = without(i)
          /\ overtaken' = (overtaken \/ asked[i] < known)
    /\ UNCHANGED <<truth, socketVars, visible, boot, faults>>

RequestFails ==
    /\ fault /\ \E i \in DOMAIN asked : asked' = without(i)
    /\ UNCHANGED <<truth, socketVars, visible, known, boot, overtaken>>

TabHidden ==
    /\ fault /\ visible' = ~visible
    /\ UNCHANGED <<truth, socketVars, asked, known, boot, overtaken>>

FeedProgress == BootDetect \/ BootDone \/ SocketOpens \/ ServerPushes \/ PushArrives \/ Reconnects
                \/ ServerAnswers \/ AnswerArrives
FeedNext == Change \/ SocketCloses \/ PageDetects \/ RequestFails \/ TabHidden \/ PollTick \/ FeedProgress

(* Timers fire, connections open or close, requests are answered or fail.  *)
FeedFairness == WF_feedVars(FeedProgress) /\ WF_feedVars(PollTick)
FeedSpec == FeedInit /\ [][FeedNext]_feedVars /\ FeedFairness

FeedTypeOK ==
    /\ truth \in 1..(MaxChanges + 1) /\ known \in 0..(MaxChanges + 1) /\ pushed \in 0..(MaxChanges + 1)
    /\ channel \in Seq(1..(MaxChanges + 1)) /\ asked \in Seq(1..Pending)
    /\ statusSocket \in {"none", "opening", "open"} /\ failedOpenings \in 0..MAX_FAILED_OPENINGS
    /\ everOpened \in BOOLEAN /\ retryTimer \in BOOLEAN /\ pollTimer \in BOOLEAN
    /\ visible \in BOOLEAN /\ overtaken \in BOOLEAN
    /\ boot \in {"started", "detecting", "done"} /\ faults \in 0..MaxFaults

(* A page that does not show the instances as they are is about to learn it *)
(* (store.js: connectStatus, startPolling): the connection is being opened, *)
(* or it is down and polling has started, or it is open and a push is on    *)
(* its way or due.  The exception is an answer asked earlier, which         *)
(* replaced on an open connection what was pushed since.                    *)
StaleIsPending ==
    boot = "done" /\ known # truth =>
        \/ statusSocket = "opening"
        \/ statusSocket = "none" /\ pollTimer
        \/ statusLive /\ (channel # <<>> \/ pushed # truth \/ overtaken)

(* Once changes and faults have ended, the page shows the instances as they *)
(* are, whatever became of the connection: pushed, or asked for at          *)
(* intervals when the tab is in front.  Not held to it: a page on which an  *)
(* answer asked earlier has replaced what was pushed since (refreshStatus   *)
(* and detect() compare nothing).                                           *)
PageCatchesUp ==
    <>[](\/ known = truth
         \/ overtaken /\ statusLive
         \/ ~visible /\ ~statusLive)
=============================================================================
