------------------------------ MODULE Webhooks ------------------------------
(***************************************************************************)
(* Notifications (src/panel/webhooks.go).  The monitor reads the state of  *)
(* the instances at every pass and announces a change that two readings in *)
(* a row confirm; what it announces, and what handlers announce, goes into *)
(* a queue of bounded length that nobody waits for; one worker takes an    *)
(* event after the other and sends it to every hook, trying several times. *)
(*                                                                         *)
(* Abstracted: a hook wants every event (the filters on events and         *)
(* instances are left out); time is what may pass at any moment, so the    *)
(* cooldown of a hook is a mark that goes away by itself.  The history of  *)
(* sends, texts and formats, update notices, test sends (which share no    *)
(* state with the worker) and "by the panel" are not here.                 *)
(***************************************************************************)
EXTENDS Naturals, Sequences, FiniteSets

CONSTANTS
    Instances,
    Hooks,       \* the webhooks that are saved, enabled or not
    Patient,     \* those with a cooldown
    QueueMax,    \* capacity of webhookQueue (200)
    Tries,       \* Len(webhookRetryDelays) (3)
    MaxOutside   \* bound: changes of an instance, events of handlers, webhooks saved and
                 \* restarts of the panel, all together

ASSUME WebhooksAssumption ==
    /\ Patient \subseteq Hooks
    /\ QueueMax \in Nat \ {0} /\ Tries \in Nat \ {0}
    /\ MaxOutside \in Nat
    /\ "none" \notin Hooks /\ "other" \notin Instances

VARIABLES
    actual,      \* what detectFrp shows of an instance now (see Readings)
    hooks,       \* webhooksActive()
    monitor,     \* webhookMonitorLoop: "asleep", or "comparing" what it has read
    reading, left,  \* the instances as this pass read them; those it has yet to compare
    seen, pending,  \* the monitor's maps; "none": no entry
    before,      \* what the reading before the last showed of an instance ("none": no such)
    queue,       \* webhookQueue
    emitted,     \* number of the last event emitted
    item,        \* the event the worker has taken, or None
    chosen,      \* it has read which hooks are active since it took the event
    todo, cur, tries,  \* hooks it has yet to serve, the one it sends to, attempts made
    hot,         \* webhookRecent: pairs of a hook and an event in its cooldown
    got,         \* number of the last event each hook has received
    told,        \* the state of an instance by what each hook without a cooldown was told
    excused,     \* a notification was lost in a way the panel knows of (see LastWordIsTrue)
    outside      \* steps of the outside so far

Prompt == Hooks \ Patient

worldVars == <<actual, hooks, outside>>
monitorVars == <<monitor, reading, left, seen, pending, before>>
workerVars == <<item, chosen, todo, cur, tries, hot>>
hookVars == <<got, told>>
vars == <<worldVars, monitorVars, queue, emitted, workerVars, hookVars, excused>>

\* An instance runs or not, has no program ("unfound"), or is not listed ("absent").
Readings == {"up", "down", "unfound", "absent"}
Nothing == [i \in Instances |-> "absent"]
None == [about |-> "none"]

Init ==
    /\ actual \in [Instances -> {"up", "down"}]
    /\ hooks \in SUBSET Hooks
    /\ monitor = "asleep" /\ reading = Nothing /\ left = {}
    /\ seen = [i \in Instances |-> "none"] /\ pending = seen /\ before = seen
    /\ queue = <<>> /\ emitted = 0
    /\ item = None /\ chosen = TRUE /\ todo = {} /\ cur = "none" /\ tries = 0 /\ hot = {}
    /\ got = [h \in Hooks |-> 0]
    /\ told = [h \in Prompt |-> [i \in Instances |-> "none"]]
    /\ excused = FALSE
    /\ outside = 0

-----------------------------------------------------------------------------
\* webhookEmitFull: nothing without an active hook; a full queue drops the event.
Emit(about, state) ==
    IF hooks = {} THEN UNCHANGED <<queue, emitted, excused>>
    ELSE IF Len(queue) = QueueMax
    THEN excused' = TRUE /\ UNCHANGED <<queue, emitted>>
    ELSE /\ emitted' = emitted + 1
         /\ queue' = Append(queue, [about |-> about, state |-> state, n |-> emitted + 1])
         /\ UNCHANGED excused

\* A sign-in, a saved configuration, ...
OtherEvent ==
    /\ outside < MaxOutside /\ outside' = outside + 1
    /\ Emit("other", "none")
    /\ UNCHANGED <<actual, hooks, monitorVars, workerVars, hookVars>>

-----------------------------------------------------------------------------
(* The monitor.                                                            *)

\* A pass reads the instances; without an active hook it forgets what it has seen.
PassBegins ==
    /\ monitor = "asleep"
    /\ IF hooks # {}
       THEN /\ monitor' = "comparing" /\ reading' = actual /\ left' = Instances
            /\ UNCHANGED <<seen, pending, before>>
       ELSE /\ seen' = [i \in Instances |-> "none"] /\ pending' = seen' /\ before' = seen'
            /\ UNCHANGED <<monitor, reading, left>>
    /\ UNCHANGED <<worldVars, queue, emitted, workerVars, hookVars, excused>>

\* webhookInstanceEvents: instance i, read as r, is compared.
Compares(i, r) ==
    /\ monitor = "comparing" /\ i \in left /\ reading[i] = r
    /\ left' = left \ {i}
    /\ before' = [before EXCEPT ![i] = IF r = "absent" THEN @
                                       ELSE IF r = "unfound" THEN "none" ELSE r]
    /\ UNCHANGED <<worldVars, monitor, reading, workerVars>>

Quiet == UNCHANGED <<queue, emitted, excused>>

NotListed(i) ==
    /\ Compares(i, "absent")
    /\ Quiet /\ UNCHANGED <<seen, pending, hookVars>>

\* Without its program an instance is forgotten: what it is afterwards is not compared
\* with what it was.
ForgetsUnfound(i) ==
    /\ Compares(i, "unfound")
    /\ seen' = [seen EXCEPT ![i] = "none"]
    /\ pending' = [pending EXCEPT ![i] = "none"]
    /\ excused' = (excused \/ seen[i] # "none")
    /\ UNCHANGED <<queue, emitted, hookVars>>

\* The first reading of an instance announces nothing: it is where the story begins.
FirstSeen(i) ==
    \E r \in {"up", "down"} :
        /\ seen[i] = "none" /\ Compares(i, r)
        /\ seen' = [seen EXCEPT ![i] = r]
        /\ told' = [h \in Prompt |-> [told[h] EXCEPT ![i] = r]]
        /\ Quiet /\ UNCHANGED <<pending, got>>

\* (Variant: the change that has not lasted is not forgotten.)
SameAndStillPending(i) ==
    /\ seen[i] # "none" /\ Compares(i, seen[i])
    /\ Quiet /\ UNCHANGED <<seen, pending, hookVars>>

Same(i) ==
    /\ seen[i] # "none" /\ Compares(i, seen[i])
    /\ pending' = [pending EXCEPT ![i] = "none"]
    /\ Quiet /\ UNCHANGED <<seen, hookVars>>

\* A change: to be confirmed by the next reading ...
Differs(i) ==
    \E r \in {"up", "down"} \ {seen[i]} :
        /\ seen[i] # "none" /\ pending[i] # r
        /\ Compares(i, r)
        /\ pending' = [pending EXCEPT ![i] = r]
        /\ Quiet /\ UNCHANGED <<seen, hookVars>>

\* (Variants: the pending entry stays; a change seen once before is not announced.)
ConfirmsAndStillPending(i) ==
    \E r \in {"up", "down"} \ {seen[i]} :
        /\ seen[i] # "none" /\ pending[i] = r
        /\ Compares(i, r)
        /\ seen' = [seen EXCEPT ![i] = r]
        /\ Emit(i, r)
        /\ UNCHANGED <<pending, hookVars>>

ConfirmsSilently(i) ==
    \E r \in {"up", "down"} \ {seen[i]} :
        /\ seen[i] # "none" /\ pending[i] = r
        /\ Compares(i, r)
        /\ seen' = [seen EXCEPT ![i] = r]
        /\ pending' = [pending EXCEPT ![i] = "none"]
        /\ IF r = "down" THEN Emit(i, r) ELSE Quiet
        /\ UNCHANGED hookVars

\* ... and announced.
Confirms(i) ==
    \E r \in {"up", "down"} \ {seen[i]} :
        /\ seen[i] # "none" /\ pending[i] = r
        /\ Compares(i, r)
        /\ seen' = [seen EXCEPT ![i] = r]
        /\ pending' = [pending EXCEPT ![i] = "none"]
        /\ Emit(i, r)
        /\ UNCHANGED hookVars

PassEnds ==
    /\ monitor = "comparing" /\ left = {}
    /\ monitor' = "asleep" /\ reading' = Nothing
    /\ UNCHANGED <<worldVars, left, seen, pending, before, queue, emitted, workerVars,
                   hookVars, excused>>

-----------------------------------------------------------------------------
(* The worker.                                                             *)

\* An event is taken out of the queue ...
Takes ==
    /\ item = None /\ queue # <<>>
    /\ item' = Head(queue) /\ queue' = Tail(queue)
    /\ chosen' = FALSE /\ todo' = Hooks
    /\ UNCHANGED <<worldVars, monitorVars, emitted, cur, tries, hot, hookVars, excused>>

\* ... for the hooks that are active then, which need not be those it was emitted for.
Chooses ==
    /\ ~chosen /\ chosen' = TRUE
    /\ todo' = hooks
    /\ UNCHANGED <<worldVars, monitorVars, queue, emitted, item, cur, tries, hot, hookVars, excused>>

Event(e) == <<e.about, e.state>>

\* webhookMatches: an event of the same kind on the same subject is too recent ...
Skips(h) ==
    /\ chosen /\ cur = "none" /\ h \in todo /\ <<h, Event(item)>> \in hot
    /\ todo' = todo \ {h}
    /\ UNCHANGED <<worldVars, monitorVars, queue, emitted, item, chosen, cur, tries, hot, hookVars, excused>>

\* ... or the cooldown begins, before anything is sent.
Picks(h) ==
    /\ chosen /\ cur = "none" /\ h \in todo /\ <<h, Event(item)>> \notin hot
    /\ todo' = todo \ {h} /\ cur' = h /\ tries' = 0
    /\ hot' = IF h \in Patient THEN hot \cup {<<h, Event(item)>>} ELSE hot
    /\ UNCHANGED <<worldVars, monitorVars, queue, emitted, item, chosen, hookVars, excused>>

\* The hook receives the event.
Receives(h) ==
    /\ got' = [got EXCEPT ![h] = item.n]
    /\ told' = IF item.about \in Instances /\ h \in Prompt
               THEN [told EXCEPT ![h][item.about] = item.state] ELSE told

\* One attempt: a 2xx answer.
Sent ==
    /\ cur # "none"
    /\ Receives(cur)
    /\ cur' = "none" /\ tries' = 0
    /\ UNCHANGED <<worldVars, monitorVars, queue, emitted, item, chosen, todo, hot, excused>>

\* An attempt that fails: a network error, a 5xx or a 429, or an answer that does not
\* come although the event has arrived.
Fails == Receives(cur) \/ UNCHANGED hookVars

\* (Variants: the attempts start over; put back behind the next event.)
TriesForEver ==
    /\ cur # "none"
    /\ Fails
    /\ tries' = (tries + 1) % Tries
    /\ UNCHANGED <<worldVars, monitorVars, queue, emitted, item, chosen, todo, cur, hot, excused>>

SentLater ==
    /\ cur # "none" /\ queue # <<>>
    /\ item' = Head(queue) /\ queue' = Append(Tail(queue), item)
    /\ chosen' = FALSE /\ todo' = Hooks /\ cur' = "none" /\ tries' = 0
    /\ UNCHANGED <<worldVars, monitorVars, emitted, hot, hookVars, excused>>

TriesAgain ==
    /\ cur # "none" /\ tries + 1 < Tries
    /\ Fails
    /\ tries' = tries + 1
    /\ UNCHANGED <<worldVars, monitorVars, queue, emitted, item, chosen, todo, cur, hot, excused>>

\* The last attempt fails, or an answer that no other attempt would change (4xx).
GivesUp ==
    /\ cur # "none"
    /\ \/ tries + 1 = Tries /\ Fails
       \/ UNCHANGED hookVars
    /\ cur' = "none" /\ tries' = 0
    /\ excused' = TRUE
    /\ UNCHANGED <<worldVars, monitorVars, queue, emitted, item, chosen, todo, hot>>

Served ==
    /\ chosen /\ item # None /\ cur = "none" /\ todo = {}
    /\ item' = None
    /\ UNCHANGED <<worldVars, monitorVars, queue, emitted, chosen, todo, cur, tries, hot, hookVars, excused>>

\* A cooldown is over.
Cools(c) ==
    /\ c \in hot /\ hot' = hot \ {c}
    /\ UNCHANGED <<worldVars, monitorVars, queue, emitted, item, chosen, todo, cur, tries, hookVars, excused>>

-----------------------------------------------------------------------------
(* The outside.                                                            *)

InstanceChanges(i, r) ==
    /\ outside < MaxOutside /\ outside' = outside + 1
    /\ actual[i] # r /\ actual' = [actual EXCEPT ![i] = r]
    /\ UNCHANGED <<hooks, monitorVars, queue, emitted, workerVars, hookVars, excused>>

\* POST /api/webhooks enables or disables hooks.
HooksSaved(H) ==
    /\ outside < MaxOutside /\ outside' = outside + 1
    /\ H # hooks /\ hooks' = H
    /\ excused' = TRUE
    /\ UNCHANGED <<actual, monitorVars, queue, emitted, workerVars, hookVars>>

\* The panel starts again: what it remembered and what it had to send is gone.
Restart ==
    /\ outside < MaxOutside /\ outside' = outside + 1
    /\ monitor' = "asleep" /\ reading' = Nothing /\ left' = {}
    /\ seen' = [i \in Instances |-> "none"] /\ pending' = seen' /\ before' = seen'
    /\ queue' = <<>>
    /\ item' = None /\ chosen' = TRUE /\ todo' = {} /\ cur' = "none" /\ tries' = 0 /\ hot' = {}
    /\ excused' = TRUE
    /\ UNCHANGED <<actual, hooks, emitted, hookVars>>

-----------------------------------------------------------------------------
CompareStep(i) ==
    NotListed(i) \/ ForgetsUnfound(i) \/ FirstSeen(i) \/ Same(i) \/ Differs(i) \/ Confirms(i)
MonitorStep == PassBegins \/ PassEnds \/ \E i \in Instances : CompareStep(i)

WorkerStep ==
    \/ Takes \/ Chooses \/ Served \/ Sent \/ TriesAgain \/ GivesUp
    \/ \E h \in Hooks : Skips(h) \/ Picks(h)

Next ==
    \/ MonitorStep \/ WorkerStep
    \/ OtherEvent \/ Restart
    \/ \E c \in hot : Cools(c)
    \/ \E i \in Instances, r \in Readings : InstanceChanges(i, r)
    \/ \E H \in SUBSET Hooks : HooksSaved(H)

\* The two goroutines go on: the pause between two passes and every attempt to send
\* are bounded in time.  No hook has to answer.
Fairness == WF_vars(MonitorStep) /\ WF_vars(WorkerStep)

Spec == Init /\ [][Next]_vars
FairSpec == Spec /\ Fairness

-----------------------------------------------------------------------------
(* What must hold.                                                         *)

Events == [about: Instances, state: {"up", "down"}, n: Nat]
          \cup [about: {"other"}, state: {"none"}, n: Nat]

\* Types; the queue keeps its bound; a pending change is one from what was last seen.
TypeOK ==
    /\ actual \in [Instances -> Readings] /\ reading \in [Instances -> Readings]
    /\ hooks \subseteq Hooks /\ todo \subseteq Hooks /\ cur \in Hooks \cup {"none"}
    /\ monitor \in {"asleep", "comparing"} /\ left \subseteq Instances
    /\ \A m \in {seen, pending, before} : m \in [Instances -> {"none", "up", "down"}]
    /\ \A i \in Instances : pending[i] # "none" => seen[i] \notin {"none", pending[i]}
    /\ queue \in Seq(Events) /\ Len(queue) <= QueueMax
    /\ item \in Events \cup {None} /\ (todo # {} \/ cur # "none" => item # None)
    /\ chosen \in BOOLEAN /\ (~chosen => item # None /\ todo = Hooks /\ cur = "none")
    /\ tries \in 0..Tries - 1 /\ emitted \in Nat
    /\ hot \subseteq Patient \X {Event(e) : e \in [about: Instances, state: {"up", "down"}]
                                              \cup [about: {"other"}, state: {"none"}]}
    /\ got \in [Hooks -> Nat] /\ told \in [Prompt -> [Instances -> {"none", "up", "down"}]]
    /\ excused \in BOOLEAN
    /\ outside \in 0..MaxOutside

\* "A change must hold for two readings in a row before it is announced": whatever the
\* instance did since it was last announced.
OnlyWhatHeldIsAnnounced ==
    [][\A i \in Instances :
          seen[i] # "none" /\ seen'[i] \notin {"none", seen[i]} => before[i] = seen'[i]]_vars

\* A hook receives events in the order in which they happened: an event that was hard to
\* send does not arrive after a later one (one queue, one worker).
ReceivedInOrder == [][\A h \in Hooks : got'[h] >= got[h]]_vars

\* What is due to a hook: what waits in the queue, and what the worker holds until it has
\* sent it to this hook, skipped it or given up.
Waiting == {queue[k].n : k \in 1..Len(queue)}
DueTo(h) == Waiting \cup (IF h \in todo \/ h = cur THEN {item.n} ELSE {})

Delivery == INSTANCE EventDelivery WITH
    sent <- emitted,
    due <- [h \in Hooks |-> DueTo(h)],
    received <- got

\* The queue, the worker, its attempts and the cooldowns keep the promise of EventDelivery:
\* each hook is sent the first event due to it, and an event that was done with, skipped,
\* given up or forgotten is never sent again, whatever is tried again and saved meanwhile.
KeepsDeliveryPromise == Delivery!Spec

\* Every event gets its turn, even if no hook ever answers.
QueueDrains == queue # <<>> \/ item # None ~> queue = <<>> /\ item = None

\* The events still due to a prompt hook about i, the last of them, and what it says: the
\* state by which that hook will know i once it has received all that is due to it.
Queued == {queue[k] : k \in 1..Len(queue)}
DueAbout(h, i) ==
    {e \in Queued \cup (IF h \in todo \/ h = cur THEN {item} ELSE {}) : e.about = i}
WillBeTold(h, i, r) ==
    IF DueAbout(h, i) = {} THEN told[h][i] = r
    ELSE \E e \in DueAbout(h, i) : e.state = r /\ \A f \in DueAbout(h, i) : f.n <= e.n

\* Unless the panel knows that it lost a notification (see LastWordIsTrue), the last word
\* due to an active hook without a cooldown, or the one it has received when nothing is
\* due, is the state the monitor goes by: no change of it is ever left unsaid, or said and
\* followed by an older one.  (What LastWordIsTrue rests on.)
LastWordDue ==
    excused \/ \A h \in hooks \cap Prompt, i \in Instances :
                  seen[i] # "none" => WillBeTold(h, i, seen[i])

\* Once the instances keep still, an active hook without a cooldown was told the state
\* they are in, however often they had changed, unless the panel knows that it lost a
\* notification: a full queue, a send given up, hooks that were changed, a restart, an
\* instance whose program was gone for a while.
LastWordIsTrue ==
    <>[](excused \/ \A h \in hooks \cap Prompt, i \in Instances :
                        actual[i] \in {"up", "down"} => told[h][i] = actual[i])
=============================================================================
