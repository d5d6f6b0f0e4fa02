--------------------------- MODULE WebhooksProofs ---------------------------
(***************************************************************************)
(* Proofs about Webhooks.tla: for any instances, hooks, length of the queue*)
(* and number of attempts, the queue keeps its bound, only a change that   *)
(* two readings confirm is announced, no hook receives an event after a    *)
(* later one, the queue and its worker implement EventDelivery, and the    *)
(* last word due to a hook is what the monitor goes by.                    *)
(***************************************************************************)
EXTENDS Webhooks, TLAPS

States == {"none", "up", "down"}

\* An emission keeps the type and the bound of the queue.
LEMMA EmitTypes ==
    ASSUME TypeOK, NEW about, NEW state, Emit(about, state),
           [about |-> about, state |-> state, n |-> emitted + 1] \in Events
    PROVE  queue' \in Seq(Events) /\ Len(queue') <= QueueMax /\ emitted' \in Nat /\ excused' \in BOOLEAN
<1>1. queue \in Seq(Events) /\ Len(queue) <= QueueMax /\ emitted \in Nat /\ excused \in BOOLEAN
      /\ QueueMax \in Nat
  BY WebhooksAssumption DEF TypeOK
<1>2. CASE UNCHANGED <<queue, emitted>> /\ excused' \in BOOLEAN
  BY <1>1, <1>2
<1>3. CASE /\ Len(queue) # QueueMax /\ emitted' = emitted + 1 /\ excused' = excused
           /\ queue' = Append(queue, [about |-> about, state |-> state, n |-> emitted + 1])
  <2> DEFINE e == [about |-> about, state |-> state, n |-> emitted + 1]
  <2>1. e \in Events
    OBVIOUS
  <2> HIDE DEF e
  <2>2. queue' = Append(queue, e)
    BY <1>3 DEF e
  <2> QED
    BY <2>1, <2>2, <1>1, <1>3
<1> QED
  BY <1>1, <1>2, <1>3 DEF Emit

LEMMA NoneIsNoEvent == None \notin Events
<1>1. DOMAIN None = {"about"}
  BY DEF None
<1>2. \A e \in Events : "n" \in DOMAIN e
  BY DEF Events
<1> QED
  BY <1>1, <1>2

\* What a comparison leaves alone, and what it takes to be the reading before.
LEMMA ComparesTypes ==
    ASSUME TypeOK, NEW i \in Instances, NEW r \in Readings, Compares(i, r)
    PROVE  /\ UNCHANGED <<worldVars, monitor, reading, workerVars>>
           /\ left' \subseteq Instances /\ before' \in [Instances -> States]
           /\ \A j \in Instances \ {i} : before'[j] = before[j]
           /\ before'[i] = IF r = "absent" THEN before[i] ELSE IF r = "unfound" THEN "none" ELSE r
<1>1. /\ left' = left \ {i} /\ UNCHANGED <<worldVars, monitor, reading, workerVars>>
      /\ before' = [before EXCEPT ![i] = IF r = "absent" THEN @ ELSE IF r = "unfound" THEN "none" ELSE r]
  BY DEF Compares
<1>2. left \subseteq Instances /\ before \in [Instances -> States]
  BY DEF TypeOK, States
<1>3. before' \in [Instances -> States]
  BY <1>1, <1>2 DEF Readings, States
<1> QED
  BY <1>1, <1>2, <1>3

\* The parts of TypeOK that a comparison, an emission or the worker may disturb.
MapsOK ==
    /\ seen \in [Instances -> States] /\ pending \in [Instances -> States]
    /\ before \in [Instances -> States]
    /\ \A i \in Instances : pending[i] # "none" => seen[i] \notin {"none", pending[i]}
QueueOK ==
    queue \in Seq(Events) /\ Len(queue) <= QueueMax /\ emitted \in Nat /\ excused \in BOOLEAN
ReadOK ==
    /\ reading \in [Instances -> Readings]
    /\ monitor \in {"asleep", "comparing"} /\ left \subseteq Instances
WorldOK ==
    /\ actual \in [Instances -> Readings] /\ hooks \subseteq Hooks /\ outside \in 0..MaxOutside
HotOK ==
    hot \subseteq Patient \X {Event(e) : e \in [about: Instances, state: {"up", "down"}]
                                            \cup [about: {"other"}, state: {"none"}]}
WorkerOK ==
    /\ item \in Events \cup {None} /\ (todo # {} \/ cur # "none" => item # None)
    /\ todo \subseteq Hooks /\ cur \in Hooks \cup {"none"} /\ tries \in 0..Tries - 1
    /\ chosen \in BOOLEAN /\ (~chosen => item # None /\ todo = Hooks /\ cur = "none")
    /\ HotOK
ToldOK == got \in [Hooks -> Nat] /\ told \in [Prompt -> [Instances -> States]]

LEMMA TypeParts ==
    TypeOK <=> MapsOK /\ QueueOK /\ ReadOK /\ WorldOK /\ WorkerOK /\ ToldOK
  BY DEF TypeOK, MapsOK, QueueOK, ReadOK, WorldOK, WorkerOK, HotOK, ToldOK, States

LEMMA TypePartsPrimed ==
    TypeOK' <=> MapsOK' /\ QueueOK' /\ ReadOK' /\ WorldOK' /\ WorkerOK' /\ ToldOK'
  BY DEF TypeOK, MapsOK, QueueOK, ReadOK, WorldOK, WorkerOK, HotOK, ToldOK, States

\* What a step does not touch keeps its types.
LEMMA Untouched ==
    ASSUME TypeOK
    PROVE  /\ UNCHANGED <<seen, pending, before>> => MapsOK'
           /\ UNCHANGED <<queue, emitted, excused>> => QueueOK'
           /\ UNCHANGED <<reading, monitor, left>> => ReadOK'
           /\ UNCHANGED worldVars => WorldOK'
           /\ UNCHANGED workerVars => WorkerOK'
           /\ UNCHANGED hookVars => ToldOK'
<1>1. UNCHANGED <<seen, pending, before>> => MapsOK'
  BY TypeParts DEF MapsOK
<1>2. UNCHANGED <<queue, emitted, excused>> => QueueOK'
  BY TypeParts DEF QueueOK
<1>3. UNCHANGED <<reading, monitor, left>> => ReadOK'
  BY TypeParts DEF ReadOK
<1>4. UNCHANGED worldVars => WorldOK'
  BY TypeParts DEF WorldOK, worldVars
<1>5. UNCHANGED workerVars => WorkerOK'
  BY TypeParts DEF WorkerOK, HotOK, workerVars
<1>6. UNCHANGED hookVars => ToldOK'
  BY TypeParts DEF ToldOK, hookVars
<1> QED
  BY <1>1, <1>2, <1>3, <1>4, <1>5, <1>6

LEMMA InitTypes == Init => TypeOK
<1> SUFFICES ASSUME Init PROVE TypeOK
  OBVIOUS
<1>1. MapsOK
  BY DEF Init, MapsOK, States
<1>2. QueueOK
  <2>1. queue = <<>> /\ emitted = 0 /\ excused \in BOOLEAN
    BY DEF Init
  <2> QED
    BY <2>1, WebhooksAssumption DEF QueueOK
<1>3. ToldOK
  BY DEF Init, ToldOK, States
<1>4. ReadOK /\ WorldOK
  BY WebhooksAssumption DEF Init, ReadOK, WorldOK, Readings, Nothing
<1>5. WorkerOK
  BY WebhooksAssumption DEF Init, WorkerOK, HotOK
<1> QED
  BY <1>1, <1>2, <1>3, <1>4, <1>5, TypeParts

-----------------------------------------------------------------------------
\* The monitor keeps the types.
LEMMA MonitorTypes ==
    ASSUME TypeOK, MonitorStep
    PROVE  TypeOK'
<1>1. CASE PassBegins
  <2>1. UNCHANGED <<worldVars, workerVars, hookVars, queue, emitted, excused>>
    BY <1>1 DEF PassBegins
  <2>2. MapsOK' /\ ReadOK'
    <3>1. CASE hooks # {}
      <4>1. /\ monitor' = "comparing" /\ reading' = actual /\ left' = Instances
            /\ UNCHANGED <<seen, pending, before>>
        BY <1>1, <3>1 DEF PassBegins
      <4> QED
        BY <4>1, TypeParts DEF MapsOK, ReadOK, WorldOK
    <3>2. CASE hooks = {}
      <4>1. /\ seen' = [i \in Instances |-> "none"] /\ pending' = seen' /\ before' = seen'
            /\ UNCHANGED <<monitor, reading, left>>
        BY <1>1, <3>2 DEF PassBegins
      <4>2. [i \in Instances |-> "none"] \in [Instances -> States]
        BY DEF States
      <4> QED
        BY <4>1, <4>2, TypeParts DEF MapsOK, ReadOK
    <3> QED
      BY <3>1, <3>2
  <2> QED
    BY <2>1, <2>2, Untouched, TypePartsPrimed DEF worldVars, workerVars, hookVars
<1>2. CASE PassEnds
  <2>1. UNCHANGED <<worldVars, workerVars, hookVars, seen, pending, before, queue, emitted, excused>>
    BY <1>2 DEF PassEnds
  <2>2. ReadOK'
    BY <1>2, TypeParts DEF PassEnds, ReadOK, Nothing, Readings
  <2> QED
    BY <2>1, <2>2, Untouched, TypePartsPrimed DEF worldVars, workerVars, hookVars
<1>3. ASSUME NEW i \in Instances, CompareStep(i) PROVE TypeOK'
  <2>1. \E r \in Readings : Compares(i, r)
    BY <1>3, TypeParts DEF CompareStep, NotListed, ForgetsUnfound, FirstSeen, Same, Differs, Confirms,
                           Readings, MapsOK, States
  <2>2. PICK r \in Readings : Compares(i, r)
    BY <2>1
  <2>3. ReadOK' /\ WorldOK' /\ WorkerOK' /\ before' \in [Instances -> States]
    BY <2>2, ComparesTypes, Untouched, TypeParts DEF ReadOK, worldVars, workerVars
  <2>4. MapsOK /\ QueueOK /\ ToldOK
    BY TypeParts
  <2>5. CASE NotListed(i)
    BY <2>3, <2>4, <2>5, Untouched, TypePartsPrimed DEF NotListed, Quiet, MapsOK
  <2>6. CASE ForgetsUnfound(i)
    <3>1. /\ seen' = [seen EXCEPT ![i] = "none"] /\ pending' = [pending EXCEPT ![i] = "none"]
          /\ excused' \in BOOLEAN /\ UNCHANGED <<queue, emitted, hookVars>>
      BY <2>6, <2>4 DEF ForgetsUnfound, QueueOK
    <3>2. MapsOK'
      BY <2>3, <2>4, <3>1 DEF MapsOK, States
    <3> QED
      BY <2>3, <2>4, <3>1, <3>2, Untouched, TypePartsPrimed DEF QueueOK
  <2>7. CASE FirstSeen(i)
    <3>1. PICK q \in {"up", "down"} :
             /\ seen[i] = "none" /\ seen' = [seen EXCEPT ![i] = q]
             /\ told' = [h \in Prompt |-> [told[h] EXCEPT ![i] = q]]
             /\ Quiet /\ UNCHANGED <<pending, got>>
      BY <2>7 DEF FirstSeen
    <3>2. MapsOK'
      BY <2>3, <2>4, <3>1 DEF MapsOK, States
    <3>3. ToldOK'
      BY <2>4, <3>1 DEF ToldOK, States
    <3>4. QueueOK'
      BY <3>1, Untouched DEF Quiet
    <3> QED
      BY <2>3, <3>2, <3>3, <3>4, TypePartsPrimed
  <2>8. CASE Same(i)
    <3>1. pending' = [pending EXCEPT ![i] = "none"] /\ Quiet /\ UNCHANGED <<seen, hookVars>>
      BY <2>8 DEF Same
    <3>2. MapsOK'
      BY <2>3, <2>4, <3>1 DEF MapsOK, States
    <3> QED
      BY <2>3, <3>1, <3>2, Untouched, TypePartsPrimed DEF Quiet
  <2>9. CASE Differs(i)
    <3>1. PICK q \in {"up", "down"} \ {seen[i]} :
             /\ seen[i] # "none" /\ pending' = [pending EXCEPT ![i] = q]
             /\ Quiet /\ UNCHANGED <<seen, hookVars>>
      BY <2>9 DEF Differs
    <3>2. MapsOK'
      BY <2>3, <2>4, <3>1 DEF MapsOK, States
    <3> QED
      BY <2>3, <3>1, <3>2, Untouched, TypePartsPrimed DEF Quiet
  <2>10. CASE Confirms(i)
    <3>1. PICK q \in {"up", "down"} \ {seen[i]} :
             /\ seen' = [seen EXCEPT ![i] = q] /\ pending' = [pending EXCEPT ![i] = "none"]
             /\ Emit(i, q) /\ UNCHANGED hookVars
      BY <2>10 DEF Confirms
    <3>2. MapsOK'
      BY <2>3, <2>4, <3>1 DEF MapsOK, States
    <3>3. [about |-> i, state |-> q, n |-> emitted + 1] \in Events
      BY <2>4, <3>1 DEF Events, QueueOK
    <3>4. QueueOK'
      BY <3>1, <3>3, EmitTypes DEF QueueOK
    <3> QED
      BY <2>3, <3>1, <3>2, <3>4, Untouched, TypePartsPrimed
  <2> QED
    BY <1>3, <2>5, <2>6, <2>7, <2>8, <2>9, <2>10 DEF CompareStep
<1> QED
  BY <1>1, <1>2, <1>3 DEF MonitorStep

\* The worker keeps the types.
LEMMA WorkerTypes ==
    ASSUME TypeOK, WorkerStep
    PROVE  TypeOK'
<1>1. MapsOK /\ QueueOK /\ ReadOK /\ WorldOK /\ WorkerOK /\ ToldOK
  BY TypeParts
<1>2. UNCHANGED <<worldVars, monitorVars, emitted>>
  BY DEF WorkerStep, Takes, Chooses, Served, Sent, TriesAgain, GivesUp, Skips, Picks
<1>3. MapsOK' /\ ReadOK' /\ WorldOK'
  BY <1>2, Untouched DEF monitorVars
<1>4. ASSUME NEW h \in Hooks, item # None, Receives(h) PROVE ToldOK'
  <2>1. item \in Events
    BY <1>1, <1>4 DEF WorkerOK
  <2>2. item.n \in Nat
    BY <2>1 DEF Events
  <2>3. got' \in [Hooks -> Nat]
    BY <1>1, <1>4, <2>2 DEF Receives, ToldOK
  <2>4. told' \in [Prompt -> [Instances -> States]]
    <3>1. CASE item.about \in Instances /\ h \in Prompt
      <4>1. told' = [told EXCEPT ![h][item.about] = item.state]
        BY <1>4, <3>1 DEF Receives
      <4>2. item.state \in States
        BY <2>1 DEF Events, States
      <4>3. told \in [Prompt -> [Instances -> States]] /\ told[h] \in [Instances -> States]
        BY <1>1, <3>1 DEF ToldOK
      <4>4. [told[h] EXCEPT ![item.about] = item.state] \in [Instances -> States]
        BY <4>2, <4>3
      <4> QED
        BY <4>1, <4>3, <4>4
    <3>2. CASE ~(item.about \in Instances /\ h \in Prompt)
      BY <1>1, <1>4, <3>2 DEF Receives, ToldOK
    <3> QED
      BY <3>1, <3>2
  <2> QED
    BY <2>3, <2>4 DEF ToldOK
<1>5. ASSUME cur # "none", Fails PROVE ToldOK'
  <2>1. cur \in Hooks /\ item # None
    BY <1>1, <1>5 DEF WorkerOK
  <2> QED
    BY <1>4, <1>5, <2>1, Untouched DEF Fails
<1>6. CASE Takes
  <2>1. queue \in Seq(Events) /\ queue # <<>> /\ item' = Head(queue) /\ queue' = Tail(queue)
        /\ item = None /\ chosen' = FALSE /\ todo' = Hooks /\ UNCHANGED <<cur, tries, hot, hookVars, excused>>
    BY <1>1, <1>6 DEF Takes, QueueOK
  <2>2. Head(queue) \in Events /\ Tail(queue) \in Seq(Events) /\ Len(Tail(queue)) <= Len(queue)
        /\ Len(queue) \in Nat /\ Len(Tail(queue)) \in Nat
    BY <2>1
  <2>3. QueueOK'
    BY <1>1, <1>2, <2>1, <2>2, WebhooksAssumption DEF QueueOK
  <2>4. Head(queue) # None
    BY <2>2, NoneIsNoEvent
  <2>5. WorkerOK'
    BY <1>1, <2>1, <2>2, <2>4 DEF WorkerOK, HotOK
  <2> QED
    BY <1>3, <2>1, <2>3, <2>5, Untouched, TypePartsPrimed
<1>13. CASE Chooses
  <2>1. ~chosen /\ chosen' = TRUE /\ todo' = hooks
        /\ UNCHANGED <<queue, emitted, item, cur, tries, hot, hookVars, excused>>
    BY <1>13 DEF Chooses
  <2>2. WorkerOK'
    BY <1>1, <2>1 DEF WorkerOK, HotOK, WorldOK
  <2> QED
    BY <1>3, <2>1, <2>2, Untouched, TypePartsPrimed
<1>7. CASE Served
  <2>1. chosen /\ item' = None /\ todo = {} /\ cur = "none"
        /\ UNCHANGED <<queue, emitted, chosen, todo, cur, tries, hot, hookVars, excused>>
    BY <1>7 DEF Served
  <2>2. WorkerOK'
    BY <1>1, <2>1 DEF WorkerOK, HotOK
  <2> QED
    BY <1>3, <2>1, <2>2, Untouched, TypePartsPrimed
<1>8. CASE Sent
  <2>1. cur # "none" /\ cur' = "none" /\ tries' = 0 /\ Receives(cur)
        /\ UNCHANGED <<queue, emitted, item, chosen, todo, hot, excused>>
    BY <1>8 DEF Sent
  <2>2. WorkerOK'
    BY <1>1, <2>1, WebhooksAssumption DEF WorkerOK, HotOK
  <2> QED
    BY <1>3, <1>5, <2>1, <2>2, Untouched, TypePartsPrimed DEF Fails
<1>9. CASE TriesAgain
  <2>1. cur # "none" /\ tries + 1 < Tries /\ tries' = tries + 1 /\ Fails
        /\ UNCHANGED <<queue, emitted, item, chosen, todo, cur, hot, excused>>
    BY <1>9 DEF TriesAgain
  <2>2. WorkerOK'
    BY <1>1, <2>1, WebhooksAssumption DEF WorkerOK, HotOK
  <2> QED
    BY <1>3, <1>5, <2>1, <2>2, Untouched, TypePartsPrimed
<1>10. CASE GivesUp
  <2>1. cur # "none" /\ cur' = "none" /\ tries' = 0 /\ excused' = TRUE /\ Fails
        /\ UNCHANGED <<queue, emitted, item, chosen, todo, hot>>
    BY <1>10 DEF GivesUp, Fails
  <2>2. WorkerOK'
    BY <1>1, <2>1, WebhooksAssumption DEF WorkerOK, HotOK
  <2>3. QueueOK'
    BY <1>1, <2>1 DEF QueueOK
  <2> QED
    BY <1>3, <1>5, <2>1, <2>2, <2>3, TypePartsPrimed
<1>11. ASSUME NEW h \in Hooks, Skips(h) PROVE TypeOK'
  <2>1. chosen /\ h \in todo /\ todo' = todo \ {h}
        /\ UNCHANGED <<queue, emitted, item, chosen, cur, tries, hot, hookVars, excused>>
    BY <1>11 DEF Skips
  <2>2. WorkerOK'
    BY <1>1, <2>1 DEF WorkerOK, HotOK
  <2> QED
    BY <1>3, <2>1, <2>2, Untouched, TypePartsPrimed
<1>12. ASSUME NEW h \in Hooks, Picks(h) PROVE TypeOK'
  <2>1. /\ chosen /\ h \in todo /\ todo' = todo \ {h} /\ cur' = h /\ tries' = 0
        /\ hot' = IF h \in Patient THEN hot \cup {<<h, Event(item)>>} ELSE hot
        /\ UNCHANGED <<queue, emitted, item, chosen, hookVars, excused>>
    BY <1>12 DEF Picks
  <2>2. item \in Events /\ item # None
    BY <1>1, <2>1 DEF WorkerOK
  <2>3. Event(item) \in {Event(e) : e \in [about: Instances, state: {"up", "down"}]
                                          \cup [about: {"other"}, state: {"none"}]}
    <3> DEFINE e == [about |-> item.about, state |-> item.state]
    <3>1. e \in [about: Instances, state: {"up", "down"}] \cup [about: {"other"}, state: {"none"}]
      BY <2>2 DEF Events
    <3>2. Event(item) = Event(e)
      BY DEF Event
    <3> QED
      BY <3>1, <3>2
  <2>4. HotOK'
    BY <1>1, <2>1, <2>3 DEF WorkerOK, HotOK
  <2>5. WorkerOK'
    BY <1>1, <2>1, <2>2, <2>4, WebhooksAssumption DEF WorkerOK
  <2> QED
    BY <1>3, <2>1, <2>5, Untouched, TypePartsPrimed
<1> QED
  BY <1>6, <1>7, <1>8, <1>9, <1>10, <1>11, <1>12, <1>13 DEF WorkerStep

\* The outside keeps the types.
LEMMA OutsideTypes ==
    ASSUME TypeOK,
           \/ OtherEvent \/ Restart
           \/ \E c \in hot : Cools(c)
           \/ \E i \in Instances, r \in Readings : InstanceChanges(i, r)
           \/ \E H \in SUBSET Hooks : HooksSaved(H)
    PROVE  TypeOK'
<1>1. MapsOK /\ QueueOK /\ ReadOK /\ WorldOK /\ WorkerOK /\ ToldOK
  BY TypeParts
<1>2. ASSUME outside < MaxOutside, outside' = outside + 1 PROVE outside' \in 0..MaxOutside
  BY <1>1, <1>2, WebhooksAssumption DEF WorldOK
<1>3. CASE OtherEvent
  <2>1. /\ outside' \in 0..MaxOutside /\ Emit("other", "none")
        /\ UNCHANGED <<actual, hooks, monitorVars, workerVars, hookVars>>
    BY <1>2, <1>3 DEF OtherEvent
  <2>2. [about |-> "other", state |-> "none", n |-> emitted + 1] \in Events
    BY <1>1 DEF Events, QueueOK
  <2>3. QueueOK'
    BY <2>1, <2>2, EmitTypes DEF QueueOK
  <2>4. WorldOK'
    BY <1>1, <2>1 DEF WorldOK
  <2> QED
    BY <2>1, <2>3, <2>4, Untouched, TypePartsPrimed DEF monitorVars
<1>4. CASE Restart
  <2>1. /\ outside' \in 0..MaxOutside /\ monitor' = "asleep" /\ reading' = Nothing /\ left' = {}
        /\ seen' = [i \in Instances |-> "none"] /\ pending' = seen' /\ before' = seen'
        /\ queue' = <<>> /\ item' = None /\ todo' = {} /\ cur' = "none" /\ tries' = 0 /\ hot' = {}
        /\ chosen' = TRUE
        /\ excused' = TRUE /\ UNCHANGED <<actual, hooks, emitted, hookVars>>
    BY <1>2, <1>4 DEF Restart
  <2>2. MapsOK'
    BY <2>1 DEF MapsOK, States
  <2>3. QueueOK'
    BY <1>1, <2>1, WebhooksAssumption DEF QueueOK
  <2>4. ReadOK' /\ WorldOK'
    BY <1>1, <2>1 DEF ReadOK, WorldOK, Nothing, Readings
  <2>5. WorkerOK'
    BY <2>1, WebhooksAssumption DEF WorkerOK, HotOK
  <2> QED
    BY <2>1, <2>2, <2>3, <2>4, <2>5, Untouched, TypePartsPrimed
<1>5. ASSUME NEW c \in hot, Cools(c) PROVE TypeOK'
  <2>1. hot' = hot \ {c} /\ UNCHANGED <<worldVars, monitorVars, queue, emitted, item, chosen, todo, cur, tries, hookVars, excused>>
    BY <1>5 DEF Cools
  <2>2. WorkerOK'
    BY <1>1, <2>1 DEF WorkerOK, HotOK
  <2> QED
    BY <2>1, <2>2, Untouched, TypePartsPrimed DEF monitorVars
<1>6. ASSUME NEW i \in Instances, NEW r \in Readings, InstanceChanges(i, r) PROVE TypeOK'
  <2>1. /\ outside' \in 0..MaxOutside /\ actual' = [actual EXCEPT ![i] = r]
        /\ UNCHANGED <<hooks, monitorVars, queue, emitted, workerVars, hookVars, excused>>
    BY <1>2, <1>6 DEF InstanceChanges
  <2>2. WorldOK'
    BY <1>1, <2>1 DEF WorldOK
  <2> QED
    BY <2>1, <2>2, Untouched, TypePartsPrimed DEF monitorVars
<1>7. ASSUME NEW H \in SUBSET Hooks, HooksSaved(H) PROVE TypeOK'
  <2>1. /\ outside' \in 0..MaxOutside /\ hooks' = H /\ excused' = TRUE
        /\ UNCHANGED <<actual, monitorVars, queue, emitted, workerVars, hookVars>>
    BY <1>2, <1>7 DEF HooksSaved
  <2>2. WorldOK' /\ QueueOK'
    BY <1>1, <2>1 DEF WorldOK, QueueOK
  <2> QED
    BY <2>1, <2>2, Untouched, TypePartsPrimed DEF monitorVars
<1> QED
  BY <1>3, <1>4, <1>5, <1>6, <1>7

LEMMA StepTypes == TypeOK /\ [Next]_vars => TypeOK'
<1> SUFFICES ASSUME TypeOK, [Next]_vars PROVE TypeOK'
  OBVIOUS
<1>1. CASE UNCHANGED vars
  BY <1>1, Untouched, TypePartsPrimed DEF vars, worldVars, monitorVars, workerVars, hookVars
<1> QED
  BY <1>1, MonitorTypes, WorkerTypes, OutsideTypes DEF Next

(* The variables keep their types; the queue never holds more than its     *)
(* capacity, and what is pending is a change from what was last seen.      *)
THEOREM TypeCorrect == Spec => []TypeOK
  BY InitTypes, StepTypes, PTL DEF Spec

-----------------------------------------------------------------------------
(* A change that is pending is what the reading before showed.             *)
Held == \A i \in Instances : pending[i] # "none" => before[i] = pending[i]

LEMMA HeldKept == TypeOK /\ Held /\ [Next]_vars => Held'
<1> SUFFICES ASSUME TypeOK, Held, [Next]_vars PROVE Held'
  OBVIOUS
<1>1. MapsOK
  BY TypeParts
<1>2. CASE UNCHANGED <<pending, before>>
  BY <1>2 DEF Held
<1>3. CASE PassBegins \/ Restart
  <2>1. UNCHANGED <<pending, before>> \/ pending' = [i \in Instances |-> "none"]
    BY <1>3 DEF PassBegins, Restart
  <2> QED
    BY <2>1 DEF Held
<1>4. ASSUME NEW i \in Instances, CompareStep(i) PROVE Held'
  <2>1. PICK r \in Readings : Compares(i, r)
    BY <1>1, <1>4 DEF CompareStep, NotListed, ForgetsUnfound, FirstSeen, Same, Differs, Confirms,
                      Readings, MapsOK, States
  <2>2. /\ \A j \in Instances \ {i} : before'[j] = before[j]
        /\ before'[i] = IF r = "absent" THEN before[i] ELSE IF r = "unfound" THEN "none" ELSE r
        /\ reading[i] = r
    BY <2>1, ComparesTypes DEF Compares
  <2>3. \A j \in Instances \ {i} : pending'[j] = pending[j]
    BY <1>1, <1>4 DEF CompareStep, NotListed, ForgetsUnfound, FirstSeen, Same, Differs, Confirms, MapsOK
  <2>4. \/ pending'[i] = "none"
        \/ r = "absent" /\ pending'[i] = pending[i]
        \/ pending'[i] = r /\ r \in {"up", "down"}
    <3>1. CASE NotListed(i)
      BY <3>1, <2>2 DEF NotListed, Compares
    <3>2. CASE ForgetsUnfound(i) \/ Same(i) \/ Confirms(i)
      BY <3>2, <1>1 DEF ForgetsUnfound, Same, Confirms, MapsOK
    <3>3. CASE FirstSeen(i)
      BY <3>3, <1>1 DEF FirstSeen, MapsOK
    <3>4. CASE Differs(i)
      BY <3>4, <1>1, <2>2 DEF Differs, Compares, MapsOK
    <3> QED
      BY <1>4, <3>1, <3>2, <3>3, <3>4 DEF CompareStep
  <2> QED
    BY <2>2, <2>3, <2>4 DEF Held
<1>5. PassEnds \/ WorkerStep \/ OtherEvent \/ (\E c \in hot : Cools(c))
      \/ (\E i \in Instances, r \in Readings : InstanceChanges(i, r))
      \/ (\E H \in SUBSET Hooks : HooksSaved(H)) \/ UNCHANGED vars
      => UNCHANGED <<pending, before>>
  BY DEF PassEnds, WorkerStep, Takes, Chooses, Served, Sent, TriesAgain, GivesUp, Skips, Picks, OtherEvent,
         Cools, InstanceChanges, HooksSaved, vars, monitorVars
<1> QED
  BY <1>2, <1>3, <1>4, <1>5 DEF Next, MonitorStep

\* What the monitor takes for the new state of an instance it knew, two readings showed.
LEMMA AnnouncesWhatHeld ==
    ASSUME TypeOK, Held, [Next]_vars, NEW i \in Instances,
           seen[i] # "none", seen'[i] \notin {"none", seen[i]}
    PROVE  before[i] = seen'[i]
<1>1. MapsOK
  BY TypeParts
<1>2. CASE UNCHANGED seen
  BY <1>2
<1>3. CASE PassBegins \/ Restart
  BY <1>3 DEF PassBegins, Restart
<1>4. ASSUME NEW j \in Instances, CompareStep(j) PROVE before[i] = seen'[i]
  <2>1. CASE NotListed(j) \/ ForgetsUnfound(j) \/ Same(j) \/ Differs(j) \/ FirstSeen(j)
    BY <2>1, <1>1 DEF NotListed, ForgetsUnfound, Same, Differs, FirstSeen, MapsOK
  <2>2. CASE Confirms(j)
    <3>1. PICK r \in {"up", "down"} : pending[j] = r /\ seen' = [seen EXCEPT ![j] = r]
      BY <2>2 DEF Confirms
    <3> QED
      BY <3>1, <1>1 DEF Held, MapsOK
  <2> QED
    BY <1>4, <2>1, <2>2 DEF CompareStep
<1>5. PassEnds \/ WorkerStep \/ OtherEvent \/ (\E c \in hot : Cools(c))
      \/ (\E k \in Instances, r \in Readings : InstanceChanges(k, r))
      \/ (\E H \in SUBSET Hooks : HooksSaved(H)) \/ UNCHANGED vars
      => UNCHANGED seen
  BY DEF PassEnds, WorkerStep, Takes, Chooses, Served, Sent, TriesAgain, GivesUp, Skips, Picks, OtherEvent,
         Cools, InstanceChanges, HooksSaved, vars, monitorVars
<1> QED
  BY <1>2, <1>3, <1>4, <1>5 DEF Next, MonitorStep

(* Only a change that holds for two readings in a row is announced,        *)
(* whatever instances and hooks do and whenever the panel starts again.    *)
THEOREM AnnouncedChangesHeld == Spec => OnlyWhatHeldIsAnnounced
<1>1. Init => Held
  BY DEF Init, Held
<1>2. TypeOK /\ Held /\ [Next]_vars =>
        [\A i \in Instances :
          seen[i] # "none" /\ seen'[i] \notin {"none", seen[i]} => before[i] = seen'[i]]_vars
  BY AnnouncesWhatHeld
<1> QED
  BY InitTypes, StepTypes, HeldKept, <1>1, <1>2, PTL DEF Spec, OnlyWhatHeldIsAnnounced

-----------------------------------------------------------------------------
(* The order of events: a hook has received no event later than the one    *)
(* the worker holds, which is earlier than those of the queue.             *)
At(k) == queue[k].n
QueueOrdered == \A j, k \in 1..Len(queue) : j < k => At(j) < At(k)
QueueEmitted == \A k \in 1..Len(queue) : At(k) <= emitted
ItemFirst == item # None => item.n <= emitted /\ \A k \in 1..Len(queue) : item.n < At(k)
GotEarlier ==
    \A h \in Hooks : /\ got[h] <= emitted
                     /\ item # None => got[h] <= item.n
                     /\ \A k \in 1..Len(queue) : got[h] < At(k)
InOrder == QueueOrdered /\ QueueEmitted /\ ItemFirst /\ GotEarlier

\* The numbers are numbers.
LEMMA Numbers ==
    ASSUME TypeOK
    PROVE  /\ queue \in Seq(Events) /\ Len(queue) \in Nat /\ emitted \in Nat
           /\ \A k \in 1..Len(queue) : At(k) \in Nat
           /\ item # None => item \in Events /\ item.n \in Nat
           /\ \A h \in Hooks : got[h] \in Nat
<1>1. queue \in Seq(Events) /\ emitted \in Nat /\ got \in [Hooks -> Nat] /\ item \in Events \cup {None}
  BY DEF TypeOK
<1>2. \A e \in Events : e.n \in Nat
  BY DEF Events
<1>3. \A k \in 1..Len(queue) : queue[k] \in Events
  BY <1>1
<1> QED
  BY <1>1, <1>2, <1>3 DEF At

\* An emission comes last.
LEMMA EmitInOrder ==
    ASSUME TypeOK, InOrder, NEW about, NEW state, Emit(about, state), UNCHANGED <<item, got>>
    PROVE  InOrder'
<1>1. CASE UNCHANGED <<queue, emitted>>
  BY <1>1 DEF InOrder, QueueOrdered, QueueEmitted, ItemFirst, GotEarlier, At
<1>2. CASE /\ emitted' = emitted + 1
           /\ queue' = Append(queue, [about |-> about, state |-> state, n |-> emitted + 1])
  <2> DEFINE e == [about |-> about, state |-> state, n |-> emitted + 1]
  <2>1. e.n = emitted + 1
    OBVIOUS
  <2> HIDE DEF e
  <2>2. queue' = Append(queue, e)
    BY <1>2 DEF e
  <2>3. /\ Len(queue') = Len(queue) + 1 /\ queue'[Len(queue) + 1] = e
        /\ \A k \in 1..Len(queue) : queue'[k] = queue[k]
    BY <2>2, Numbers
  <2>5. \A k \in 1..Len(queue)' : \/ k = Len(queue) + 1 /\ At(k)' = emitted + 1
                                  \/ k \in 1..Len(queue) /\ At(k)' = At(k)
    BY <2>1, <2>3, Numbers DEF At
  <2>6. QueueOrdered'
    <3> SUFFICES ASSUME NEW j \in 1..Len(queue)', NEW k \in 1..Len(queue)', j < k
                 PROVE  At(j)' < At(k)'
      BY DEF QueueOrdered
    <3>1. j \in 1..Len(queue) /\ At(j)' = At(j)
      BY <2>5, <2>3, Numbers
    <3>2. k \in 1..Len(queue) => At(j) < At(k)
      BY <3>1 DEF InOrder, QueueOrdered
    <3>3. At(j) <= emitted
      BY <3>1 DEF InOrder, QueueEmitted
    <3> QED
      BY <3>1, <3>2, <3>3, <2>5, Numbers
  <2>7. QueueEmitted'
    <3> SUFFICES ASSUME NEW k \in 1..Len(queue)' PROVE At(k)' <= emitted'
      BY DEF QueueEmitted
    <3>1. k \in 1..Len(queue) => At(k) <= emitted
      BY DEF InOrder, QueueEmitted
    <3> QED
      BY <3>1, <2>5, <1>2, Numbers
  <2>8. ItemFirst'
    <3> SUFFICES ASSUME item # None
                 PROVE  item.n <= emitted' /\ \A k \in 1..Len(queue)' : item.n < At(k)'
      BY DEF ItemFirst
    <3>1. item.n <= emitted /\ \A k \in 1..Len(queue) : item.n < At(k)
      BY DEF InOrder, ItemFirst
    <3>2. item.n \in Nat /\ emitted \in Nat
      BY Numbers
    <3> QED
      BY <3>1, <3>2, <2>5, <1>2
  <2>9. GotEarlier'
    <3> SUFFICES ASSUME NEW h \in Hooks
                 PROVE  /\ got[h] <= emitted' /\ (item # None => got[h] <= item.n)
                        /\ \A k \in 1..Len(queue)' : got[h] < At(k)'
      BY DEF GotEarlier
    <3>1. /\ got[h] <= emitted /\ (item # None => got[h] <= item.n)
          /\ \A k \in 1..Len(queue) : got[h] < At(k)
      BY DEF InOrder, GotEarlier
    <3>2. got[h] \in Nat /\ emitted \in Nat
      BY Numbers
    <3> QED
      BY <3>1, <3>2, <2>5, <1>2
  <2> QED
    BY <2>6, <2>7, <2>8, <2>9 DEF InOrder
<1> QED
  BY <1>1, <1>2 DEF Emit

\* A hook receives what the worker holds, which is no earlier than what it had.
LEMMA ReceivesInOrder ==
    ASSUME TypeOK, InOrder, cur # "none", Fails, UNCHANGED <<queue, emitted, item>>
    PROVE  InOrder' /\ \A h \in Hooks : got'[h] >= got[h]
<1>1. cur \in Hooks /\ item # None /\ got \in [Hooks -> Nat]
  BY DEF TypeOK
<1>2. CASE got' = got
  BY <1>2, <1>1 DEF InOrder, QueueOrdered, QueueEmitted, ItemFirst, GotEarlier, At
<1>3. CASE got' = [got EXCEPT ![cur] = item.n]
  <2>1. \A h \in Hooks : got'[h] = IF h = cur THEN item.n ELSE got[h]
    BY <1>1, <1>3
  <2>2. GotEarlier' /\ \A h \in Hooks : got'[h] >= got[h]
    BY <2>1, <1>1, Numbers DEF InOrder, ItemFirst, GotEarlier, At
  <2> QED
    BY <2>2 DEF InOrder, QueueOrdered, QueueEmitted, ItemFirst, At
<1> QED
  BY <1>2, <1>3 DEF Fails, Receives, hookVars

LEMMA StepInOrder ==
    ASSUME TypeOK, InOrder, [Next]_vars
    PROVE  InOrder' /\ \A h \in Hooks : got'[h] >= got[h]
<1> USE Numbers
<1>1. CASE UNCHANGED <<queue, emitted, item, got>>
  BY <1>1 DEF InOrder, QueueOrdered, QueueEmitted, ItemFirst, GotEarlier, At
<1>2. CASE OtherEvent
  <2>1. Emit("other", "none") /\ UNCHANGED <<item, got>>
    BY <1>2 DEF OtherEvent, workerVars, hookVars
  <2> QED
    BY <2>1, EmitInOrder
<1>3. ASSUME NEW i \in Instances, Confirms(i)
      PROVE  InOrder' /\ \A h \in Hooks : got'[h] >= got[h]
  <2>1. PICK r \in {"up", "down"} : Emit(i, r) /\ UNCHANGED <<item, got>>
    BY <1>3 DEF Confirms, Compares, workerVars, hookVars
  <2> QED
    BY <2>1, EmitInOrder
<1>4. CASE Takes
  <2>1. /\ item = None /\ queue # <<>> /\ item' = Head(queue) /\ queue' = Tail(queue)
        /\ UNCHANGED <<emitted, got>>
    BY <1>4 DEF Takes, hookVars
  <2>2. /\ Len(queue) >= 1 /\ Len(queue') = Len(queue) - 1 /\ item' = queue[1]
        /\ \A k \in 1..Len(queue') : queue'[k] = queue[k + 1] /\ k + 1 \in 1..Len(queue)
    BY <2>1
  <2>3. item'.n = At(1) /\ \A k \in 1..Len(queue') : At(k)' = At(k + 1) /\ k + 1 \in 1..Len(queue)
    BY <2>2 DEF At
  <2>4. 1 \in 1..Len(queue)
    BY <2>2
  <2>5. QueueOrdered' /\ QueueEmitted'
    BY <2>1, <2>3 DEF InOrder, QueueOrdered, QueueEmitted
  <2>6. ItemFirst' /\ GotEarlier'
    BY <2>1, <2>3, <2>4 DEF InOrder, QueueOrdered, QueueEmitted, ItemFirst, GotEarlier
  <2> QED
    BY <2>1, <2>5, <2>6 DEF InOrder
<1>5. CASE Served
  <2>1. item' = None /\ UNCHANGED <<queue, emitted, got>>
    BY <1>5 DEF Served, hookVars
  <2> QED
    BY <2>1 DEF InOrder, QueueOrdered, QueueEmitted, ItemFirst, GotEarlier, At
<1>6. CASE Sent \/ TriesAgain \/ GivesUp
  <2>1. cur # "none" /\ Fails /\ UNCHANGED <<queue, emitted, item>>
    BY <1>6 DEF Sent, TriesAgain, GivesUp, Fails
  <2> QED
    BY <2>1, ReceivesInOrder
<1>7. CASE Restart
  <2>1. queue' = <<>> /\ item' = None /\ UNCHANGED <<emitted, got>>
    BY <1>7 DEF Restart, hookVars
  <2> QED
    BY <2>1 DEF InOrder, QueueOrdered, QueueEmitted, ItemFirst, GotEarlier
<1>8. ASSUME NEW i \in Instances, CompareStep(i), ~Confirms(i) PROVE UNCHANGED <<queue, emitted, item, got>>
  BY <1>8 DEF CompareStep, NotListed, ForgetsUnfound, FirstSeen, Same, Differs, Compares, Quiet, workerVars, hookVars
<1>9. PassBegins \/ PassEnds \/ Chooses \/ (\E h \in Hooks : Skips(h) \/ Picks(h)) \/ (\E c \in hot : Cools(c))
      \/ (\E i \in Instances, r \in Readings : InstanceChanges(i, r))
      \/ (\E H \in SUBSET Hooks : HooksSaved(H)) \/ UNCHANGED vars
      => UNCHANGED <<queue, emitted, item, got>>
  BY DEF PassBegins, PassEnds, Chooses, Skips, Picks, Cools, InstanceChanges, HooksSaved, vars, workerVars, hookVars
<1> QED
  BY <1>1, <1>2, <1>3, <1>4, <1>5, <1>6, <1>7, <1>8, <1>9 DEF Next, MonitorStep, WorkerStep

(* No hook receives an event after one that happened later, however many   *)
(* attempts fail, events are dropped and hooks are saved, and when the     *)
(* panel starts again.                                                     *)
THEOREM OrderKept == Spec => ReceivedInOrder
<1>1. Init => InOrder
  BY DEF Init, InOrder, QueueOrdered, QueueEmitted, ItemFirst, GotEarlier
<1>2. TypeOK /\ InOrder /\ [Next]_vars => InOrder' /\ [\A h \in Hooks : got'[h] >= got[h]]_vars
  BY StepInOrder
<1> QED
  BY InitTypes, StepTypes, <1>1, <1>2, PTL DEF Spec, ReceivedInOrder

-----------------------------------------------------------------------------
(* The queue and the worker keep the promise of EventDelivery.             *)

\* What happens to the events due to the hooks is what decides.
LEMMA DeliveryStutters ==
    ASSUME UNCHANGED <<emitted, got>>, \A h \in Hooks : DueTo(h)' = DueTo(h)
    PROVE  UNCHANGED Delivery!vars
  BY DEF Delivery!vars

LEMMA Loses ==
    ASSUME UNCHANGED <<emitted, got>>, NEW H \in SUBSET Hooks, NEW n,
           \A h \in H : n \in DueTo(h) /\ \A m \in DueTo(h) : n <= m,
           \A h \in Hooks : DueTo(h)' = IF h \in H THEN DueTo(h) \ {n} ELSE DueTo(h)
    PROVE  [Delivery!Next]_(Delivery!vars)
<1> DEFINE due == [h \in Hooks |-> DueTo(h)]
<1>1. CASE H = {}
  BY <1>1, DeliveryStutters
<1>2. CASE H # {}
  <2>1. PICK h \in H : TRUE
    BY <1>2
  <2>2. n \in UNION {due[k] : k \in H}
    BY <2>1
  <2>3. Delivery!Lose(H, n)
    BY DEF Delivery!Lose, Delivery!First
  <2> QED
    BY <2>2, <2>3 DEF Delivery!Next
<1> QED
  BY <1>1, <1>2

\* The hook the worker sends to receives what the worker holds.
LEMMA Delivers ==
    ASSUME TypeOK, emitted' = emitted, NEW h \in Hooks, NEW n \in DueTo(h),
           \A m \in DueTo(h) : n <= m,
           got' = [got EXCEPT ![h] = n],
           \A k \in Hooks \ {h} : DueTo(k)' = DueTo(k),
           DueTo(h)' \in {DueTo(h), DueTo(h) \ {n}}
    PROVE  Delivery!Next
<1> DEFINE due == [k \in Hooks |-> DueTo(k)]
<1>1. due' = due \/ due' = [due EXCEPT ![h] = @ \ {n}]
  OBVIOUS
<1>2. Delivery!First(n, h)
  BY DEF Delivery!First
<1>3. Delivery!Deliver(h, n)
  BY <1>1, <1>2 DEF Delivery!Deliver
<1>4. n \in due[h]
  OBVIOUS
<1> QED
  BY <1>3, <1>4 DEF Delivery!Next

\* An event of the queue is due to every hook, what the worker holds comes before it.
LEMMA HeldIsFirst ==
    ASSUME TypeOK, InOrder, item # None, NEW h \in Hooks, h \in todo \/ h = cur
    PROVE  /\ item.n \in DueTo(h) /\ \A m \in DueTo(h) : item.n <= m
           /\ item.n \notin Waiting /\ DueTo(h) = Waiting \cup {item.n}
<1>1. item.n \in Nat /\ \A m \in Waiting : item.n < m /\ m \in Nat
  BY Numbers DEF InOrder, ItemFirst, Waiting, At
<1> QED
  BY <1>1 DEF DueTo

\* Emissions: due to everyone, or dropped.
LEMMA EmitDelivery ==
    ASSUME TypeOK, NEW about, NEW state, Emit(about, state), UNCHANGED <<item, todo, cur, got>>
    PROVE  [Delivery!Next]_(Delivery!vars)
<1>1. CASE UNCHANGED <<queue, emitted>>
  BY <1>1, DeliveryStutters DEF DueTo, Waiting
<1>2. CASE /\ emitted' = emitted + 1
           /\ queue' = Append(queue, [about |-> about, state |-> state, n |-> emitted + 1])
  <2> DEFINE e == [about |-> about, state |-> state, n |-> emitted + 1]
  <2>1. e.n = emitted + 1
    OBVIOUS
  <2> HIDE DEF e
  <2>2. queue' = Append(queue, e)
    BY <1>2 DEF e
  <2>3. /\ Len(queue') = Len(queue) + 1 /\ queue'[Len(queue) + 1] = e /\ Len(queue) \in Nat
        /\ \A k \in 1..Len(queue) : queue'[k] = queue[k]
    BY <2>2, Numbers
  <2>4. 1..Len(queue') = 1..Len(queue) \cup {Len(queue) + 1}
    BY <2>3
  <2>5. Waiting' = Waiting \cup {emitted + 1}
    BY <2>1, <2>3, <2>4 DEF Waiting
  <2>6. \A h \in Hooks : DueTo(h)' = DueTo(h) \cup {emitted + 1}
    BY <2>5 DEF DueTo
  <2>7. Delivery!Happens
    BY <1>2, <2>6 DEF Delivery!Happens
  <2> QED
    BY <2>7 DEF Delivery!Next
<1> QED
  BY <1>1, <1>2 DEF Emit

\* The worker takes the first event: it stays due to every hook.
LEMMA TakesDelivery ==
    ASSUME TypeOK, InOrder, Takes
    PROVE  [Delivery!Next]_(Delivery!vars)
<1> USE Numbers
<1>1. /\ item = None /\ queue # <<>> /\ item' = Head(queue) /\ queue' = Tail(queue)
      /\ todo' = Hooks /\ UNCHANGED <<emitted, got, cur>>
  BY DEF Takes, hookVars
<1>2. todo = {} /\ cur = "none"
  BY <1>1 DEF TypeOK
<1>3. \A h \in Hooks : DueTo(h) = Waiting
  BY <1>2, WebhooksAssumption DEF DueTo
<1>4. /\ Len(queue) >= 1 /\ Len(queue') = Len(queue) - 1 /\ item' = queue[1]
      /\ \A k \in 1..Len(queue') : queue'[k] = queue[k + 1] /\ k + 1 \in 1..Len(queue)
      /\ \A k \in 1..Len(queue) : k # 1 => k - 1 \in 1..Len(queue') /\ queue'[k - 1] = queue[k]
  BY <1>1
<1> DEFINE n == item'.n
<1>5. n = At(1) /\ 1 \in 1..Len(queue) /\ At(1) \in Nat
  BY <1>4 DEF At
<1>6. \A k \in 1..Len(queue) : k # 1 => At(1) < At(k)
  BY <1>5 DEF InOrder, QueueOrdered
<1>7. n \in Waiting /\ \A m \in Waiting : n <= m
  BY <1>5, <1>6 DEF Waiting, At
<1>8. Waiting' = Waiting \ {n}
  <2>1. \A m \in Waiting' : m \in Waiting /\ m # n
    <3> SUFFICES ASSUME NEW k \in 1..Len(queue') PROVE queue'[k].n \in Waiting /\ queue'[k].n # n
      BY DEF Waiting
    <3>1. queue'[k].n = At(k + 1) /\ k + 1 \in 1..Len(queue) /\ k + 1 # 1
      BY <1>4 DEF At
    <3>2. At(k + 1) # n
      BY <1>5, <1>6, <3>1
    <3> QED
      BY <3>1, <3>2 DEF Waiting, At
  <2>2. \A m \in Waiting : m # n => m \in Waiting'
    <3> SUFFICES ASSUME NEW k \in 1..Len(queue), queue[k].n # n PROVE queue[k].n \in Waiting'
      BY DEF Waiting
    <3>1. k # 1
      BY <1>5 DEF At
    <3>2. k - 1 \in 1..Len(queue') /\ queue'[k - 1] = queue[k]
      BY <1>4, <3>1
    <3> QED
      BY <3>2 DEF Waiting
  <2> QED
    BY <2>1, <2>2
<1>9. \A h \in Hooks : DueTo(h)' = DueTo(h)
  <2> SUFFICES ASSUME NEW h \in Hooks PROVE DueTo(h)' = DueTo(h)
    OBVIOUS
  <2>1. DueTo(h)' = Waiting' \cup {n}
    BY <1>1, <1>2, WebhooksAssumption DEF DueTo
  <2> QED
    BY <2>1, <1>3, <1>7, <1>8
<1> QED
  BY <1>1, <1>9, DeliveryStutters

\* The hooks that are not active when it chooses lose the event.
LEMMA ChoosesDelivery ==
    ASSUME TypeOK, InOrder, Chooses
    PROVE  [Delivery!Next]_(Delivery!vars)
<1>1. /\ ~chosen /\ todo' = hooks /\ UNCHANGED <<queue, emitted, item, cur, got>>
  BY DEF Chooses, hookVars
<1>2. todo = Hooks /\ cur = "none" /\ item # None /\ hooks \subseteq Hooks
  BY <1>1 DEF TypeOK
<1> DEFINE n == item.n
<1>3. ASSUME NEW h \in Hooks
      PROVE  /\ n \in DueTo(h) /\ \A m \in DueTo(h) : n <= m
             /\ n \notin Waiting /\ DueTo(h) = Waiting \cup {n}
  BY <1>2, HeldIsFirst
<1>4. ASSUME NEW h \in Hooks
      PROVE  DueTo(h)' = IF h \in Hooks \ hooks THEN DueTo(h) \ {n} ELSE DueTo(h)
  <2>1. Waiting' = Waiting
    BY <1>1 DEF Waiting
  <2>2. DueTo(h)' = Waiting' \cup (IF h \in hooks THEN {n} ELSE {})
    BY <1>1, <1>2, WebhooksAssumption DEF DueTo
  <2> QED
    BY <1>3, <2>1, <2>2
<1> HIDE DEF n
<1> QED
  BY <1>1, <1>3, <1>4, Loses

\* An attempt: the hook at hand receives the event or not, and is done with or not.
LEMMA AttemptDelivery ==
    ASSUME TypeOK, InOrder, cur # "none", Fails, UNCHANGED <<queue, emitted, item, todo>>,
           cur' \in {cur, "none"}
    PROVE  \/ cur' = "none" /\ UNCHANGED hookVars
           \/ [Delivery!Next]_(Delivery!vars)
<1>1. PICK h \in Hooks : h = cur
  BY DEF TypeOK
<1>2. item # None
  BY DEF TypeOK
<1>3. /\ item.n \in DueTo(h) /\ \A m \in DueTo(h) : item.n <= m
      /\ item.n \notin Waiting /\ DueTo(h) = Waiting \cup {item.n}
  BY <1>1, <1>2, HeldIsFirst
<1>4. \A k \in Hooks \ {h} : DueTo(k)' = DueTo(k)
  BY <1>1, WebhooksAssumption DEF DueTo, Waiting
<1>5. DueTo(h)' \in {DueTo(h), DueTo(h) \ {item.n}}
  <2>1. DueTo(h)' \in {Waiting, Waiting \cup {item.n}}
    BY DEF DueTo, Waiting
  <2> QED
    BY <2>1, <1>3
<1>6. CASE Receives(cur)
  <2>1. got' = [got EXCEPT ![h] = item.n] /\ emitted' = emitted
    BY <1>1, <1>6 DEF Receives
  <2>2. Delivery!Next
    BY <1>3, <1>4, <1>5, <2>1, Delivers
  <2> QED
    BY <2>2
<1>7. CASE UNCHANGED hookVars /\ cur' = cur
  BY <1>7, DeliveryStutters DEF DueTo, Waiting, hookVars
<1> QED
  BY <1>6, <1>7 DEF Fails

\* A hook in its cooldown, or whose last attempt has failed, is not sent the event.
LEMMA DropsDelivery ==
    ASSUME TypeOK, InOrder, NEW h \in Hooks, h \in todo \/ h = cur, item # None,
           UNCHANGED <<queue, emitted, item, got>>,
           \A k \in Hooks \ {h} : (k \in todo \/ k = cur)' <=> k \in todo \/ k = cur
    PROVE  [Delivery!Next]_(Delivery!vars)
<1>1. /\ item.n \in DueTo(h) /\ \A m \in DueTo(h) : item.n <= m
      /\ item.n \notin Waiting /\ DueTo(h) = Waiting \cup {item.n}
  BY HeldIsFirst
<1>2. \A k \in Hooks \ {h} : DueTo(k)' = DueTo(k)
  BY DEF DueTo, Waiting
<1>3. CASE (h \in todo \/ h = cur)'
  <2>1. DueTo(h)' = DueTo(h)
    BY <1>3 DEF DueTo, Waiting
  <2> QED
    BY <1>2, <2>1, DeliveryStutters
<1>4. CASE ~(h \in todo \/ h = cur)'
  <2>1. DueTo(h)' = DueTo(h) \ {item.n}
    BY <1>1, <1>4 DEF DueTo, Waiting
  <2>2. \A k \in Hooks : DueTo(k)' = IF k \in {h} THEN DueTo(k) \ {item.n} ELSE DueTo(k)
    BY <1>2, <2>1
  <2>3. {h} \in SUBSET Hooks /\ \A k \in {h} : item.n \in DueTo(k) /\ \A m \in DueTo(k) : item.n <= m
    BY <1>1
  <2>4. UNCHANGED <<emitted, got>>
    OBVIOUS
  <2> QED
    BY <2>2, <2>3, <2>4, Loses
<1> QED
  BY <1>3, <1>4

LEMMA WorkerDelivery ==
    ASSUME TypeOK, InOrder, WorkerStep
    PROVE  [Delivery!Next]_(Delivery!vars)
<1>1. CASE Takes
  BY <1>1, TakesDelivery
<1>8. CASE Chooses
  BY <1>8, ChoosesDelivery
<1>2. CASE Served
  <2>1. UNCHANGED <<queue, emitted, got, todo, cur>> /\ todo = {} /\ cur = "none"
    BY <1>2 DEF Served, hookVars
  <2> QED
    BY <2>1, DeliveryStutters, WebhooksAssumption DEF DueTo, Waiting
<1>3. CASE Sent
  <2>1. cur # "none" /\ Receives(cur) /\ cur' = "none" /\ UNCHANGED <<queue, emitted, item, todo>>
    BY <1>3 DEF Sent
  <2>2. CASE UNCHANGED hookVars
    <3>1. cur \in Hooks /\ item # None /\ got' = got
      BY <2>1, <2>2 DEF TypeOK, hookVars
    <3> QED
      BY <2>1, <3>1, DropsDelivery, WebhooksAssumption
  <2> QED
    BY <2>1, <2>2, AttemptDelivery DEF Fails
<1>4. CASE TriesAgain
  <2>1. cur # "none" /\ Fails /\ cur' = cur /\ UNCHANGED <<queue, emitted, item, todo>>
    BY <1>4 DEF TriesAgain
  <2> QED
    BY <2>1, AttemptDelivery
<1>5. CASE GivesUp
  <2>1. cur # "none" /\ Fails /\ cur' = "none" /\ UNCHANGED <<queue, emitted, item, todo>>
    BY <1>5 DEF GivesUp, Fails
  <2>2. CASE UNCHANGED hookVars
    <3>1. cur \in Hooks /\ item # None /\ got' = got
      BY <2>1, <2>2 DEF TypeOK, hookVars
    <3> QED
      BY <2>1, <3>1, DropsDelivery, WebhooksAssumption
  <2> QED
    BY <2>1, <2>2, AttemptDelivery
<1>6. ASSUME NEW h \in Hooks, Skips(h) PROVE [Delivery!Next]_(Delivery!vars)
  <2>1. h \in todo /\ todo' = todo \ {h} /\ UNCHANGED <<queue, emitted, item, cur, got>>
    BY <1>6 DEF Skips, hookVars
  <2>2. item # None
    BY <2>1 DEF TypeOK
  <2> QED
    BY <2>1, <2>2, DropsDelivery
<1>7. ASSUME NEW h \in Hooks, Picks(h) PROVE [Delivery!Next]_(Delivery!vars)
  <2>1. cur = "none" /\ h \in todo /\ todo' = todo \ {h} /\ cur' = h /\ UNCHANGED <<queue, emitted, item, got>>
    BY <1>7 DEF Picks, hookVars
  <2>2. \A k \in Hooks : (k \in todo' \/ k = cur') <=> (k \in todo \/ k = cur)
    BY <2>1, WebhooksAssumption
  <2> QED
    BY <2>1, <2>2, DeliveryStutters DEF DueTo, Waiting
<1> QED
  BY <1>1, <1>2, <1>3, <1>4, <1>5, <1>6, <1>7, <1>8 DEF WorkerStep

LEMMA StepDelivery ==
    ASSUME TypeOK, InOrder, [Next]_vars
    PROVE  [Delivery!Next]_(Delivery!vars)
<1>1. CASE UNCHANGED <<queue, emitted, item, todo, cur, got>>
  BY <1>1, DeliveryStutters DEF DueTo, Waiting
<1>2. CASE OtherEvent
  BY <1>2, EmitDelivery DEF OtherEvent, workerVars, hookVars
<1>3. ASSUME NEW i \in Instances, Confirms(i) PROVE [Delivery!Next]_(Delivery!vars)
  <2>1. PICK r \in {"up", "down"} : Emit(i, r) /\ UNCHANGED <<item, todo, cur, got>>
    BY <1>3 DEF Confirms, Compares, workerVars, hookVars
  <2> QED
    BY <2>1, EmitDelivery
<1>4. CASE Restart
  <2>1. queue' = <<>> /\ todo' = {} /\ cur' = "none" /\ UNCHANGED <<emitted, got>>
    BY <1>4 DEF Restart, hookVars
  <2>2. Waiting' = {}
    BY <2>1 DEF Waiting
  <2>3. \A h \in Hooks : DueTo(h)' = {}
    BY <2>1, <2>2, WebhooksAssumption DEF DueTo
  <2>4. Delivery!Forget
    BY <2>1, <2>3 DEF Delivery!Forget
  <2> QED
    BY <2>4 DEF Delivery!Next
<1>5. ASSUME NEW i \in Instances, CompareStep(i), ~Confirms(i)
      PROVE  UNCHANGED <<queue, emitted, item, todo, cur, got>>
  BY <1>5 DEF CompareStep, NotListed, ForgetsUnfound, FirstSeen, Same, Differs, Compares, Quiet, workerVars, hookVars
<1>6. PassBegins \/ PassEnds \/ (\E c \in hot : Cools(c))
      \/ (\E i \in Instances, r \in Readings : InstanceChanges(i, r))
      \/ (\E H \in SUBSET Hooks : HooksSaved(H)) \/ UNCHANGED vars
      => UNCHANGED <<queue, emitted, item, todo, cur, got>>
  BY DEF PassBegins, PassEnds, Cools, InstanceChanges, HooksSaved, vars, workerVars, hookVars
<1> QED
  BY <1>1, <1>2, <1>3, <1>4, <1>5, <1>6, WorkerDelivery DEF Next, MonitorStep

(* webhookQueue, its worker and its attempts implement EventDelivery, for  *)
(* any hooks, any length of the queue and any number of attempts.          *)
THEOREM DeliveryRefinement == Spec => KeepsDeliveryPromise
<1>1. Init => InOrder /\ Delivery!Init
  <2> SUFFICES ASSUME Init PROVE InOrder /\ Delivery!Init
    OBVIOUS
  <2>1. queue = <<>> /\ todo = {} /\ cur = "none" /\ emitted = 0 /\ got = [h \in Hooks |-> 0] /\ item = None
    BY DEF Init
  <2>2. InOrder
    BY <2>1 DEF InOrder, QueueOrdered, QueueEmitted, ItemFirst, GotEarlier
  <2>3. Waiting = {}
    BY <2>1 DEF Waiting
  <2>4. \A h \in Hooks : DueTo(h) = {}
    BY <2>1, <2>3, WebhooksAssumption DEF DueTo
  <2> QED
    BY <2>1, <2>2, <2>4 DEF Delivery!Init
<1>2. TypeOK /\ InOrder /\ [Next]_vars => InOrder' /\ [Delivery!Next]_(Delivery!vars)
  BY StepInOrder, StepDelivery
<1> QED
  BY InitTypes, StepTypes, <1>1, <1>2, PTL DEF Spec, KeepsDeliveryPromise, Delivery!Spec

-----------------------------------------------------------------------------
(* The last word due to a hook.                                            *)

\* What a hook will know of an instance: nothing is due about one the monitor does not
\* know, and the last event due about another says what the monitor goes by.
Settled(h, i) ==
    IF seen[i] = "none" THEN DueAbout(h, i) = {} ELSE WillBeTold(h, i, seen[i])
WordKept == excused \/ \A h \in hooks \cap Prompt, i \in Instances : Settled(h, i)

\* The events due are events.
LEMMA DueAreEvents ==
    ASSUME TypeOK
    PROVE  /\ \A k \in 1..Len(queue) : queue[k] \in Events
           /\ \A h \in Hooks : h \in todo \/ h = cur => item \in Events /\ item # None
           /\ \A h \in Hooks, i \in Instances : \A e \in DueAbout(h, i) : e \in Events /\ e.n \in Nat
<1>1. \A k \in 1..Len(queue) : queue[k] \in Events
  BY Numbers
<1>2. \A h \in Hooks : h \in todo \/ h = cur => item \in Events /\ item # None
  BY WebhooksAssumption DEF TypeOK
<1>3. \A e \in Events : e.n \in Nat
  BY DEF Events
<1> QED
  BY <1>1, <1>2, <1>3 DEF DueAbout, Queued

\* What is due and what was told decide.
LEMMA WordFrame ==
    ASSUME NEW h \in Hooks, NEW i \in Instances, Settled(h, i), seen'[i] = seen[i],
           DueAbout(h, i)' = DueAbout(h, i), told'[h][i] = told[h][i] \/ DueAbout(h, i) # {}
    PROVE  Settled(h, i)'
  BY DEF Settled, WillBeTold

\* An emission is due last.
LEMMA EmitDue ==
    ASSUME TypeOK, InOrder, NEW about, NEW state, Emit(about, state), ~excused', hooks # {},
           UNCHANGED <<item, todo, cur>>, NEW h \in Hooks, NEW i \in Instances
    PROVE  /\ about # i => DueAbout(h, i)' = DueAbout(h, i)
           /\ about = i => \E e : /\ DueAbout(h, i)' = DueAbout(h, i) \cup {e} /\ e.state = state
                                  /\ \A f \in DueAbout(h, i)' : f.n <= e.n
<1> DEFINE e == [about |-> about, state |-> state, n |-> emitted + 1]
<1>1. queue' = Append(queue, e)
  BY DEF Emit
<1>2. e.about = about /\ e.state = state /\ e.n = emitted + 1
  OBVIOUS
<1> HIDE DEF e
<1>3. /\ Len(queue') = Len(queue) + 1 /\ queue'[Len(queue) + 1] = e /\ Len(queue) \in Nat
      /\ \A k \in 1..Len(queue) : queue'[k] = queue[k]
  BY <1>1, Numbers
<1>4. 1..Len(queue') = 1..Len(queue) \cup {Len(queue) + 1}
  BY <1>3
<1>5. Queued' = Queued \cup {e}
  BY <1>3, <1>4 DEF Queued
<1>6. about # i => DueAbout(h, i)' = DueAbout(h, i)
  BY <1>2, <1>5 DEF DueAbout
<1>7. about = i => DueAbout(h, i)' = DueAbout(h, i) \cup {e}
  BY <1>2, <1>5 DEF DueAbout
<1>8. \A f \in DueAbout(h, i) : f.n <= e.n
  <2>1. \A f \in Queued : f.n <= emitted /\ f.n \in Nat
    BY Numbers DEF InOrder, QueueEmitted, At, Queued
  <2>2. h \in todo \/ h = cur => item.n <= emitted /\ item.n \in Nat
    BY Numbers, DueAreEvents DEF InOrder, ItemFirst
  <2> QED
    BY <1>2, <2>1, <2>2, Numbers DEF DueAbout
<1>9. e.n <= e.n
  BY <1>2, Numbers
<1> QED
  BY <1>2, <1>6, <1>7, <1>8, <1>9

\* The worker takes the first event: it stays due to every hook.
LEMMA TakesDue ==
    ASSUME TypeOK, Takes, NEW h \in Hooks, NEW i \in Instances
    PROVE  DueAbout(h, i)' = DueAbout(h, i)
<1> USE Numbers
<1>1. item = None /\ queue # <<>> /\ item' = Head(queue) /\ queue' = Tail(queue) /\ todo' = Hooks
  BY DEF Takes
<1>2. todo = {} /\ cur = "none"
  BY <1>1 DEF TypeOK
<1>3. /\ Len(queue) >= 1 /\ Len(queue') = Len(queue) - 1 /\ item' = queue[1]
      /\ \A k \in 1..Len(queue') : queue'[k] = queue[k + 1] /\ k + 1 \in 1..Len(queue)
      /\ \A k \in 1..Len(queue) : k # 1 => k - 1 \in 1..Len(queue') /\ queue'[k - 1] = queue[k]
  BY <1>1
<1>4. Queued = Queued' \cup {item'}
  <2>1. \A x \in Queued' \cup {item'} : x \in Queued
    BY <1>3 DEF Queued
  <2>2. \A x \in Queued : x \in Queued' \cup {item'}
    BY <1>3 DEF Queued
  <2> QED
    BY <2>1, <2>2
<1> QED
  BY <1>1, <1>2, <1>4, WebhooksAssumption DEF DueAbout

\* What an attempt tells a hook is what the event the worker holds says.
LEMMA ToldBy ==
    ASSUME TypeOK, cur # "none", Receives(cur), NEW h \in Prompt, NEW i \in Instances
    PROVE  told'[h][i] = IF h = cur /\ item.about = i THEN item.state ELSE told[h][i]
<1>1. told \in [Prompt -> [Instances -> States]]
  BY DEF TypeOK, States
<1>2. CASE item.about \in Instances /\ cur \in Prompt
  <2>1. told' = [told EXCEPT ![cur][item.about] = item.state]
    BY <1>2 DEF Receives
  <2> QED
    BY <1>1, <1>2, <2>1
<1>3. CASE ~(item.about \in Instances /\ cur \in Prompt)
  BY <1>3 DEF Receives
<1> QED
  BY <1>2, <1>3

\* A hook that has received what the worker held is left with what the queue holds, which
\* is later, or with what it was told.
LEMMA SentSettles ==
    ASSUME TypeOK, InOrder, Sent, NEW h \in Prompt, NEW i \in Instances, Settled(h, i)
    PROVE  Settled(h, i)'
<1>1. cur # "none" /\ Receives(cur) /\ cur' = "none" /\ UNCHANGED <<queue, item, todo, seen>>
  BY DEF Sent, monitorVars
<1>2. h \in Hooks /\ h # "none"
  BY WebhooksAssumption DEF Prompt
<1>3. Queued' = Queued
  BY <1>1 DEF Queued
<1>4. CASE h # cur \/ h \in todo \/ item.about # i
  <2>1. DueAbout(h, i)' = DueAbout(h, i)
    BY <1>1, <1>2, <1>3, <1>4 DEF DueAbout
  <2>2. told'[h][i] = told[h][i] \/ DueAbout(h, i) # {}
    BY <1>1, <1>4, ToldBy DEF DueAbout
  <2> QED
    BY <1>1, <1>2, <2>1, <2>2, WordFrame
<1>5. CASE h = cur /\ h \notin todo /\ item.about = i
  <2>1. told'[h][i] = item.state
    BY <1>1, <1>5, ToldBy
  <2>2. DueAbout(h, i)' = {e \in Queued : e.about = i}
    BY <1>1, <1>2, <1>3, <1>5 DEF DueAbout
  <2>3. DueAbout(h, i) = DueAbout(h, i)' \cup {item}
    BY <2>2, <1>5 DEF DueAbout
  <2>4. seen[i] # "none"
    BY <2>3 DEF Settled
  <2>5. PICK e \in DueAbout(h, i) : e.state = seen[i] /\ \A f \in DueAbout(h, i) : f.n <= e.n
    BY <2>3, <2>4 DEF Settled, WillBeTold
  <2>6. CASE DueAbout(h, i)' = {}
    BY <1>1, <2>1, <2>3, <2>4, <2>5, <2>6 DEF Settled, WillBeTold
  <2>7. CASE DueAbout(h, i)' # {}
    <3>1. \A f \in Queued : item.n < f.n /\ f.n \in Nat
      BY <1>2, <1>5, Numbers, DueAreEvents DEF InOrder, ItemFirst, At, Queued
    <3>2. item.n \in Nat
      BY <1>2, <1>5, Numbers, DueAreEvents
    <3>3. e # item
      BY <2>2, <2>3, <2>5, <2>7, <3>1, <3>2
    <3>4. e \in DueAbout(h, i)' /\ \A f \in DueAbout(h, i)' : f.n <= e.n
      BY <2>3, <2>5, <3>3
    <3> QED
      BY <1>1, <2>4, <2>5, <3>4 DEF Settled, WillBeTold
  <2> QED
    BY <2>6, <2>7
<1> QED
  BY <1>4, <1>5

\* Every step of the worker leaves the last word right, or the panel knows better.
LEMMA WorkerWord ==
    ASSUME TypeOK, InOrder, WorkerStep, ~excused', NEW h \in hooks \cap Prompt, NEW i \in Instances,
           Settled(h, i)
    PROVE  Settled(h, i)'
<1>1. h \in Hooks /\ h # "none" /\ h \notin Patient /\ seen' = seen
  BY WebhooksAssumption
  DEF Prompt, WorkerStep, Takes, Chooses, Served, Sent, TriesAgain, GivesUp, Skips, Picks, monitorVars
<1>2. CASE Takes
  <2>1. DueAbout(h, i)' = DueAbout(h, i) /\ told' = told
    BY <1>1, <1>2, TakesDue DEF Takes, hookVars
  <2> QED
    BY <1>1, <2>1, WordFrame
<1>9. CASE Chooses
  <2>1. /\ h \in todo /\ h \in todo' /\ UNCHANGED <<queue, item, cur, told>>
    BY <1>1, <1>9 DEF Chooses, TypeOK, hookVars
  <2>2. DueAbout(h, i)' = DueAbout(h, i)
    BY <2>1 DEF DueAbout, Queued
  <2> QED
    BY <1>1, <2>1, <2>2, WordFrame
<1>3. CASE Served
  <2>1. DueAbout(h, i)' = DueAbout(h, i) /\ told' = told
    BY <1>1, <1>3 DEF Served, hookVars, DueAbout, Queued
  <2> QED
    BY <1>1, <2>1, WordFrame
<1>4. CASE Sent
  BY <1>4, SentSettles
<1>5. CASE TriesAgain
  <2>1. cur # "none" /\ Fails /\ UNCHANGED <<queue, item, todo, cur>>
    BY <1>5 DEF TriesAgain
  <2>2. DueAbout(h, i)' = DueAbout(h, i)
    BY <2>1 DEF DueAbout, Queued
  <2>3. told'[h][i] = told[h][i] \/ DueAbout(h, i) # {}
    <3>1. CASE Receives(cur)
      BY <2>1, <3>1, ToldBy DEF DueAbout
    <3>2. CASE UNCHANGED hookVars
      BY <3>2 DEF hookVars
    <3> QED
      BY <2>1, <3>1, <3>2 DEF Fails
  <2> QED
    BY <1>1, <2>2, <2>3, WordFrame
<1>6. ~GivesUp
  BY DEF GivesUp
<1>7. ASSUME NEW k \in Hooks, Skips(k) PROVE Settled(h, i)'
  <2>1. k \in Patient
    BY <1>7 DEF Skips, TypeOK
  <2>2. DueAbout(h, i)' = DueAbout(h, i) /\ told' = told
    BY <1>1, <1>7, <2>1 DEF Skips, hookVars, DueAbout, Queued
  <2> QED
    BY <1>1, <2>2, WordFrame
<1>8. ASSUME NEW k \in Hooks, Picks(k) PROVE Settled(h, i)'
  <2>1. DueAbout(h, i)' = DueAbout(h, i) /\ told' = told
    BY <1>1, <1>8 DEF Picks, hookVars, DueAbout, Queued
  <2> QED
    BY <1>1, <2>1, WordFrame
<1> QED
  BY <1>2, <1>3, <1>4, <1>5, <1>6, <1>7, <1>8, <1>9 DEF WorkerStep

\* A comparison tells the story from where it begins, and emits every change.
LEMMA CompareWord ==
    ASSUME TypeOK, InOrder, NEW j \in Instances, CompareStep(j), ~excused',
           NEW h \in hooks \cap Prompt, NEW i \in Instances, Settled(h, i)
    PROVE  Settled(h, i)'
<1>1. h \in Hooks /\ hooks # {} /\ seen \in [Instances -> States]
      /\ UNCHANGED <<item, todo, cur>>
  BY DEF TypeOK, States, CompareStep, NotListed, ForgetsUnfound, FirstSeen, Same, Differs, Confirms,
         Compares, workerVars
<1>2. CASE UNCHANGED <<queue, told>> /\ seen'[i] = seen[i]
  <2>1. DueAbout(h, i)' = DueAbout(h, i)
    BY <1>1, <1>2 DEF DueAbout, Queued
  <2> QED
    BY <1>1, <1>2, <2>1, WordFrame
<1>3. CASE NotListed(j) \/ Same(j) \/ Differs(j)
  BY <1>2, <1>3 DEF NotListed, Same, Differs, Quiet, hookVars
<1>4. CASE ForgetsUnfound(j)
  <2>1. seen[j] = "none" /\ seen' = [seen EXCEPT ![j] = "none"] /\ UNCHANGED <<queue, told>>
    BY <1>4 DEF ForgetsUnfound, hookVars
  <2> QED
    BY <1>1, <1>2, <2>1
<1>5. CASE FirstSeen(j)
  <2>1. PICK r \in {"up", "down"} :
           /\ seen[j] = "none" /\ seen' = [seen EXCEPT ![j] = r] /\ queue' = queue
           /\ told' = [k \in Prompt |-> [told[k] EXCEPT ![j] = r]]
    BY <1>5 DEF FirstSeen, Quiet
  <2>2. DueAbout(h, i)' = DueAbout(h, i)
    BY <1>1, <2>1 DEF DueAbout, Queued
  <2>3. told'[h] = [told[h] EXCEPT ![j] = r] /\ told[h] \in [Instances -> States]
    BY <2>1 DEF TypeOK, States
  <2>4. CASE j = i
    <3>1. DueAbout(h, i) = {} /\ told'[h][i] = r /\ seen'[i] = r /\ r # "none"
      BY <1>1, <2>1, <2>3, <2>4 DEF Settled
    <3> QED
      BY <2>2, <3>1 DEF Settled, WillBeTold
  <2>5. CASE j # i
    BY <1>1, <2>1, <2>2, <2>3, <2>5, WordFrame
  <2> QED
    BY <2>4, <2>5
<1>6. CASE Confirms(j)
  <2>1. PICK r \in {"up", "down"} : seen' = [seen EXCEPT ![j] = r] /\ Emit(j, r) /\ told' = told
    BY <1>6 DEF Confirms, hookVars
  <2>2. CASE j = i
    <3>1. PICK e : /\ DueAbout(h, i)' = DueAbout(h, i) \cup {e} /\ e.state = r
                   /\ \A f \in DueAbout(h, i)' : f.n <= e.n
      BY <1>1, <2>1, <2>2, EmitDue
    <3>2. seen'[i] = r /\ r # "none"
      BY <1>1, <2>1, <2>2
    <3> QED
      BY <3>1, <3>2 DEF Settled, WillBeTold
  <2>3. CASE j # i
    <3>1. DueAbout(h, i)' = DueAbout(h, i)
      BY <1>1, <2>1, <2>3, EmitDue
    <3> QED
      BY <1>1, <2>1, <2>3, <3>1, WordFrame
  <2> QED
    BY <2>2, <2>3
<1> QED
  BY <1>3, <1>4, <1>5, <1>6 DEF CompareStep

\* A loss the panel knows of stays known, and hooks only change with one.
LEMMA ExcusesStay ==
    ASSUME [Next]_vars, excused \in BOOLEAN, ~excused'
    PROVE  ~excused /\ hooks' = hooks /\ ~Restart
<1>1. ASSUME NEW i \in Instances, CompareStep(i) PROVE ~excused /\ hooks' = hooks
  <2>1. CASE Confirms(i)
    BY <2>1 DEF Confirms, Emit, Compares, worldVars
  <2>2. CASE ForgetsUnfound(i)
    BY <2>2 DEF ForgetsUnfound, Compares, worldVars
  <2>3. CASE NotListed(i) \/ FirstSeen(i) \/ Same(i) \/ Differs(i)
    BY <2>3 DEF NotListed, FirstSeen, Same, Differs, Quiet, Compares, worldVars
  <2> QED
    BY <1>1, <2>1, <2>2, <2>3 DEF CompareStep
<1>2. ASSUME PassBegins \/ PassEnds \/ (\E c \in hot : Cools(c)) \/ UNCHANGED vars
      PROVE  ~excused /\ hooks' = hooks
  BY <1>2 DEF PassBegins, PassEnds, Cools, vars, worldVars
<1>3. ASSUME WorkerStep PROVE ~excused /\ hooks' = hooks
  BY <1>3 DEF WorkerStep, Takes, Chooses, Served, Sent, TriesAgain, GivesUp, Skips, Picks, worldVars
<1>4. ASSUME OtherEvent \/ \E i \in Instances, r \in Readings : InstanceChanges(i, r)
      PROVE  ~excused /\ hooks' = hooks
  BY <1>4 DEF OtherEvent, Emit, InstanceChanges
<1>5. ~Restart /\ ~\E H \in SUBSET Hooks : HooksSaved(H)
  BY DEF Restart, HooksSaved
<1> QED
  BY <1>1, <1>2, <1>3, <1>4, <1>5 DEF Next, MonitorStep

LEMMA StepWord == TypeOK /\ InOrder /\ WordKept /\ [Next]_vars => WordKept'
<1> SUFFICES ASSUME TypeOK, InOrder, WordKept, [Next]_vars, ~excused',
                    NEW h \in hooks' \cap Prompt, NEW i \in Instances
             PROVE  Settled(h, i)'
  BY DEF WordKept
<1>1. hooks' = hooks /\ ~excused /\ ~Restart
  BY ExcusesStay DEF TypeOK
<1>2. h \in Hooks /\ h \in hooks \cap Prompt /\ Settled(h, i)
  BY <1>1 DEF WordKept, Prompt
<1>3. CASE UNCHANGED <<queue, item, todo, cur, told, seen>>
  <2>1. DueAbout(h, i)' = DueAbout(h, i)
    BY <1>3 DEF DueAbout, Queued
  <2> QED
    BY <1>2, <1>3, <2>1, WordFrame
<1>4. CASE OtherEvent
  <2>1. Emit("other", "none") /\ UNCHANGED <<item, todo, cur, told, seen>> /\ hooks # {} /\ "other" # i
    BY <1>2, <1>4, WebhooksAssumption DEF OtherEvent, workerVars, hookVars, monitorVars
  <2>2. DueAbout(h, i)' = DueAbout(h, i)
    BY <1>2, <2>1, EmitDue
  <2> QED
    BY <1>2, <2>1, <2>2, WordFrame
<1>5. CASE \/ PassBegins \/ PassEnds \/ (\E c \in hot : Cools(c)) \/ UNCHANGED vars
           \/ \E k \in Instances, r \in Readings : InstanceChanges(k, r)
  BY <1>2, <1>3, <1>5 DEF PassBegins, PassEnds, Cools, InstanceChanges, vars, workerVars, hookVars, monitorVars
<1>6. ~\E H \in SUBSET Hooks : HooksSaved(H)
  BY DEF HooksSaved
<1>7. ASSUME NEW j \in Instances, CompareStep(j) PROVE Settled(h, i)'
  BY <1>2, <1>7, CompareWord
<1>8. CASE WorkerStep
  BY <1>2, <1>8, WorkerWord
<1> QED
  BY <1>1, <1>4, <1>5, <1>6, <1>7, <1>8 DEF Next, MonitorStep

(* Unless the panel knows that it lost a notification, the last word due   *)
(* to an active hook without a cooldown is the state the monitor goes by.  *)
THEOREM LastWordRight == Spec => []LastWordDue
<1>1. Init => InOrder /\ WordKept
  <2> SUFFICES ASSUME Init PROVE InOrder /\ WordKept
    OBVIOUS
  <2>1. /\ queue = <<>> /\ todo = {} /\ cur = "none" /\ emitted = 0 /\ got = [k \in Hooks |-> 0]
        /\ item = None /\ \A i \in Instances : seen[i] = "none"
    BY DEF Init
  <2>2. InOrder
    BY <2>1 DEF InOrder, QueueOrdered, QueueEmitted, ItemFirst, GotEarlier
  <2>3. \A h \in Hooks, i \in Instances : DueAbout(h, i) = {}
    BY <2>1, WebhooksAssumption DEF DueAbout, Queued
  <2> QED
    BY <2>1, <2>2, <2>3 DEF WordKept, Settled, Prompt
<1>2. WordKept => LastWordDue
  BY DEF WordKept, LastWordDue, Settled
<1>3. TypeOK /\ InOrder /\ [Next]_vars => InOrder'
  BY StepInOrder
<1> QED
  BY InitTypes, StepTypes, StepWord, <1>1, <1>2, <1>3, PTL DEF Spec
=============================================================================
