----------------------------- MODULE Dashboard -----------------------------
(***************************************************************************)
(* The dashboard (assets/js/pages/dashboard.js): a card for each instance, *)
(* with the switch of its automatic start, and the configurations that no  *)
(* service uses.  Cards follow the state the page is given (StatusFeed),   *)
(* the configurations are asked for when the instances change.             *)
(*                                                                         *)
(* Abstracted: containers, the standalone mode, start and stop (which the  *)
(* page only asks for), names and copies.  The server (instances.go,       *)
(* routes.go) is reduced to what it answers here.                          *)
(***************************************************************************)
EXTENDS Naturals, Sequences, FiniteSets

CONSTANTS
    Names,            \* of instances, and of configurations
    MaxDashActs,      \* bound: what the user and others do, and requests that fail
    MaxDashOthers     \* bound: what others do

ASSUME DashboardAssumption == {MaxDashActs, MaxDashOthers} \subseteq Nat

VARIABLES
    config,      \* of each name: "none", "orphan" (no service uses it), "dismissed", "service", or
                 \* "leaving": its service is deleted and the deletion goes on
    autostart,   \* the services enabled
    dashShown,   \* the page is shown
    cards,       \* store.instances: what is drawn of them when the page is shown (lastSignature)
    switches,    \* the services whose switch is on
    orphans,     \* the configurations listed
    orphanKey,   \* <<>>, or the instances it stands for
    orphanLoads, \* loadOrphans() under way; `last`: its number is orphanSeq; `current`: read from the
                 \* instances the page knows
    calls,       \* requests under way; `mine`: the switch they come from is still in the page
    overlooked,  \* ghost: the list was not read, or the configurations changed since without the page
    crossed,     \* ghost: since the cards were drawn, services changed otherwise than by their switch
    dashActs, dashOthers

serverVars == <<config, autostart>>
shownVars == <<switches, orphanKey, orphanLoads, calls, crossed>>
dashVars == <<serverVars, dashShown, cards, shownVars, orphans, overlooked, dashActs, dashOthers>>

services == {i \in Names : config[i] = "service"}
orphanConfigs == {i \in Names : config[i] \in {"orphan", "leaving"}}
stateNow == [on |-> services, auto |-> autostart]
acts1 == dashActs < MaxDashActs /\ dashActs' = dashActs + 1

DashInit ==
    /\ config \in [Names -> {"none", "orphan", "service"}] /\ autostart = {}
    /\ cards = stateNow /\ dashShown = FALSE /\ switches = {} /\ orphans = {}
    /\ orphanKey = <<>> /\ orphanLoads = {} /\ calls = {}
    /\ overlooked = FALSE /\ crossed = {} /\ dashActs = 0 /\ dashOthers = 0

----------------------------------------------------------------------------
\* The page.

\* loadOrphans: asked for again when the instances are not those of `key`.
loadOrphans(c, key) ==
    IF key = <<c.on>> THEN orphanKey' = key /\ UNCHANGED orphanLoads
    ELSE /\ orphanKey' = <<c.on>>
         /\ orphanLoads' = {[l EXCEPT !.last = FALSE] : l \in orphanLoads} \cup
              {[last |-> TRUE, key |-> c.on, step |-> "asked", list |-> {}, current |-> FALSE]}

\* The grid is drawn: new switches, which no request under way is about.
drawGrid(c, rest) ==
    /\ switches' = c.auto /\ crossed' = {}
    /\ calls' = {[x EXCEPT !.mine = FALSE] : x \in rest}

\* store.set: the subscriber draws only what has changed.
setInstances(c, key, rest) ==
    /\ cards' = c
    /\ IF dashShown /\ c # cards
       THEN drawGrid(c, rest) /\ loadOrphans(c, key)
       ELSE calls' = rest /\ orphanKey' = key /\ UNCHANGED <<switches, crossed, orphanLoads>>

DashMount ==
    /\ ~dashShown /\ dashShown' = TRUE
    /\ orphans' = {} /\ overlooked' = FALSE
    /\ drawGrid(cards, calls) /\ loadOrphans(cards, <<>>)
    /\ UNCHANGED <<serverVars, cards, dashActs, dashOthers>>

DashUnmount ==
    /\ dashShown /\ acts1 /\ dashShown' = FALSE
    /\ UNCHANGED <<serverVars, cards, shownVars, orphans, overlooked, dashOthers>>

\* Nicknames, updates or the password change: the grid is drawn again.
DrawnAgain ==
    /\ dashShown /\ acts1 /\ drawGrid(cards, calls) /\ loadOrphans(cards, orphanKey)
    /\ UNCHANGED <<serverVars, dashShown, cards, orphans, overlooked, dashOthers>>

call(op, i) == [op |-> op, of |-> i, step |-> "sent", mine |-> TRUE, state |-> [on |-> {}, auto |-> {}]]
\* detect(), which is about no instance.
detection == call("detect", CHOOSE i \in Names : TRUE)
calling(x) ==
    /\ dashShown /\ acts1 /\ x \notin calls /\ calls' = calls \cup {x}
    /\ UNCHANGED <<serverVars, dashShown, cards, orphans, orphanLoads, overlooked, crossed, dashOthers>>

Redetect ==
    /\ orphanKey' = <<>> /\ UNCHANGED switches
    /\ calling(detection)

\* The switch is disabled while its request is under way.
ToggleAutostart ==
    /\ \E i \in cards.on :
          /\ \A x \in calls : x.mine /\ x.of = i => x.op \notin {"enable", "disable"}
          /\ switches' = IF i \in switches THEN switches \ {i} ELSE switches \cup {i}
          /\ calling(call(IF i \in switches THEN "disable" ELSE "enable", i))
    /\ UNCHANGED orphanKey

\* deleteInstance, newInstance, adopt: confirmed.
AskDelete == \E i \in cards.on, op \in {"delete", "delete_config"} : calling(call(op, i)) /\ UNCHANGED <<orphanKey, switches>>
AskCreate == \E i \in Names \ cards.on : calling(call("create", i)) /\ UNCHANGED <<orphanKey, switches>>
AskAdopt == \E i \in orphans : calling(call("adopt", i)) /\ UNCHANGED <<orphanKey, switches>>

----------------------------------------------------------------------------
\* The server.

\* The configurations are no longer what any list under way says.
outdated == overlooked' = TRUE /\ orphanLoads' = {[l EXCEPT !.current = FALSE] : l \in orphanLoads}
\* The instances are again what the page knows: nothing tells it that they were not.
cameBack == IF services' # services /\ cards.on = services' THEN outdated ELSE UNCHANGED <<overlooked, orphanLoads>>
serve(x, step) == calls' = (calls \ {x}) \cup {[x EXCEPT !.step = step]}
pageStays == UNCHANGED <<dashShown, cards, switches, orphans, orphanKey, dashActs, dashOthers>>

serves(x) == CASE x.op \in {"enable", "disable", "delete", "delete_config"} -> x.of \in services
               [] x.op = "create" -> config[x.of] = "none"
               [] x.op = "adopt" -> x.of \in orphanConfigs
               [] OTHER -> FALSE

\* enable, disable; create, adopt: stopped and not enabled; the first step of a deletion.
RequestServed ==
    /\ \E x \in calls :
          /\ x.step = "sent" /\ serves(x)
          /\ \/ /\ x.op \in {"enable", "disable"}
                /\ autostart' = IF x.op = "enable" THEN autostart \cup {x.of} ELSE autostart \ {x.of}
                /\ crossed' = IF x.mine THEN crossed ELSE crossed \cup {x.of}
                /\ serve(x, "done") /\ UNCHANGED config
             \/ /\ x.op \in {"create", "adopt"}
                /\ config' = [config EXCEPT ![x.of] = "service"] /\ serve(x, "done") /\ UNCHANGED <<autostart, crossed>>
             \/ /\ x.op \in {"delete", "delete_config"}
                /\ config' = [config EXCEPT ![x.of] = "leaving"] /\ autostart' = autostart \ {x.of}
                /\ serve(x, "deleting") /\ crossed' = crossed \cup {x.of}
    /\ cameBack /\ pageStays

\* forgetInstance: a configuration that is kept is not offered again.
DeletionEnds ==
    /\ \E x \in calls :
          /\ x.step = "deleting" /\ serve(x, "done")
          /\ config' = IF config[x.of] # "leaving" THEN config
                       ELSE [config EXCEPT ![x.of] = IF x.op = "delete" THEN "dismissed" ELSE "none"]
    /\ UNCHANGED <<autostart, overlooked, orphanLoads, crossed>> /\ pageStays

\* GET /api/detect, GET /api/status.
Detected ==
    /\ \E x \in calls :
          /\ (x.op = "detect" /\ x.step = "sent") \/ x.step = "refresh"
          /\ calls' = (calls \ {x}) \cup {[x EXCEPT !.step = "read", !.state = stateNow]}
    /\ UNCHANGED <<config, autostart, overlooked, orphanLoads, crossed>> /\ pageStays

\* Of no use, or the program behind it fails.
Refuses ==
    /\ \E x \in calls :
          /\ x.op # "detect" /\ x.step = "sent" /\ serve(x, "refused")
          /\ IF serves(x) THEN acts1 ELSE UNCHANGED dashActs
    /\ UNCHANGED <<serverVars, dashShown, cards, switches, orphans, orphanKey, orphanLoads,
                   overlooked, crossed, dashOthers>>

OrphansRead ==
    /\ \E l \in orphanLoads :
          /\ l.step = "asked"
          /\ orphanLoads' = (orphanLoads \ {l}) \cup
               {[l EXCEPT !.step = "read", !.list = orphanConfigs,
                          !.current = (l.key = services /\ \A i \in Names : config[i] # "leaving")]}
    /\ UNCHANGED <<serverVars, dashShown, cards, switches, orphans, orphanKey, calls, overlooked,
                   crossed, dashActs, dashOthers>>

\* Somebody drops or removes a file, or sets the automatic start, or deletes an instance, elsewhere.
OthersAct ==
    /\ acts1 /\ dashOthers < MaxDashOthers /\ dashOthers' = dashOthers + 1
    /\ \E i \in Names :
          \/ /\ config[i] \in {"none", "orphan"}
             /\ config' = [config EXCEPT ![i] = IF @ = "none" THEN "orphan" ELSE "none"]
             /\ outdated /\ UNCHANGED <<autostart, crossed>>
          \/ /\ i \in services /\ crossed' = crossed \cup {i}
             /\ \/ /\ autostart' = IF i \in autostart THEN autostart \ {i} ELSE autostart \cup {i}
                   /\ UNCHANGED config
                \/ config' = [config EXCEPT ![i] = "dismissed"] /\ autostart' = autostart \ {i}
             /\ cameBack
    /\ UNCHANGED <<dashShown, cards, switches, orphans, orphanKey, calls>>

----------------------------------------------------------------------------
\* What comes back.

\* A push, of the state as it is: StatusFeed has the late ones (so does Detected, here).
StatePushed ==
    /\ cards # stateNow /\ setInstances(stateNow, orphanKey, calls)
    /\ UNCHANGED <<serverVars, dashShown, orphans, overlooked, dashActs, dashOthers>>

\* The switch goes back when its request was refused or lost.
goesBack(x) == switches' = IF ~x.mine THEN switches
                           ELSE IF x.op = "enable" THEN switches \ {x.of} ELSE switches \cup {x.of}
stays == UNCHANGED <<serverVars, dashShown, orphans, overlooked, dashOthers>>
quiet(x, key) ==
    /\ calls' = (calls \ {x}) \cup {detection} /\ orphanKey' = key
    /\ UNCHANGED <<cards, switches, crossed, orphanLoads>>

\* The status is asked for too, unless it is pushed (refreshStatus).
ToggleAnswered ==
    /\ \E x \in calls, after \in {{}, {"refresh"}} :
          /\ x.op \in {"enable", "disable"} /\ x.step \in {"done", "refused"}
          /\ calls' = (calls \ {x}) \cup {[x EXCEPT !.step = "refresh"] : step \in after}
          /\ IF x.step = "done" THEN UNCHANGED switches ELSE goesBack(x)
    /\ stays /\ UNCHANGED <<cards, orphanKey, orphanLoads, crossed, dashActs>>

\* The card goes at once; the instances are then detected again, refused or not.
DeleteAnswered ==
    /\ \E x \in calls :
          /\ x.op \in {"delete", "delete_config"} /\ x.step \in {"done", "refused"}
          /\ IF x.step = "refused" THEN quiet(x, orphanKey)
             ELSE setInstances([on |-> cards.on \ {x.of}, auto |-> cards.auto \ {x.of}], orphanKey,
                               (calls \ {x}) \cup {detection})
    /\ stays /\ UNCHANGED dashActs

\* A new or an adopted instance: the configurations are to be asked for again.
CreateAnswered ==
    /\ \E x \in calls :
          /\ x.op \in {"create", "adopt"} /\ x.step \in {"done", "refused"}
          /\ IF x.step = "done" THEN quiet(x, <<>>)
             ELSE calls' = calls \ {x} /\ UNCHANGED <<cards, switches, crossed, orphanKey, orphanLoads>>
    /\ stays /\ UNCHANGED dashActs

StateAnswered ==
    /\ \E x \in calls :
          /\ x.step = "read" /\ setInstances(x.state, orphanKey, calls \ {x})
    /\ stays /\ UNCHANGED dashActs

\* No answer, served or not.
CallLost ==
    /\ acts1
    /\ \E x \in calls :
          /\ x.step \in {"sent", "done", "refresh", "read"}
          /\ IF x.op \in {"delete", "delete_config"} THEN quiet(x, orphanKey)
             ELSE /\ calls' = calls \ {x}
                  /\ IF x.op \notin {"enable", "disable"} THEN UNCHANGED <<switches, crossed>>
                     ELSE goesBack(x) /\ crossed' = IF x.step = "sent" THEN crossed ELSE crossed \cup {x.of}
                  /\ UNCHANGED <<cards, orphanKey, orphanLoads>>
    /\ stays

\* (Variant: any answer is shown.)
OrphansArriveAnyway ==
    /\ \E l \in orphanLoads :
          /\ l.step = "read" /\ orphanLoads' = orphanLoads \ {l}
          /\ IF dashShown THEN orphans' = l.list /\ overlooked' = (overlooked /\ ~l.current)
             ELSE UNCHANGED <<orphans, overlooked>>
    /\ UNCHANGED <<serverVars, dashShown, cards, switches, orphanKey, calls, crossed, dashActs, dashOthers>>

\* Only the answer to the last load is shown.
OrphansArrive ==
    /\ \E l \in orphanLoads :
          /\ l.step = "read" /\ orphanLoads' = orphanLoads \ {l}
          /\ IF dashShown /\ l.last THEN orphans' = l.list /\ overlooked' = ~l.current
             ELSE UNCHANGED <<orphans, overlooked>>
    /\ UNCHANGED <<serverVars, dashShown, cards, switches, orphanKey, calls, crossed, dashActs, dashOthers>>

\* The list stays when there is no answer, and is emptied by one that is not ok; either way it is
\* not asked for again before the instances change.
OrphansFail ==
    /\ acts1
    /\ \E l \in orphanLoads :
          /\ orphanLoads' = orphanLoads \ {l} /\ overlooked' = (overlooked \/ l.last)
          /\ orphans' = orphans \/ (dashShown /\ l.last /\ orphans' = {})
    /\ UNCHANGED <<serverVars, dashShown, cards, switches, orphanKey, calls, crossed, dashOthers>>

DashNext ==
    \/ DashMount \/ DashUnmount \/ DrawnAgain \/ Redetect \/ ToggleAutostart \/ AskDelete \/ AskCreate \/ AskAdopt
    \/ RequestServed \/ DeletionEnds \/ Detected \/ Refuses \/ OrphansRead \/ OthersAct \/ StatePushed
    \/ ToggleAnswered \/ DeleteAnswered \/ CreateAnswered \/ StateAnswered \/ CallLost \/ OrphansArrive \/ OrphansFail
DashSpec == DashInit /\ [][DashNext]_dashVars

DashTypeOK ==
    /\ config \in [Names -> {"none", "orphan", "dismissed", "service", "leaving"}] /\ autostart \subseteq services
    /\ cards.on \subseteq Names /\ cards.auto \subseteq cards.on
    /\ switches \subseteq Names /\ orphans \subseteq Names /\ dashActs \in 0..MaxDashActs /\ dashOthers \in 0..MaxDashOthers
    /\ \A l \in orphanLoads : l.last \in BOOLEAN /\ l.step \in {"asked", "read"}

(* When nothing is under way and the page knows the instances as they are, *)
(* it says so: each switch is what the server has, after refused and lost  *)
(* requests and cards drawn again under them; and the configurations       *)
(* listed are those no service uses, however the answers were ordered.     *)
(* Not held to it: a switch whose setting was changed otherwise since it   *)
(* was drawn (elsewhere, by a request of the switch that was there before  *)
(* it, by one whose answer was lost), and back before the page heard of it;*)
(* a list that could not be read, or was read with other instances than    *)
(* those the page knew, or during a deletion; a file that was dropped or   *)
(* removed since ("Detect again" asks for the list only when something     *)
(* else has changed).                                                      *)
DashboardSettles ==
    dashShown /\ calls = {} /\ orphanLoads = {} /\ cards = stateNow =>
        /\ \A i \in cards.on \ crossed : i \in switches <=> i \in autostart
        /\ overlooked \/ orphans = orphanConfigs
=============================================================================
