---------------------------- MODULE StatsWorker ----------------------------
(***************************************************************************)
(* The receiver of the anonymous statistics (tools/stats-worker): panels   *)
(* send a ping a day, counted per day and limited per address and in all;  *)
(* the private page asks for a password and counts those it refuses.       *)
(* Requests run at the same time and share only the tables of the database:*)
(* each statement is atomic, a request is not.                             *)
(*                                                                         *)
(* Abstracted: a day and the window of refused passwords are some ticks of *)
(* one clock; a ping is well formed; its key is left out.                  *)
(***************************************************************************)
EXTENDS Integers, FiniteSets

CONSTANTS
    Slots,         \* bound: requests under way
    Addresses,
    DayTicks, MaxClock,   \* ticks of a day; bound: of the clock
    MaxRequests,   \* bound: requests
    PER_IP_DAY, MAX_PER_DAY, KEEP_DAYS, PRIVE_MAX_FAILS, PRIVE_FAIL_WINDOW

ASSUME StatsWorkerAssumption ==
    /\ IsFiniteSet(Slots) /\ Slots # {} /\ Addresses # {} /\ MaxClock \in Nat /\ MaxRequests \in Nat
    /\ DayTicks \in Nat \ {0} /\ PER_IP_DAY \in Nat \ {0} /\ MAX_PER_DAY \in Nat \ {0} /\ KEEP_DAYS \in Nat
    /\ PRIVE_MAX_FAILS \in Nat \ {0} /\ PRIVE_FAIL_WINDOW \in Nat \ {0}

VARIABLES
    clock,
    request,    \* what each slot does: its step, when it came, from where
    ips,        \* table ips: pings of an address on a day
    pings,      \* table pings: those counted, per day
    fails,      \* table fails: when passwords were refused
    refusals,   \* number of rows ever put in fails
    accepted,   \* ghost: pings accepted from an address on a day, of those that came to its table that day
    counted,    \* ghost: pings counted, per day
    requests

statsVars == <<clock, request, ips, pings, fails, refusals, accepted, counted, requests>>

dayOf(t) == t \div DayTicks
Days == 0..MaxClock
today == dayOf(clock)
Free == [step |-> "free", at |-> 0, from |-> CHOOSE a \in Addresses : TRUE, onDay |-> TRUE]
Steps == {"free", "arrived", "seen", "counting", "cleaning", "asked", "trying"}
to(s, step) == request' = [request EXCEPT ![s].step = step]
ends(s) == request' = [request EXCEPT ![s] = Free]
day(s) == dayOf(request[s].at)

StatsInit ==
    /\ clock = 0 /\ request = [s \in Slots |-> Free] /\ ips = [a \in Addresses |-> [d \in Days |-> 0]]
    /\ pings = [d \in Days |-> 0] /\ fails = {} /\ refusals = 0
    /\ accepted = [a \in Addresses |-> [d \in Days |-> 0]] /\ counted = [d \in Days |-> 0] /\ requests = 0

ClockTicks ==
    /\ clock < MaxClock /\ clock' = clock + 1
    /\ UNCHANGED <<request, ips, pings, fails, refusals, accepted, counted, requests>>

\* fetch: a ping, or the private page.  Its day and its time are those of now.
Arrive(s) ==
    /\ request[s].step = "free" /\ requests < MaxRequests /\ requests' = requests + 1
    /\ \E step \in {"arrived", "asked"}, a \in Addresses :
          request' = [request EXCEPT ![s] = [step |-> step, at |-> clock, from |-> a, onDay |-> TRUE]]
    /\ UNCHANGED <<clock, ips, pings, fails, refusals, accepted, counted>>

\* ping: the counter of the address, incremented and read at once.
SeeAddress(s) ==
    /\ request[s].step = "arrived"
    /\ LET a == request[s].from
           onDay == day(s) = today
       IN  /\ ips' = [ips EXCEPT ![a][day(s)] = @ + 1]
           /\ IF ips[a][day(s)] + 1 > PER_IP_DAY
              THEN ends(s) /\ UNCHANGED accepted
              ELSE /\ request' = [request EXCEPT ![s].step = "seen", ![s].onDay = onDay]
                   /\ accepted' = IF onDay THEN [accepted EXCEPT ![a][day(s)] = @ + 1] ELSE accepted
    /\ UNCHANGED <<clock, pings, fails, refusals, counted, requests>>

\* (Variant: one too many.)
CheckTotalLate(s) ==
    /\ request[s].step = "seen"
    /\ IF pings[day(s)] > MAX_PER_DAY THEN ends(s) ELSE to(s, "counting")
    /\ UNCHANGED <<clock, ips, pings, fails, refusals, accepted, counted, requests>>

\* The total of the day, read.
CheckTotal(s) ==
    /\ request[s].step = "seen"
    /\ IF pings[day(s)] >= MAX_PER_DAY THEN ends(s) ELSE to(s, "counting")
    /\ UNCHANGED <<clock, ips, pings, fails, refusals, accepted, counted, requests>>

CountPing(s) ==
    /\ request[s].step = "counting" /\ to(s, "cleaning")
    /\ pings' = [pings EXCEPT ![day(s)] = @ + 1] /\ counted' = [counted EXCEPT ![day(s)] = @ + 1]
    /\ UNCHANGED <<clock, ips, fails, refusals, accepted, requests>>

\* waitUntil: the addresses of past days, the counters no longer kept; as of when the request came.
oldestKept(t) == dayOf(t) - KEEP_DAYS
Clean(s) ==
    /\ request[s].step = "cleaning" /\ ends(s)
    /\ ips' = [a \in Addresses |-> [d \in Days |-> IF d < day(s) THEN 0 ELSE ips[a][d]]]
    /\ pings' = [d \in Days |-> IF d < oldestKept(request[s].at) THEN 0 ELSE pings[d]]
    /\ UNCHANGED <<clock, fails, refusals, accepted, counted, requests>>

\* privateGate: closed after too many refusals in the window.
recent(t) == {f \in fails : f.at > t - PRIVE_FAIL_WINDOW}
CheckRefusals(s) ==
    /\ request[s].step = "asked"
    /\ IF Cardinality(recent(request[s].at)) >= PRIVE_MAX_FAILS THEN ends(s) ELSE to(s, "trying")
    /\ UNCHANGED <<clock, ips, pings, fails, refusals, accepted, counted, requests>>

\* No password, or the right one: nothing is counted.
NotRefused(s) ==
    /\ request[s].step = "trying" /\ ends(s)
    /\ UNCHANGED <<clock, ips, pings, fails, refusals, accepted, counted, requests>>

\* A wrong one: counted, in one batch with the refusals out of the window deleted.
Refused(s) ==
    /\ request[s].step = "trying" /\ ends(s)
    /\ refusals' = refusals + 1
    /\ fails' = recent(request[s].at) \cup {[at |-> request[s].at, n |-> refusals']}
    /\ UNCHANGED <<clock, ips, pings, accepted, counted, requests>>

\* The database fails: the request ends there.
RequestDies(s) ==
    /\ request[s].step # "free" /\ ends(s)
    /\ UNCHANGED <<clock, ips, pings, fails, refusals, accepted, counted, requests>>

StatsStep(s) ==
    \/ Arrive(s) \/ SeeAddress(s) \/ CheckTotal(s) \/ CountPing(s) \/ Clean(s)
    \/ CheckRefusals(s) \/ NotRefused(s) \/ Refused(s) \/ RequestDies(s)
StatsNext == ClockTicks \/ \E s \in Slots : StatsStep(s)
StatsSpec == StatsInit /\ [][StatsNext]_statsVars

StatsTypeOK ==
    /\ clock \in 0..MaxClock /\ requests \in 0..MaxRequests
    /\ request \in [Slots -> [step : Steps, at : 0..MaxClock, from : Addresses, onDay : BOOLEAN]]
    /\ ips \in [Addresses -> [Days -> Nat]] /\ accepted \in [Addresses -> [Days -> Nat]]
    /\ pings \in [Days -> Nat] /\ counted \in [Days -> Nat]
    /\ refusals \in Nat /\ fails \subseteq [at : 0..MaxClock, n : 1..refusals] /\ IsFiniteSet(fails)

----------------------------------------------------------------------------
Concurrent == Cardinality(Slots)

(* A day never counts more pings than MAX_PER_DAY but for the requests that*)
(* were under way together: the total is read before it is added to.       *)
DayBound == \A d \in Days : pings[d] <= MAX_PER_DAY + Concurrent - 1

(* No more wrong passwords are tried within the window than PRIVE_MAX_FAILS*)
(* but for the requests under way together, deletions of old refusals by   *)
(* slow requests included.                                                 *)
RefusalBound == Cardinality(recent(clock)) <= PRIVE_MAX_FAILS + Concurrent - 1

(* The receiver's limits, with requests under way at the same time, midnight*)
(* between two of their steps and cleaning by late ones: the two bounds     *)
(* above; PER_IP_DAY exactly, for requests that come to the table of        *)
(* addresses on their own day; and no count of a day still kept is lost.    *)
StatsLimits ==
    /\ DayBound /\ RefusalBound
    /\ \A a \in Addresses, d \in Days : accepted[a][d] <= PER_IP_DAY
    /\ \A d \in Days : d >= oldestKept(clock) => pings[d] = counted[d]
=============================================================================
